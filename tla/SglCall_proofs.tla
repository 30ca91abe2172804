--------------------------- MODULE SglCall_proofs ---------------------------
(***************************************************************************)
(* OckRpcClientCallWithParam keeps the contract of CallCompletion, for any *)
(* calls, requests, blocks and segment sizes, whatever fails on the way;   *)
(* and the types of its variables, with the shapes of the scatter list and *)
(* of the lists of addresses still to be freed.                            *)
(***************************************************************************)
EXTENDS SglCallProps, SequenceTheorems, TLAPS

\* The types of the variables that decide what a user is told.
Types == /\ pc \in [Calls -> PCs]
         /\ req \in [Calls -> Requests \cup {NoReq}]
         /\ why \in [Calls -> Whys]
         /\ ret \in [Calls -> {"none", "ok", "err"}]
         /\ cb \in [Calls -> Cbs]
         /\ done \in [Calls -> 0..1]

\* A callback is posted only by an asynchronous call on which nothing has failed, and the
\* routine has nothing left to do but to return; it invokes done once, as its last step.
Stage(c) ==
    /\ pc[c] # "returned" <=> ret[c] = "none"
    /\ pc[c] \in {"idle", "head", "alloc", "copy", "append", "post", "wait"}
           => why[c] = "none" /\ cb[c] = "none"
    /\ pc[c] = "free" => cb[c] = "none"
    /\ pc[c] = "wait" => ~req[c].async
    /\ cb[c] # "none" => req[c].async /\ why[c] = "none" /\ ret[c] # "err"
    /\ done[c] = IF cb[c] = "over" THEN 1 ELSE 0

IInv == Types /\ \A c \in Calls : Stage(c)

\* Nothing that Stage speaks of changes for c.
Same(c) == /\ pc'[c] = pc[c] /\ req'[c] = req[c] /\ why'[c] = why[c]
           /\ ret'[c] = ret[c] /\ cb'[c] = cb[c] /\ done'[c] = done[c]

\* What a step of c has to keep.
Kept(c) == Types' /\ Stage(c)' /\ \A d \in Calls \ {c} : Same(d)
-----------------------------------------------------------------------------
\* A call that does not change keeps its stage.
LEMMA SameStage ==
    ASSUME NEW c \in Calls, Stage(c), Same(c)
    PROVE  Stage(c)'
BY DEF Stage, Same

\* An invocation, rejected for its arguments or not.
LEMMA StartKeeps ==
    ASSUME IInv, NEW c \in Calls, NEW r \in Requests, Start(c, r)
    PROVE  Kept(c)
<1>1. Types'
    BY DEF IInv, Types, Start, PCs, Whys, cbVars
<1>2. Stage(c)'
    BY DEF IInv, Types, Stage, Start, cbVars
<1>3. \A d \in Calls \ {c} : Same(d)
    BY DEF IInv, Types, Start, Same, cbVars
<1>4. QED  BY <1>1, <1>2, <1>3 DEF Kept

\* A step of the routine that neither fails nor posts.
LEMMA PackKeeps ==
    ASSUME IInv, NEW c \in Calls,
           \/ Allocates(c) \/ CopyMessage(c) \/ AppendMessage(c) \/ PostSync(c)
    PROVE  Kept(c)
<1>1. /\ pc[c] \in {"head", "alloc", "copy", "append", "post"}
      /\ \E l \in {"alloc", "copy", "append", "post", "wait"} :
             pc' = [pc EXCEPT ![c] = l] /\ (l = "wait" => ~req[c].async)
      /\ UNCHANGED <<req, why, ret, cb, done>>
    BY DEF Allocates, AllocHead, AllocBlock, CopyMessage, AppendMessage, PostSync, cbVars
<1>2. Types'
    BY <1>1 DEF IInv, Types, PCs
<1>3. Stage(c)'
    BY <1>1 DEF IInv, Types, Stage
<1>4. \A d \in Calls \ {c} : Same(d)
    BY <1>1 DEF IInv, Types, Same
<1>5. QED  BY <1>2, <1>3, <1>4 DEF Kept

\* An error path is entered, or a synchronous call ends.
LEMMA FailKeeps ==
    ASSUME IInv, NEW c \in Calls, pc[c] \in {"head", "alloc", "copy", "append", "post", "wait"},
           NEW what \in Whys, NEW frees, Fail(c, what, frees), UNCHANGED <<req, ret, cb, done>>
    PROVE  Kept(c)
<1>1. Types'
    BY DEF IInv, Types, Fail, PCs
<1>2. Stage(c)'
    BY DEF IInv, Types, Stage, Fail
<1>3. \A d \in Calls \ {c} : Same(d)
    BY DEF IInv, Types, Fail, Same
<1>4. QED  BY <1>1, <1>2, <1>3 DEF Kept

\* The callback is posted, and the routine is about to return OK.
LEMMA PostAsyncKeeps ==
    ASSUME IInv, NEW c \in Calls, PostAsync(c)
    PROVE  Kept(c)
<1>1. Types'
    BY DEF IInv, Types, PostAsync, PCs, Cbs
<1>2. Stage(c)'
    BY DEF IInv, Types, Stage, PostAsync
<1>3. \A d \in Calls \ {c} : Same(d)
    BY DEF IInv, Types, PostAsync, Same
<1>4. QED  BY <1>1, <1>2, <1>3 DEF Kept

\* The caller's frees and its return.
LEMMA ReturnKeeps ==
    ASSUME IInv, NEW c \in Calls, CallerFree(c) \/ Return(c)
    PROVE  Kept(c)
<1>1. Types'
    BY DEF IInv, Types, CallerFree, Return, PCs, cbVars
<1>2. Stage(c)'
    BY DEF IInv, Types, Stage, CallerFree, Return, cbVars
<1>3. \A d \in Calls \ {c} : Same(d)
    BY DEF IInv, Types, CallerFree, Return, Same, cbVars
<1>4. QED  BY <1>1, <1>2, <1>3 DEF Kept

\* The callback before it invokes done.
LEMMA CallbackKeeps ==
    ASSUME IInv, NEW c \in Calls,
           CallbackStarts(c) \/ CallbackGetResultFails(c) \/ CallbackFree(c)
    PROVE  Kept(c)
<1>1. /\ cb[c] \in {"posted", "free"}
      /\ \E l \in {"free", "lost", "notify"} : cb' = [cb EXCEPT ![c] = l]
      /\ UNCHANGED <<pc, req, why, ret, done>>
    BY DEF CallbackStarts, CallbackGetResultFails, CallbackFree, callerVars
<1>2. Types'
    BY <1>1 DEF IInv, Types, Cbs
<1>3. Stage(c)'
    BY <1>1 DEF IInv, Types, Stage
<1>4. \A d \in Calls \ {c} : Same(d)
    BY <1>1 DEF IInv, Types, Same
<1>5. QED  BY <1>2, <1>3, <1>4 DEF Kept

\* done is invoked.
LEMMA NotifyKeeps ==
    ASSUME IInv, NEW c \in Calls, NEW how, CallbackNotify(c, how)
    PROVE  Kept(c)
<1>1. done[c] = 0
    BY DEF IInv, Stage, CallbackNotify
<1>2. Types'
    BY <1>1 DEF IInv, Types, CallbackNotify, Cbs, callerVars
<1>3. Stage(c)'
    BY <1>1 DEF IInv, Types, Stage, CallbackNotify, callerVars
<1>4. \A d \in Calls \ {c} : Same(d)
    BY DEF IInv, Types, CallbackNotify, Same, callerVars
<1>5. QED  BY <1>2, <1>3, <1>4 DEF Kept

\* Every step of a call keeps its stage and leaves the others alone.
LEMMA StepKeeps ==
    ASSUME IInv, NEW c \in Calls,
           (\E r \in Requests : Start(c, r)) \/ CallerStep(c) \/ TransportStep(c)
    PROVE  Kept(c)
<1>1. CASE \E r \in Requests : Start(c, r)
    BY <1>1, StartKeeps
<1>2. CASE AllocFails(c) \/ CopyFails(c) \/ PostAsyncFails(c)
    BY <1>2, FailKeeps DEF AllocFails, CopyFails, PostAsyncFails, cbVars, Whys
<1>3. CASE CallerStep(c) /\ ~(AllocFails(c) \/ CopyFails(c) \/ PostAsyncFails(c))
    BY <1>3, PackKeeps, PostAsyncKeeps, ReturnKeeps DEF CallerStep
<1>4. CASE \E ok \in BOOLEAN : SyncDone(c, ok)
    BY <1>4, FailKeeps DEF SyncDone, Whys
<1>5. CASE TransportStep(c) /\ ~\E ok \in BOOLEAN : SyncDone(c, ok)
    BY <1>5, CallbackKeeps, NotifyKeeps DEF TransportStep
<1>6. QED  BY <1>1, <1>2, <1>3, <1>4, <1>5

\* Every call is at one of the stages, whatever the other calls and the other servers do.
THEOREM Invariance == Spec => []IInv
<1>1. Init => IInv
    BY DEF Init, IInv, Types, Stage, PCs, Whys, Cbs
<1>2. IInv /\ [Next]_vars => IInv'
    <2> SUFFICES ASSUME IInv, [Next]_vars PROVE IInv'
        OBVIOUS
    <2>1. CASE \E c \in Calls :
                  (\E r \in Requests : Start(c, r)) \/ CallerStep(c) \/ TransportStep(c)
        <3>1. PICK c \in Calls : Kept(c)
            BY <2>1, StepKeeps
        <3>2. ASSUME NEW d \in Calls \ {c} PROVE Stage(d)'
            BY <3>1, SameStage DEF Kept, IInv
        <3>3. QED  BY <3>1, <3>2 DEF Kept, IInv
    <2>2. CASE OtherServer \/ UNCHANGED vars
        <3>1. UNCHANGED <<pc, req, why, ret, cb, done>>
            BY <2>2 DEF OtherServer, vars, callerVars, cbVars
        <3>2. ASSUME NEW c \in Calls PROVE Stage(c)'
            BY <3>1, SameStage DEF Same, IInv
        <3>3. Types'
            BY <3>1 DEF Types, IInv
        <3>4. QED  BY <3>2, <3>3 DEF IInv
    <2>3. QED  BY <2>1, <2>2 DEF Next
<1>3. QED  BY <1>1, <1>2, PTL DEF Spec
-----------------------------------------------------------------------------
\* The step of the contract that a step of c is.
Contract(c) == \/ \E m \in {"sync", "async"}, v \in {"none", "err"} : Completion!Invoke(c, m, v)
               \/ \E v \in {"ok", "err"} : Completion!Return(c, v)
               \/ Completion!Notify(c)
               \/ Mode' = Mode /\ ret' = ret /\ done' = done

\* An invocation, rejected for its arguments or not.
LEMMA InvokeRefines ==
    ASSUME IInv, NEW c \in Calls, NEW r \in Requests, Start(c, r)
    PROVE  Contract(c)
<1> DEFINE m == IF r.async THEN "async" ELSE "sync"
<1>1. Mode[c] = "none" /\ ret[c] = "none" /\ done' = done
    BY DEF IInv, Types, Stage, Mode, Start, cbVars
<1>2. /\ req' = [req EXCEPT ![c] = r] /\ pc'[c] # "idle"
      /\ \A d \in Calls \ {c} : pc'[d] = pc[d]
      /\ \E v \in {"none", "err"} : ret' = [ret EXCEPT ![c] = v]
    BY <1>1 DEF IInv, Types, Start
<1>3. Mode' = [Mode EXCEPT ![c] = m]
    BY <1>2 DEF IInv, Types, Mode
<1>4. PICK v \in {"none", "err"} : Completion!Invoke(c, m, v)
    BY <1>1, <1>2, <1>3 DEF Completion!Invoke
<1>5. m \in {"sync", "async"}
    OBVIOUS
<1>6. QED  BY <1>4, <1>5 DEF Contract

\* The routine works on: it neither returns nor begins.
LEMMA InnerRefines ==
    ASSUME IInv, NEW c \in Calls, UNCHANGED <<req, ret, done>>,
           pc' = pc \/ \E l \in PCs \ {"idle"} : pc' = [pc EXCEPT ![c] = l],
           pc[c] # "idle"
    PROVE  Contract(c)
BY DEF IInv, Types, Mode, Contract

\* A return: with an error only if done was not and will not be invoked.
LEMMA ReturnRefines ==
    ASSUME IInv, NEW c \in Calls, Return(c)
    PROVE  Contract(c)
<1> DEFINE v == IF why[c] = "none" THEN "ok" ELSE "err"
<1>1. Mode[c] # "none" /\ Mode' = Mode /\ ret[c] = "none" /\ done' = done
    BY DEF IInv, Types, Stage, Mode, Return, cbVars
<1>2. done[c] = 1 => v = "ok"
    BY DEF IInv, Stage
<1>3. Completion!Return(c, v)
    BY <1>1, <1>2 DEF Completion!Return, Return
<1>4. v \in {"ok", "err"}
    OBVIOUS
<1>5. QED  BY <1>3, <1>4 DEF Contract

\* done is invoked for an asynchronous call that has not failed.
LEMMA NotifyRefines ==
    ASSUME IInv, NEW c \in Calls, NEW how, CallbackNotify(c, how)
    PROVE  Contract(c)
<1>1. cb[c] = "notify" /\ done[c] = 0 /\ req[c].async /\ ret[c] # "err" /\ pc[c] # "idle"
    BY DEF IInv, Types, Stage, CallbackNotify
<1>2. Mode[c] = "async" /\ Mode' = Mode /\ ret' = ret
    BY <1>1 DEF Mode, CallbackNotify, callerVars
<1>3. done' = [done EXCEPT ![c] = 1]
    BY <1>1 DEF CallbackNotify
<1>4. Completion!Notify(c)
    BY <1>1, <1>2, <1>3 DEF Completion!Notify
<1>5. QED  BY <1>4 DEF Contract

\* Every step of a call is a step of the contract.
LEMMA StepRefines ==
    ASSUME IInv, NEW c \in Calls,
           (\E r \in Requests : Start(c, r)) \/ CallerStep(c) \/ TransportStep(c)
    PROVE  Contract(c)
<1>1. CASE \/ Allocates(c) \/ AllocFails(c) \/ CopyMessage(c) \/ AppendMessage(c)
           \/ CopyFails(c) \/ PostSync(c) \/ PostAsync(c) \/ PostAsyncFails(c)
           \/ CallerFree(c) \/ \E ok \in BOOLEAN : SyncDone(c, ok)
    <2>1. /\ pc[c] # "idle" /\ UNCHANGED <<req, ret, done>>
          /\ \E l \in PCs \ {"idle"} : pc' = [pc EXCEPT ![c] = l]
        BY <1>1 DEF Allocates, AllocHead, AllocBlock, AllocFails, CopyMessage, AppendMessage,
            CopyFails, PostSync, PostAsync, PostAsyncFails, CallerFree, SyncDone, Fail, PCs, cbVars
    <2>2. QED  BY <2>1, InnerRefines
<1>2. CASE CallbackStarts(c) \/ CallbackGetResultFails(c) \/ CallbackFree(c)
    <2>1. pc[c] # "idle" /\ UNCHANGED <<pc, req, ret, done>>
        BY <1>2 DEF IInv, Types, Stage, CallbackStarts, CallbackGetResultFails, CallbackFree, callerVars
    <2>2. QED  BY <2>1, InnerRefines
<1>3. QED
    BY <1>1, <1>2, InvokeRefines, ReturnRefines, NotifyRefines DEF CallerStep, TransportStep

\* OckRpcClientCallWithParam keeps the contract of CallCompletion: done is invoked at most
\* once, never after an error return, and never for a synchronous call.
THEOREM Implements == Spec => KeepsPromise
<1>1. Init => Completion!Init
    BY DEF Init, Completion!Init, Mode
<1>2. IInv /\ [Next]_vars => [Completion!Next]_(Completion!vars)
    <2> SUFFICES ASSUME IInv, [Next]_vars PROVE [Completion!Next]_(Completion!vars)
        OBVIOUS
    <2>1. CASE \E c \in Calls :
                  (\E r \in Requests : Start(c, r)) \/ CallerStep(c) \/ TransportStep(c)
        <3>1. PICK c \in Calls : Contract(c)
            BY <2>1, StepRefines
        <3>2. QED  BY <3>1 DEF Contract, Completion!Next, Completion!vars
    <2>2. CASE OtherServer \/ UNCHANGED vars
        BY <2>2 DEF OtherServer, vars, callerVars, cbVars, Mode, Completion!vars
    <2>3. QED  BY <2>1, <2>2 DEF Next
<1>3. QED  BY <1>1, <1>2, Invariance, PTL DEF Spec, KeepsPromise, Completion!Safety
-----------------------------------------------------------------------------
Entry == [addr : Blocks, size : Nat]
-----------------------------------------------------------------------------
\* The lists of addresses that the error paths free.
LEMMA TimesIsSeq ==
    ASSUME NEW a \in Addr, NEW n \in Nat
    PROVE  Times(a, n) \in Seq(Addr) /\ Len(Times(a, n)) = n /\ \A k \in 1..n : Times(a, n)[k] = a
BY DEF Times

\* FreeAllMemory passes every entry of the array, used or not.
LEMMA FreeAllIsSeq ==
    ASSUME NEW v \in Seq(Entry)
    PROVE  /\ FreeAll(v) \in Seq(Addr) /\ FreeAll(v) # <<>> /\ Len(FreeAll(v)) = IovMax
           /\ \A k \in 1..IovMax : FreeAll(v)[k] = IF k <= Len(v) THEN v[k].addr ELSE NoAddr
<1>1. IovMax \in Nat \ {0, 1}
    BY ConstantsOK DEF ConstantsOK
<1>2. ASSUME NEW k \in 1..IovMax PROVE (IF k <= Len(v) THEN v[k].addr ELSE NoAddr) \in Addr
    <2>1. CASE k <= Len(v)
        <3>1. v[k] \in Entry
            BY <2>1, <1>1, ElementOfSeq, LenProperties
        <3>2. QED  BY <2>1, <3>1 DEF Entry, Addr
    <2>2. QED  BY <2>1 DEF Addr
<1>3. /\ FreeAll(v) \in [1..IovMax -> Addr]
      /\ \A k \in 1..IovMax : FreeAll(v)[k] = IF k <= Len(v) THEN v[k].addr ELSE NoAddr
    BY <1>2 DEF FreeAll
<1>4. FreeAll(v) \in Seq(Addr) /\ Len(FreeAll(v)) = IovMax
    BY <1>1, <1>3
<1>5. QED  BY <1>1, <1>3, <1>4

\* The addresses of a scatter list.
LEMMA AddrsIsSeq ==
    ASSUME NEW v \in Seq(Entry)
    PROVE  /\ Addrs(v) \in Seq(Addr) /\ Len(Addrs(v)) = Len(v)
           /\ \A k \in 1..Len(v) : Addrs(v)[k] = v[k].addr
<1>1. Len(v) \in Nat
    BY LenProperties
<1>2. ASSUME NEW k \in 1..Len(v) PROVE v[k].addr \in Addr
    <2>1. v[k] \in Entry
        BY ElementOfSeq
    <2>2. QED  BY <2>1 DEF Entry, Addr
<1>3. /\ Addrs(v) \in [1..Len(v) -> Addr]
      /\ \A k \in 1..Len(v) : Addrs(v)[k] = v[k].addr
    BY <1>2 DEF Addrs
<1>4. Addrs(v) \in Seq(Addr) /\ Len(Addrs(v)) = Len(v)
    BY <1>1, <1>3
<1>5. QED  BY <1>3, <1>4

\* What is left of a list after a free is empty only after the last one.
LEMMA TailShape ==
    ASSUME NEW q \in Seq(Addr), q # <<>>
    PROVE  /\ Tail(q) \in Seq(Addr) /\ Len(q) \in Nat \ {0}
           /\ Len(q) # 1 => Tail(q) # <<>>
           /\ Len(q) > 1 => Tail(q) # <<>>
<1>1. Len(q) \in Nat \ {0}
    BY EmptySeq
<1>2. PICK t \in Seq(Addr) : t = Tail(q) /\ Len(t) = Len(q) - 1
    BY HeadTailProperties
<1>3. t = <<>> => Len(t) = 0
    BY EmptySeq
<1>4. QED  BY <1>1, <1>2, <1>3

\* The messages of a request.
LEMMA MessageParts ==
    ASSUME NEW r \in Requests
    PROVE  /\ r.msgs \in Seq([len : Nat, null : BOOLEAN]) /\ r.async \in BOOLEAN /\ r.rsp \in BOOLEAN
           /\ Len(r.msgs) \in Nat \ {0}
BY ConstantsOK DEF ConstantsOK
-----------------------------------------------------------------------------
\* How long the lists are at each point of the routine and of the callback.
Shape(c) ==
    /\ pc[c] # "idle" => req[c] \in Requests
    /\ pc[c] \in {"idle", "head"} => packed[c] = 0
    /\ pc[c] \in {"alloc", "copy"} => packed[c] < SetCount(c) /\ Len(iov[c]) = packed[c] + 1
    /\ pc[c] = "copy" => cur[c] \in Blocks
    /\ pc[c] = "append" => Len(iov[c]) = IovMax /\ packed[c] < Count(c)
    /\ pc[c] \in {"post", "wait"} \/ cb[c] = "posted"
           => iov[c] # <<>> /\ packed[c] = Count(c)
    /\ pc[c] = "free" => left[c] # <<>>
    /\ cb[c] = "free" => cbLeft[c] # <<>>

SInv == IInv /\ TypeOK /\ \A c \in Calls : Shape(c)

\* Nothing that Shape speaks of changes for c.
SameShape(c) == /\ pc'[c] = pc[c] /\ req'[c] = req[c] /\ iov'[c] = iov[c] /\ cur'[c] = cur[c]
                /\ packed'[c] = packed[c] /\ left'[c] = left[c]
                /\ cb'[c] = cb[c] /\ cbLeft'[c] = cbLeft[c]

Shaped(c) == TypeOK' /\ Shape(c)' /\ \A d \in Calls \ {c} : SameShape(d)

\* A call that does not change keeps its shape.
LEMMA ShapeKept ==
    ASSUME NEW c \in Calls, Shape(c), SameShape(c)
    PROVE  Shape(c)'
BY DEF Shape, SameShape, SetCount, Count, Long

\* The counters of a request stay within its messages.
LEMMA Counters ==
    ASSUME TypeOK, NEW c \in Calls, req[c] \in Requests
    PROVE  /\ Count(c) \in Nat \ {0} /\ SetCount(c) \in 1..Count(c) /\ Long(c) \in BOOLEAN
           /\ SetCount(c) <= IovMax - 1 /\ IovMax \in Nat \ {0, 1} /\ packed[c] \in Nat
           /\ Long(c) => SetCount(c) = IovMax - 1
           /\ packed[c] < Count(c) => Msg(c).len \in Nat /\ Msg(c).null \in BOOLEAN
<1>1. req[c].msgs \in Seq([len : Nat, null : BOOLEAN]) /\ Count(c) \in Nat \ {0}
    BY MessageParts DEF Count
<1>2. IovMax \in Nat \ {0, 1} /\ packed[c] \in Nat
    BY ConstantsOK DEF ConstantsOK, TypeOK
<1>3. ASSUME packed[c] < Count(c) PROVE Msg(c) \in [len : Nat, null : BOOLEAN]
    <2>1. packed[c] + 1 \in 1..Len(req[c].msgs)
        BY <1>1, <1>2, <1>3 DEF Count
    <2>2. QED  BY <1>1, <2>1, ElementOfSeq DEF Msg
<1>4. QED  BY <1>1, <1>2, <1>3 DEF SetCount, Long

\* An invocation.
LEMMA StartShapes ==
    ASSUME SInv, NEW c \in Calls, NEW r \in Requests, Start(c, r)
    PROVE  Shaped(c)
<1>1. TypeOK'
    BY DEF SInv, TypeOK, Start, PCs, Whys, cbVars, poolVars
<1>2. Shape(c)'
    BY DEF SInv, IInv, Stage, TypeOK, Shape, Start, cbVars
<1>3. \A d \in Calls \ {c} : SameShape(d)
    BY DEF SInv, TypeOK, Start, SameShape, cbVars
<1>4. QED  BY <1>1, <1>2, <1>3 DEF Shaped

\* A header block is allocated.
LEMMA AllocHeadShapes ==
    ASSUME SInv, NEW c \in Calls, NEW b \in Blocks, AllocHead(c, b)
    PROVE  Shaped(c)
<1>1. HeaderSize \in Nat /\ <<[addr |-> b, size |-> HeaderSize]>> \in Seq(Entry)
    BY ConstantsOK DEF ConstantsOK, Entry
<1>2. <<<<c, 0, 0>>>> \in Seq(Calls \X Nat \X Nat)
    OBVIOUS
<1>3. TypeOK'
    BY <1>1, <1>2 DEF SInv, TypeOK, AllocHead, Take, PCs, cbVars, Entry
<1>4. Shape(c)'
    <2>1. req[c] \in Requests /\ packed[c] = 0
        BY DEF SInv, Shape, AllocHead
    <2>2. /\ pc'[c] = "alloc" /\ Len(iov'[c]) = 1
          /\ req' = req /\ packed' = packed /\ cb' = cb /\ cbLeft' = cbLeft
        BY DEF SInv, TypeOK, AllocHead, cbVars
    <2>3. cb[c] = "none"
        BY DEF SInv, IInv, Stage, AllocHead
    <2>4. 0 < SetCount(c) /\ SetCount(c)' = SetCount(c)
        BY <2>1, <2>2, Counters DEF SInv, SetCount, Count, Long
    <2>5. QED  BY <2>1, <2>2, <2>3, <2>4 DEF Shape
<1>5. \A d \in Calls \ {c} : SameShape(d)
    BY DEF SInv, TypeOK, AllocHead, SameShape, cbVars
<1>6. QED  BY <1>3, <1>4, <1>5 DEF Shaped

\* A block for a message is allocated.
LEMMA AllocBlockShapes ==
    ASSUME SInv, NEW c \in Calls, NEW b \in Blocks, AllocBlock(c, b)
    PROVE  Shaped(c)
<1>1. req[c] \in Requests /\ packed[c] < SetCount(c)
    BY DEF SInv, Shape, AllocBlock
<1>2. BlockSize(c) \in Nat
    <2>1. segSize \in Nat
        BY ConstantsOK DEF SInv, TypeOK, ConstantsOK
    <2>2. Count(c) \in Nat /\ SetCount(c) \in 1..Count(c) /\ packed[c] \in Nat
        BY <1>1, Counters DEF SInv
    <2>3. Msg(c).len \in Nat
        BY <1>1, <2>2, Counters DEF SInv
    <2>4. QED  BY <2>1, <2>3 DEF BlockSize
<1>3. holder' \in [Blocks -> Calls \cup {NoCall}]
    BY DEF SInv, TypeOK, AllocBlock, Take
<1>4. cap' \in [Blocks -> Nat]
    BY <1>2 DEF SInv, TypeOK, AllocBlock, Take
<1>5. mem' \in [Blocks -> Seq(Calls \X Nat \X Nat)]
    BY DEF SInv, TypeOK, AllocBlock
<1>6. TypeOK'
    BY <1>3, <1>4, <1>5 DEF SInv, TypeOK, AllocBlock, PCs, cbVars, Addr
<1>7. Shape(c)'
    <2>1. pc'[c] = "copy" /\ cur'[c] = b /\ cb'[c] = cb[c] /\ UNCHANGED <<req, iov, packed, cbLeft>>
        BY DEF SInv, TypeOK, AllocBlock, cbVars
    <2>2. cb[c] = "none" /\ Len(iov[c]) = packed[c] + 1
        BY DEF SInv, IInv, Stage, Shape, AllocBlock
    <2>3. QED
        BY <1>1, <2>1, <2>2 DEF Shape, SetCount, Count, Long
<1>8. \A d \in Calls \ {c} : SameShape(d)
    BY DEF SInv, TypeOK, AllocBlock, SameShape, cbVars
<1>9. QED  BY <1>6, <1>7, <1>8 DEF Shaped

\* An error path is entered, or a synchronous call ends, with the addresses to free.
LEMMA FailShapes ==
    ASSUME SInv, NEW c \in Calls, pc[c] # "idle", cb[c] = "none",
           NEW what \in Whys, NEW frees \in Seq(Addr), Fail(c, what, frees),
           UNCHANGED <<segSize, req, iov, packed, ret, cb, cbLeft, done, holder, cap>>,
           mem' \in [Blocks -> Seq(Calls \X Nat \X Nat)],
           cur' = cur \/ cur' = [cur EXCEPT ![c] = NoAddr],
           rsp' = rsp \/ rsp' = [rsp EXCEPT ![c] = "filled"]
    PROVE  Shaped(c)
<1>1. left' \in [Calls -> Seq(Addr)]
    BY DEF SInv, TypeOK, Fail
<1>2. TypeOK'
    BY <1>1 DEF SInv, TypeOK, Fail, PCs, Addr
<1>3. Shape(c)'
    BY DEF SInv, TypeOK, Shape, Fail
<1>4. \A d \in Calls \ {c} : SameShape(d)
    BY DEF SInv, TypeOK, Fail, SameShape
<1>5. QED  BY <1>2, <1>3, <1>4 DEF Shaped

\* What PackReqInfo frees when SetReqInfo has failed.
LEMMA AfterIsSeq ==
    ASSUME SInv, NEW c \in Calls, iov[c] # <<>>
    PROVE  AfterSetReqInfo(c) \in Seq(Addr)
<1>1. iov[c] \in Seq(Entry)
    BY DEF SInv, TypeOK, Entry
<1>2. 1 \in 1..Len(iov[c])
    BY <1>1, LenProperties, EmptySeq
<1>3. iov[c][1].addr \in Addr
    <2>1. iov[c][1] \in Entry
        BY <1>1, <1>2, ElementOfSeq
    <2>2. QED  BY <2>1 DEF Entry, Addr
<1>4. <<iov[c][1].addr>> \in Seq(Addr)
    BY <1>3
<1>5. QED  BY <1>1, <1>4, FreeAllIsSeq DEF AfterSetReqInfo

\* A refused copy leaves some blocks as they are and the others without content.
LEMMA CleanMemory ==
    ASSUME SInv, NEW b, NEW offset, Clears(b, offset)
    PROVE  mem' \in [Blocks -> Seq(Calls \X Nat \X Nat)]
<1>1. PICK S \in SUBSET (Blocks \ {b}) : mem' = [a \in Blocks |-> IF a \in S THEN <<>> ELSE mem[a]]
    BY DEF Clears
<1>2. mem \in [Blocks -> Seq(Calls \X Nat \X Nat)]
    BY DEF SInv, TypeOK
<1>3. <<>> \in Seq(Calls \X Nat \X Nat)
    BY EmptySeq
<1>4. QED  BY <1>1, <1>2, <1>3

\* What a failing allocation, copy or post leaves to be freed.
LEMMA FailuresShape ==
    ASSUME SInv, NEW c \in Calls, AllocFails(c) \/ CopyFails(c) \/ PostAsyncFails(c)
    PROVE  Shaped(c)
<1> DEFINE Nothing == <<>>
<1>1. /\ Nothing \in Seq(Addr) /\ cb[c] = "none" /\ packed[c] \in Nat /\ packed[c] + 1 \in Nat
      /\ UNCHANGED <<segSize, req, iov, packed, ret, cb, cbLeft, done, rsp, holder, cap>>
    BY DEF SInv, IInv, Stage, TypeOK, AllocFails, CopyFails, PostAsyncFails, cbVars, poolVars
<1>2. mem' \in [Blocks -> Seq(Calls \X Nat \X Nat)]
    <2>1. mem \in [Blocks -> Seq(Calls \X Nat \X Nat)]
        BY DEF SInv, TypeOK
    <2>2. CASE CopyFails(c)
        BY <2>1, <2>2, CleanMemory DEF CopyFails
    <2>3. QED  BY <2>1, <2>2 DEF AllocFails, PostAsyncFails, poolVars
<1>3. CASE pc[c] = "head" /\ AllocFails(c)
    BY <1>1, <1>2, <1>3, FailShapes DEF AllocFails, Whys
<1>4. CASE pc[c] = "alloc" /\ AllocFails(c)
    <2>1. iov[c] # <<>>
        BY <1>1, <1>4 DEF SInv, Shape
    <2>2. Times(NoAddr, packed[c]) \o AfterSetReqInfo(c) \in Seq(Addr)
        BY <1>1, <2>1, TimesIsSeq, AfterIsSeq, ConcatProperties DEF Addr
    <2>3. QED  BY <1>1, <1>2, <1>4, <2>2, FailShapes DEF AllocFails, Whys
<1>5. CASE pc[c] = "copy" /\ CopyFails(c)
    <2>1. iov[c] # <<>> /\ cur[c] \in Addr
        BY <1>1, <1>5 DEF SInv, TypeOK, Shape
    <2>2. Times(cur[c], packed[c] + 1) \o AfterSetReqInfo(c) \in Seq(Addr)
        BY <1>1, <2>1, TimesIsSeq, AfterIsSeq, ConcatProperties
    <2>3. QED  BY <1>1, <1>2, <1>5, <2>2, FailShapes DEF CopyFails, Whys
<1>6. CASE pc[c] = "append" /\ CopyFails(c)
    <2>1. FreeAll(iov[c]) \in Seq(Addr)
        BY FreeAllIsSeq DEF SInv, TypeOK, Entry
    <2>2. QED  BY <1>1, <1>2, <1>6, <2>1, FailShapes DEF CopyFails, Whys
<1>7. CASE PostAsyncFails(c)
    BY <1>1, <1>2, <1>7, FailShapes DEF PostAsyncFails, Whys
<1>8. QED  BY <1>3, <1>4, <1>5, <1>6, <1>7 DEF AllocFails, CopyFails

\* A synchronous call ends.
LEMMA SyncDoneShapes ==
    ASSUME SInv, NEW c \in Calls, NEW ok \in BOOLEAN, SyncDone(c, ok)
    PROVE  Shaped(c)
<1>1. cb[c] = "none" /\ Addrs(iov[c]) \in Seq(Addr)
    BY AddrsIsSeq DEF SInv, IInv, Stage, TypeOK, Entry, SyncDone
<1>2. rsp' = rsp \/ rsp' = [rsp EXCEPT ![c] = "filled"]
    BY DEF SInv, TypeOK, SyncDone
<1>3. /\ pc[c] # "idle" /\ mem' \in [Blocks -> Seq(Calls \X Nat \X Nat)]
      /\ UNCHANGED <<segSize, req, iov, cur, packed, ret, cb, cbLeft, done, holder, cap>>
    BY DEF SInv, TypeOK, SyncDone, poolVars
<1>4. PICK what \in Whys : Fail(c, what, Addrs(iov[c]))
    BY DEF SyncDone, Whys
<1>5. QED  BY <1>1, <1>2, <1>3, <1>4, FailShapes

\* A message is copied and its block goes into the scatter list.
LEMMA CopyMessageShapes ==
    ASSUME SInv, NEW c \in Calls, CopyMessage(c)
    PROVE  Shaped(c)
<1>1. /\ req[c] \in Requests /\ packed[c] < SetCount(c) /\ Len(iov[c]) = packed[c] + 1
      /\ cur[c] \in Blocks /\ cb[c] = "none" /\ iov[c] \in Seq(Entry)
    <2>1. pc[c] = "copy"
        BY DEF CopyMessage
    <2>2. QED  BY <2>1 DEF SInv, IInv, Stage, TypeOK, Shape, Entry
<1>2. /\ Count(c) \in Nat /\ SetCount(c) \in 1..Count(c) /\ packed[c] \in Nat
      /\ IovMax \in Nat /\ (Long(c) => SetCount(c) = IovMax - 1)
    BY <1>1, Counters DEF SInv
<1>3. [addr |-> cur[c], size |-> Msg(c).len] \in Entry
    BY <1>1, <1>2, Counters DEF SInv, Entry
<1>4. /\ iov'[c] = Append(iov[c], [addr |-> cur[c], size |-> Msg(c).len])
      /\ iov'[c] \in Seq(Entry) /\ Len(iov'[c]) = packed[c] + 2 /\ iov'[c] # <<>>
    <2> DEFINE e == [addr |-> cur[c], size |-> Msg(c).len]
    <2>1. iov'[c] = Append(iov[c], e)
        BY DEF SInv, TypeOK, CopyMessage
    <2> HIDE DEF e
    <2>2. e \in Entry
        BY <1>3 DEF e
    <2>3. /\ Append(iov[c], e) \in Seq(Entry) /\ Append(iov[c], e) # <<>>
          /\ Len(Append(iov[c], e)) = Len(iov[c]) + 1
        BY <1>1, <2>2, AppendProperties
    <2>4. QED  BY <1>1, <1>2, <2>1, <2>3 DEF e
<1>5. /\ iov' \in [Calls -> Seq(Entry)] /\ packed' \in [Calls -> Nat] /\ cur' \in [Calls -> Addr]
      /\ mem' \in [Blocks -> Seq(Calls \X Nat \X Nat)] /\ pc' \in [Calls -> PCs]
    <2>1. iov' \in [Calls -> Seq(Entry)]
        BY <1>4 DEF SInv, TypeOK, CopyMessage, Entry
    <2>2. <<<<c, packed[c] + 1, 0>>>> \in Seq(Calls \X Nat \X Nat)
        BY <1>2
    <2>3. mem' \in [Blocks -> Seq(Calls \X Nat \X Nat)]
        BY <2>2 DEF SInv, TypeOK, CopyMessage
    <2>4. QED  BY <1>2, <2>1, <2>3 DEF SInv, TypeOK, CopyMessage, PCs, Addr
<1>6. TypeOK'
    BY <1>5 DEF SInv, TypeOK, CopyMessage, cbVars, Entry
<1>7. Shape(c)'
    <2>1. /\ packed'[c] = packed[c] + 1 /\ req' = req /\ cb'[c] = "none"
          /\ pc'[c] = IF packed[c] + 1 < SetCount(c) THEN "alloc"
                      ELSE IF Long(c) THEN "append" ELSE "post"
        BY <1>1 DEF SInv, TypeOK, CopyMessage, cbVars
    <2>2. IF Long(c) THEN SetCount(c) < Count(c) ELSE SetCount(c) = Count(c)
        BY <1>2 DEF Long, SetCount
    <2>3. SetCount(c)' = SetCount(c) /\ Count(c)' = Count(c)
        BY <2>1 DEF SetCount, Count, Long
    <2>4. QED
        BY <1>1, <1>2, <1>4, <2>1, <2>2, <2>3 DEF Shape
<1>8. \A d \in Calls \ {c} : SameShape(d)
    BY DEF SInv, TypeOK, CopyMessage, SameShape, cbVars
<1>9. QED  BY <1>6, <1>7, <1>8 DEF Shaped

\* A message is appended to the last block.
LEMMA AppendMessageShapes ==
    ASSUME SInv, NEW c \in Calls, AppendMessage(c)
    PROVE  Shaped(c)
<1>1. /\ req[c] \in Requests /\ packed[c] < Count(c) /\ Len(iov[c]) = IovMax
      /\ cb[c] = "none" /\ iov[c] \in Seq(Entry)
    <2>1. pc[c] = "append"
        BY DEF AppendMessage
    <2>2. QED  BY <2>1 DEF SInv, IInv, Stage, TypeOK, Shape, Entry
<1>2. /\ Count(c) \in Nat /\ packed[c] \in Nat /\ IovMax \in Nat \ {0} /\ Msg(c).len \in Nat
    BY <1>1, Counters DEF SInv
<1>3. IovMax \in 1..Len(iov[c]) /\ iov[c][IovMax] \in Entry
    BY <1>1, <1>2, ElementOfSeq
<1>4. PICK e \in Entry : iov' = [iov EXCEPT ![c] = [iov[c] EXCEPT ![IovMax] = e]]
    <2> DEFINE e == [iov[c][IovMax] EXCEPT !.size = @ + Msg(c).len]
    <2>1. e \in Entry
        BY <1>2, <1>3 DEF Entry
    <2>2. iov' = [iov EXCEPT ![c] = [iov[c] EXCEPT ![IovMax] = e]]
        BY DEF AppendMessage
    <2>3. QED  BY <2>1, <2>2
<1>5. iov'[c] \in Seq(Entry) /\ Len(iov'[c]) = IovMax /\ iov' \in [Calls -> Seq(Entry)]
    <2>1. [iov[c] EXCEPT ![IovMax] = e] \in Seq(Entry) /\ Len([iov[c] EXCEPT ![IovMax] = e]) = IovMax
        BY <1>1, <1>3, ExceptSeq
    <2>2. QED  BY <1>4, <2>1 DEF SInv, TypeOK, Entry
<1>6. mem' \in [Blocks -> Seq(Calls \X Nat \X Nat)]
    <2> DEFINE last  == iov[c][IovMax]
               piece == <<c, packed[c] + 1, last.size>>
    <2>1. piece \in Calls \X Nat \X Nat /\ last.addr \in Blocks
        BY <1>2, <1>3 DEF Entry
    <2>2. Append(mem[last.addr], piece) \in Seq(Calls \X Nat \X Nat)
        BY <2>1, AppendProperties DEF SInv, TypeOK
    <2>3. QED  BY <2>1, <2>2 DEF SInv, TypeOK, AppendMessage
<1>7. TypeOK'
    <2>1. packed' \in [Calls -> Nat] /\ pc' \in [Calls -> PCs]
        BY <1>2 DEF SInv, TypeOK, AppendMessage, PCs
    <2>2. QED  BY <2>1, <1>5, <1>6 DEF SInv, TypeOK, AppendMessage, cbVars, Entry
<1>8. Shape(c)'
    <2>1. /\ packed'[c] = packed[c] + 1 /\ req' = req /\ cb'[c] = "none"
          /\ pc'[c] = IF packed[c] + 1 < Count(c) THEN "append" ELSE "post"
        BY <1>1 DEF SInv, TypeOK, AppendMessage, cbVars
    <2>2. Count(c)' = Count(c)
        BY <2>1 DEF Count
    <2>3. iov'[c] # <<>>
        BY <1>2, <1>5, EmptySeq
    <2>4. QED
        BY <1>1, <1>2, <1>5, <2>1, <2>2, <2>3 DEF Shape
<1>9. \A d \in Calls \ {c} : SameShape(d)
    BY <1>4 DEF SInv, TypeOK, AppendMessage, SameShape, cbVars
<1>10. QED  BY <1>7, <1>8, <1>9 DEF Shaped

\* A request is posted, or the routine returns.
LEMMA PostShapes ==
    ASSUME SInv, NEW c \in Calls, PostSync(c) \/ PostAsync(c) \/ Return(c)
    PROVE  Shaped(c)
<1>1. TypeOK'
    BY DEF SInv, TypeOK, PostSync, PostAsync, Return, PCs, Cbs, cbVars, poolVars
<1>2. Shape(c)'
    BY DEF SInv, TypeOK, Shape, PostSync, PostAsync, Return, cbVars, Count
<1>3. \A d \in Calls \ {c} : SameShape(d)
    BY DEF SInv, TypeOK, PostSync, PostAsync, Return, SameShape, cbVars
<1>4. QED  BY <1>1, <1>2, <1>3 DEF Shaped

\* A free by the routine or by the callback takes one address off its list.
LEMMA FreeShapes ==
    ASSUME SInv, NEW c \in Calls, CallerFree(c) \/ CallbackFree(c)
    PROVE  Shaped(c)
<1>1. holder' \in [Blocks -> Calls \cup {NoCall}]
    BY DEF SInv, TypeOK, CallerFree, CallbackFree, Release
<1>2. CASE CallerFree(c)
    <2>1. left[c] \in Seq(Addr) /\ left[c] # <<>>
        BY <1>2 DEF SInv, TypeOK, Shape, CallerFree
    <2>2. /\ Tail(left[c]) \in Seq(Addr) /\ Len(left[c]) \in Nat \ {0}
          /\ Len(left[c]) # 1 => Tail(left[c]) # <<>>
        BY <2>1, TailShape
    <2>3. TypeOK'
        <3>1. left' \in [Calls -> Seq(Addr)] /\ pc' \in [Calls -> PCs]
            BY <1>2, <2>2 DEF SInv, TypeOK, CallerFree, PCs
        <3>2. QED  BY <1>1, <1>2, <3>1 DEF SInv, TypeOK, CallerFree, cbVars
    <2>4. Shape(c)'
        BY <1>2, <2>2 DEF SInv, IInv, Stage, TypeOK, Shape, CallerFree, cbVars
    <2>5. \A d \in Calls \ {c} : SameShape(d)
        BY <1>2 DEF SInv, TypeOK, CallerFree, SameShape, cbVars
    <2>6. QED  BY <2>3, <2>4, <2>5 DEF Shaped
<1>3. CASE CallbackFree(c)
    <2>1. cbLeft[c] \in Seq(Addr) /\ cbLeft[c] # <<>>
        BY <1>3 DEF SInv, TypeOK, Shape, CallbackFree
    <2>2. /\ Tail(cbLeft[c]) \in Seq(Addr) /\ Len(cbLeft[c]) \in Nat \ {0}
          /\ Len(cbLeft[c]) > 1 => Tail(cbLeft[c]) # <<>>
        BY <2>1, TailShape
    <2>3. TypeOK'
        <3>1. cbLeft' \in [Calls -> Seq(Addr)] /\ cb' \in [Calls -> Cbs]
            BY <1>3, <2>2 DEF SInv, TypeOK, CallbackFree, Cbs
        <3>2. QED  BY <1>1, <1>3, <3>1 DEF SInv, TypeOK, CallbackFree, callerVars
    <2>4. Shape(c)'
        BY <1>3, <2>2 DEF SInv, TypeOK, Shape, CallbackFree, callerVars, SetCount, Count, Long
    <2>5. \A d \in Calls \ {c} : SameShape(d)
        BY <1>3 DEF SInv, TypeOK, CallbackFree, SameShape, callerVars
    <2>6. QED  BY <2>3, <2>4, <2>5 DEF Shaped
<1>4. QED  BY <1>2, <1>3

\* The callback begins with the addresses of the scatter list, and ends with done.
LEMMA CallbackShapes ==
    ASSUME SInv, NEW c \in Calls, NEW how \in {"filled", "uncopied"},
           CallbackStarts(c) \/ CallbackGetResultFails(c) \/ CallbackNotify(c, how)
    PROVE  Shaped(c)
<1>1. Addrs(iov[c]) \in Seq(Addr) /\ (iov[c] # <<>> => Addrs(iov[c]) # <<>>)
    <2>1. iov[c] \in Seq(Entry)
        BY DEF SInv, TypeOK, Entry
    <2>2. QED  BY <2>1, AddrsIsSeq, EmptySeq
<1>2. TypeOK'
    <2>1. /\ cbLeft' \in [Calls -> Seq(Addr)] /\ cb' \in [Calls -> Cbs]
          /\ rsp' \in [Calls -> {"none", "filled", "uncopied"}] /\ done' \in [Calls -> Nat]
        <3>1. CASE CallbackStarts(c)
            BY <1>1, <3>1 DEF SInv, TypeOK, CallbackStarts, Cbs
        <3>2. CASE CallbackGetResultFails(c)
            BY <3>2 DEF SInv, TypeOK, CallbackGetResultFails, Cbs
        <3>3. CASE CallbackNotify(c, how)
            BY <3>3 DEF SInv, TypeOK, CallbackNotify, Cbs
        <3>4. QED  BY <3>1, <3>2, <3>3
    <2>2. UNCHANGED <<segSize, callerVars, poolVars>>
        BY DEF CallbackStarts, CallbackGetResultFails, CallbackNotify
    <2>3. QED  BY <2>1, <2>2 DEF SInv, TypeOK, callerVars, poolVars
<1>3. Shape(c)'
    BY <1>1 DEF SInv, TypeOK, Shape, CallbackStarts, CallbackGetResultFails, CallbackNotify,
        callerVars, SetCount, Count, Long
<1>4. \A d \in Calls \ {c} : SameShape(d)
    BY DEF SInv, TypeOK, CallbackStarts, CallbackGetResultFails, CallbackNotify, SameShape, callerVars
<1>5. QED  BY <1>2, <1>3, <1>4 DEF Shaped

\* One step of a call, whichever it is.
CallStep(c) == (\E r \in Requests : Start(c, r)) \/ CallerStep(c) \/ TransportStep(c)

\* Every step of a call gives its lists the length that their point calls for.
LEMMA StepShapes ==
    ASSUME SInv, NEW c \in Calls, CallStep(c)
    PROVE  Shaped(c)
<1>1. CASE CallerStep(c)
    BY <1>1, AllocHeadShapes, AllocBlockShapes, FailuresShape, CopyMessageShapes,
       AppendMessageShapes, PostShapes, FreeShapes
    DEF CallerStep, Allocates
<1>2. CASE TransportStep(c)
    BY <1>2, SyncDoneShapes, CallbackShapes, FreeShapes DEF TransportStep
<1>3. QED  BY <1>1, <1>2, StartShapes DEF CallStep

\* Every list has the length its point in the routine calls for.
THEOREM ShapeInvariance == Spec => []SInv
<1>1. Init => SInv
    <2> SUFFICES ASSUME Init PROVE SInv
        OBVIOUS
    <2>1. TypeOK
        BY DEF Init, TypeOK, PCs, Whys, Cbs, Addr
    <2>2. IInv
        BY DEF Init, IInv, Types, Stage, PCs, Whys, Cbs
    <2>3. QED  BY <2>1, <2>2 DEF Init, SInv, Shape
<1>2. SInv /\ IInv' /\ [Next]_vars => SInv'
    <2> SUFFICES ASSUME SInv, IInv', [Next]_vars PROVE SInv'
        OBVIOUS
    <2>1. CASE \E c \in Calls : CallStep(c)
        <3>1. PICK c \in Calls : Shaped(c)
            BY <2>1, StepShapes
        <3>2. ASSUME NEW d \in Calls \ {c} PROVE Shape(d)'
            BY <3>1, ShapeKept DEF Shaped, SInv
        <3>3. QED  BY <3>1, <3>2 DEF Shaped, SInv
    <2>2. CASE OtherServer \/ UNCHANGED vars
        <3>1. UNCHANGED <<callerVars, cbVars, poolVars>> /\ segSize' \in SegSizes
            BY <2>2 DEF OtherServer, vars, SInv, TypeOK
        <3>2. ASSUME NEW c \in Calls PROVE Shape(c)'
            BY <3>1, ShapeKept DEF SameShape, SInv, callerVars, cbVars
        <3>3. TypeOK'
            BY <3>1 DEF TypeOK, SInv, callerVars, cbVars, poolVars
        <3>4. QED  BY <3>2, <3>3 DEF SInv
    <2>3. QED  BY <2>1, <2>2 DEF Next, CallStep
<1>3. QED  BY <1>1, <1>2, Invariance, PTL DEF Spec

\* The scatter list, the lists of addresses to free and the memory keep their types: the
\* entry that a message is appended to exists, and no list is freed beyond its end.
THEOREM TypeCorrect == Spec => []TypeOK
<1>1. SInv => TypeOK  BY DEF SInv
<1>2. QED  BY <1>1, ShapeInvariance, PTL
=============================================================================
