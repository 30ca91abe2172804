------------------------------ MODULE SglCall -------------------------------
(***************************************************************************)
(* OckRpcClientCallWithParam on one client: concurrent invocations copy    *)
(* their messages into blocks of the client's registered memory, hand the  *)
(* scatter list to the transport and give the blocks back -- at once after *)
(* a synchronous call, in OckRpcCallbackFunc after an asynchronous one.    *)
(*                                                                         *)
(* One step is one call into the shared allocator, one copy into a block,  *)
(* or one exchange with the transport; that is the grain at which callers  *)
(* and the transport's callback threads interleave.                        *)
(***************************************************************************)
EXTENDS Naturals, Sequences, FiniteSets

CONSTANTS Calls,      \* invocations of OckRpcClientCallWithParam
          Thread,     \* Thread[c] : the thread that makes invocation c
          Requests,   \* the params the users may pass
          SegSizes,   \* values g_options.mrSendReceiveSegSize takes
          Blocks,     \* addresses of the client's memory region
          IovMax,     \* OCK_MAX_IOV_COUNT
          HeaderSize, \* sizeof(RawMessageHeader)
          ResultLost, \* whether Service_GetResult may fail in a callback
          NoAddr, NoCall, NoReq

\* A message is [len, null]; a request is [msgs, async, rsp].
ASSUME ConstantsOK ==
    /\ IovMax \in Nat \ {0, 1} /\ HeaderSize \in Nat \ {0}
    /\ SegSizes \subseteq Nat
    /\ Requests \subseteq [msgs : Seq([len : Nat, null : BOOLEAN]), async : BOOLEAN, rsp : BOOLEAN]
    /\ \A r \in Requests : r.msgs # <<>>
    /\ ResultLost \in BOOLEAN
    /\ NoAddr \notin Blocks /\ NoCall \notin Calls /\ NoReq \notin Requests

VARIABLES
    segSize,  \* g_options.mrSendReceiveSegSize, shared by all servers of the process
    \* the caller's side of an invocation
    pc, req,
    iov,      \* serviceReq.iov[0 .. iovCount - 1]
    cur,      \* addrArr[i], allocated and not yet in the scatter list
    packed,   \* number of messages copied so far
    left,     \* addresses the caller is still going to pass to OckRpcMemFree
    why,      \* the operation that failed, "none" while none has
    ret,      \* the value the routine has returned
    \* the callback's side
    cb, cbLeft, rsp, done,
    \* the client's allocator and the memory behind it
    holder,   \* holder[b] : the invocation that allocated b, or NoCall
    cap,      \* cap[b]    : the size b was allocated with
    mem       \* mem[b]    : what was copied to b, as <<call, message, offset>>; 0 is the header

callerVars == <<pc, req, iov, cur, packed, left, why, ret>>
cbVars     == <<cb, cbLeft, rsp, done>>
poolVars   == <<holder, cap, mem>>
vars       == <<segSize, callerVars, cbVars, poolVars>>

Addr == Blocks \cup {NoAddr}
PCs  == {"idle", "head", "alloc", "copy", "append", "post", "wait", "free", "return", "returned"}
Whys == {"none", "param", "head", "alloc", "copy", "append", "async", "sync"}
Cbs  == {"none", "posted", "free", "notify", "over", "lost"}

\* Every variable keeps its type.
TypeOK ==
    /\ segSize \in SegSizes
    /\ pc \in [Calls -> PCs]
    /\ req \in [Calls -> Requests \cup {NoReq}]
    /\ iov \in [Calls -> Seq([addr : Blocks, size : Nat])]
    /\ cur \in [Calls -> Addr]
    /\ packed \in [Calls -> Nat]
    /\ left \in [Calls -> Seq(Addr)]
    /\ why \in [Calls -> Whys]
    /\ ret \in [Calls -> {"none", "ok", "err"}]
    /\ cb \in [Calls -> Cbs]
    /\ cbLeft \in [Calls -> Seq(Addr)]
    /\ rsp \in [Calls -> {"none", "filled", "uncopied"}]
    /\ done \in [Calls -> Nat]
    /\ holder \in [Blocks -> Calls \cup {NoCall}]
    /\ cap \in [Blocks -> Nat]
    /\ mem \in [Blocks -> Seq(Calls \X Nat \X Nat)]

Init ==
    /\ segSize \in SegSizes
    /\ pc = [c \in Calls |-> "idle"]     /\ req = [c \in Calls |-> NoReq]
    /\ iov = [c \in Calls |-> <<>>]      /\ cur = [c \in Calls |-> NoAddr]
    /\ packed = [c \in Calls |-> 0]      /\ left = [c \in Calls |-> <<>>]
    /\ why = [c \in Calls |-> "none"]    /\ ret = [c \in Calls |-> "none"]
    /\ cb = [c \in Calls |-> "none"]     /\ cbLeft = [c \in Calls |-> <<>>]
    /\ rsp = [c \in Calls |-> "none"]    /\ done = [c \in Calls |-> 0]
    /\ holder = [b \in Blocks |-> NoCall]
    /\ cap = [b \in Blocks |-> 0]        /\ mem = [b \in Blocks |-> <<>>]
-----------------------------------------------------------------------------
(***************************************************************************)
(* Shorthands for a request and its scatter list.                          *)
(***************************************************************************)
Count(c) == Len(req[c].msgs)
Msg(c)   == req[c].msgs[packed[c] + 1]        \* the message being packed

\* More messages than scatter entries: the last block takes all the rest.
Long(c)     == Count(c) > IovMax - 1
SetCount(c) == IF Long(c) THEN IovMax - 1 ELSE Count(c)

\* Variant: no block is a whole segment.
BlockSize_message(c) == Msg(c).len
\* The last block is a whole segment, the others are as long as their message.
BlockSize(c) == IF packed[c] = SetCount(c) - 1 THEN segSize ELSE Msg(c).len

Addrs(v)     == [k \in 1..Len(v) |-> v[k].addr]
Times(a, n)  == [k \in 1..n |-> a]
FreeAll(v)   == [k \in 1..IovMax |-> IF k <= Len(v) THEN v[k].addr ELSE NoAddr]

\* memcpy_s : a null source, a zero limit, or more bytes than the limit fail.
\* The limit is unsigned: a segment size below the offset wraps to a value
\* memcpy_s rejects, so that the copy fails as well.
Copies(m, offset) == ~m.null /\ segSize > offset /\ m.len <= segSize - offset

\* Net_MemoryAllocatorFree : an address that is not allocated is refused and logged.
Release(a) == holder' = IF a \in Blocks THEN [holder EXCEPT ![a] = NoCall] ELSE holder

\* The frees of an error path; with nothing to free the routine returns.
Fail(c, what, frees) ==
    /\ why' = [why EXCEPT ![c] = what]
    /\ left' = [left EXCEPT ![c] = frees]
    /\ pc' = [pc EXCEPT ![c] = IF frees = <<>> THEN "return" ELSE "free"]

\* Variant: the header alone is freed for short lists, too.
AfterSetReqInfo_head(c) == <<iov[c][1].addr>>
\* What PackReqInfo frees when SetReqInfo has failed.
AfterSetReqInfo(c) == IF Long(c) THEN <<iov[c][1].addr>> ELSE FreeAll(iov[c])
-----------------------------------------------------------------------------
(***************************************************************************)
(* The caller.                                                             *)
(***************************************************************************)
\* The argument checks: no message may be longer than a segment is now.
Start(c, r) ==
    /\ pc[c] = "idle"
    /\ \A d \in Calls \ {c} : Thread[d] = Thread[c] => pc[d] \in {"idle", "returned"}
    /\ req' = [req EXCEPT ![c] = r]
    /\ IF \E k \in DOMAIN r.msgs : r.msgs[k].len > segSize
         THEN /\ pc' = [pc EXCEPT ![c] = "returned"]
              /\ why' = [why EXCEPT ![c] = "param"]
              /\ ret' = [ret EXCEPT ![c] = "err"]
         ELSE pc' = [pc EXCEPT ![c] = "head"] /\ UNCHANGED <<why, ret>>
    /\ UNCHANGED <<segSize, iov, cur, packed, left, cbVars, poolVars>>

\* The allocator gives c block b of n bytes.
Take(c, b, n) == /\ holder[b] = NoCall
                 /\ holder' = [holder EXCEPT ![b] = c]
                 /\ cap' = [cap EXCEPT ![b] = n]

\* PackReqInfo allocates the header block and writes the message id into it.
AllocHead(c, b) ==
    /\ pc[c] = "head"
    /\ Take(c, b, HeaderSize)
    /\ mem' = [mem EXCEPT ![b] = <<<<c, 0, 0>>>>]
    /\ iov' = [iov EXCEPT ![c] = <<[addr |-> b, size |-> HeaderSize]>>]
    /\ pc' = [pc EXCEPT ![c] = "alloc"]
    /\ UNCHANGED <<segSize, req, cur, packed, left, why, ret, cbVars>>

\* SetReqInfo, one message at a time: a block for it ...
AllocBlock(c, b) ==
    /\ pc[c] = "alloc"
    /\ Take(c, b, BlockSize(c))
    /\ mem' = [mem EXCEPT ![b] = <<>>]
    /\ cur' = [cur EXCEPT ![c] = b]
    /\ pc' = [pc EXCEPT ![c] = "copy"]
    /\ UNCHANGED <<segSize, req, iov, packed, left, why, ret, cbVars>>

\* ... or none.  The loop over j frees addrArr[i], which is 0, and not addrArr[j].
AllocFails(c) ==
    /\ \/ pc[c] = "head"  /\ Fail(c, "head", <<>>)
       \/ pc[c] = "alloc" /\ Fail(c, "alloc", Times(NoAddr, packed[c]) \o AfterSetReqInfo(c))
    /\ UNCHANGED <<segSize, req, iov, cur, packed, ret, cbVars, poolVars>>

\* Variant: cur is reset before it goes into the scatter list.
CopyMessage_late(c) ==
    /\ pc[c] = "copy"
    /\ Copies(Msg(c), 0)
    /\ mem' = [mem EXCEPT ![cur[c]] = <<<<c, packed[c] + 1, 0>>>>]
    /\ cur' = [cur EXCEPT ![c] = NoAddr]
    /\ iov' = [iov EXCEPT ![c] = Append(@, [addr |-> cur'[c], size |-> Msg(c).len])]
    /\ packed' = [packed EXCEPT ![c] = @ + 1]
    /\ pc' = [pc EXCEPT ![c] = IF packed[c] + 1 < SetCount(c) THEN "alloc"
                               ELSE IF Long(c) THEN "append" ELSE "post"]
    /\ UNCHANGED <<segSize, req, left, why, ret, cbVars, holder, cap>>

\* ... then the copy, after which the block is in the scatter list.
CopyMessage(c) ==
    /\ pc[c] = "copy"
    /\ Copies(Msg(c), 0)
    /\ mem' = [mem EXCEPT ![cur[c]] = <<<<c, packed[c] + 1, 0>>>>]
    /\ iov' = [iov EXCEPT ![c] = Append(@, [addr |-> cur[c], size |-> Msg(c).len])]
    /\ cur' = [cur EXCEPT ![c] = NoAddr]
    /\ packed' = [packed EXCEPT ![c] = @ + 1]
    /\ pc' = [pc EXCEPT ![c] = IF packed[c] + 1 < SetCount(c) THEN "alloc"
                               ELSE IF Long(c) THEN "append" ELSE "post"]
    /\ UNCHANGED <<segSize, req, left, why, ret, cbVars, holder, cap>>

\* Variant: the entry does not grow with what is appended to its block.
AppendMessage_size(c) ==
    /\ pc[c] = "append"
    /\ LET last == iov[c][IovMax]
       IN mem' = [mem EXCEPT ![last.addr] = Append(@, <<c, packed[c] + 1, last.size>>)]
    /\ packed' = [packed EXCEPT ![c] = @ + 1]
    /\ pc' = [pc EXCEPT ![c] = IF packed[c] + 1 < Count(c) THEN "append" ELSE "post"]
    /\ UNCHANGED <<segSize, req, iov, cur, left, why, ret, cbVars, holder, cap>>

\* PackReqInfo appends the remaining messages to the last block.
AppendMessage(c) ==
    /\ pc[c] = "append"
    /\ LET last == iov[c][IovMax]
       IN /\ Copies(Msg(c), last.size)
          /\ mem' = [mem EXCEPT ![last.addr] = Append(@, <<c, packed[c] + 1, last.size>>)]
    /\ iov' = [iov EXCEPT ![c][IovMax].size = @ + Msg(c).len]
    /\ packed' = [packed EXCEPT ![c] = @ + 1]
    /\ pc' = [pc EXCEPT ![c] = IF packed[c] + 1 < Count(c) THEN "append" ELSE "post"]
    /\ UNCHANGED <<segSize, req, cur, left, why, ret, cbVars, holder, cap>>

\* memcpy_s clears its limit when it refuses a copy behind what b holds, up to offset: nothing
\* of the call's own, but blocks behind b -- any, as the allocator places them -- if b was
\* allocated with less than a segment.
Clears(b, offset) ==
    \E S \in SUBSET (Blocks \ {b}) :
        /\ S # {} => offset < segSize /\ cap[b] < segSize
        /\ mem' = [a \in Blocks |-> IF a \in S THEN <<>> ELSE mem[a]]

\* A copy fails.  SetReqInfo's loop over j <= i frees addrArr[i], the block in hand,
\* i + 1 times; PackReqInfo frees all four entries of the scatter list.
CopyFails(c) ==
    /\ \/ /\ pc[c] = "copy" /\ ~Copies(Msg(c), 0)
          /\ Clears(cur[c], 0)
          /\ Fail(c, "copy", Times(cur[c], packed[c] + 1) \o AfterSetReqInfo(c))
       \/ /\ pc[c] = "append" /\ ~Copies(Msg(c), iov[c][IovMax].size)
          /\ Clears(iov[c][IovMax].addr, iov[c][IovMax].size)
          /\ Fail(c, "append", FreeAll(iov[c]))
    /\ cur' = [cur EXCEPT ![c] = NoAddr]
    /\ UNCHANGED <<segSize, req, iov, packed, ret, cbVars, holder, cap>>

\* OckRpcCallSyncSgl hands the request to the transport and blocks ...
PostSync(c) ==
    /\ pc[c] = "post" /\ ~req[c].async
    /\ pc' = [pc EXCEPT ![c] = "wait"]
    /\ UNCHANGED <<segSize, req, iov, cur, packed, left, why, ret, cbVars, poolVars>>

\* ... until the transport answers, and every block of the request is freed.
SyncDone(c, ok) ==
    /\ pc[c] = "wait"
    /\ rsp' = [rsp EXCEPT ![c] = IF ok /\ req[c].rsp THEN "filled" ELSE @]
    /\ Fail(c, IF ok THEN "none" ELSE "sync", Addrs(iov[c]))
    /\ UNCHANGED <<segSize, req, iov, cur, packed, ret, cb, cbLeft, done, poolVars>>

\* Variant: the routine frees the blocks itself, as after a synchronous call.
PostAsync_frees(c) ==
    /\ pc[c] = "post" /\ req[c].async
    /\ cb' = [cb EXCEPT ![c] = "posted"]
    /\ Fail(c, "none", Addrs(iov[c]))
    /\ UNCHANGED <<segSize, req, iov, cur, packed, ret, cbLeft, rsp, done, poolVars>>

\* OckRpcCallAsyncSgl: the callback's record keeps the addresses, the request is posted.
PostAsync(c) ==
    /\ pc[c] = "post" /\ req[c].async
    /\ cb' = [cb EXCEPT ![c] = "posted"]
    /\ pc' = [pc EXCEPT ![c] = "return"]
    /\ UNCHANGED <<segSize, req, iov, cur, packed, left, why, ret, cbLeft, rsp, done, poolVars>>

\* Variant: the callback stays registered although the routine reports an error.
PostAsyncFails_posted(c) ==
    /\ pc[c] = "post" /\ req[c].async
    /\ Fail(c, "async", <<>>)
    /\ cb' = [cb EXCEPT ![c] = "posted"]
    /\ UNCHANGED <<segSize, req, iov, cur, packed, ret, cbLeft, rsp, done, poolVars>>

\* Variant: the routine reports success although nothing was posted.
PostAsyncFails_ok(c) ==
    /\ pc[c] = "post" /\ req[c].async
    /\ Fail(c, "none", <<>>)
    /\ UNCHANGED <<segSize, req, iov, cur, packed, ret, cbVars, poolVars>>

\* A malloc of the record fails or the transport refuses the request: the record is
\* freed, the blocks are not, and the callback is never going to run.
PostAsyncFails(c) ==
    /\ pc[c] = "post" /\ req[c].async
    /\ Fail(c, "async", <<>>)
    /\ UNCHANGED <<segSize, req, iov, cur, packed, ret, cbVars, poolVars>>

\* One OckRpcMemFree of the caller.
CallerFree(c) ==
    /\ pc[c] = "free"
    /\ Release(Head(left[c]))
    /\ left' = [left EXCEPT ![c] = Tail(@)]
    /\ pc' = [pc EXCEPT ![c] = IF Len(left[c]) = 1 THEN "return" ELSE "free"]
    /\ UNCHANGED <<segSize, req, iov, cur, packed, why, ret, cbVars, cap, mem>>

Return(c) ==
    /\ pc[c] = "return"
    /\ ret' = [ret EXCEPT ![c] = IF why[c] = "none" THEN "ok" ELSE "err"]
    /\ pc' = [pc EXCEPT ![c] = "returned"]
    /\ UNCHANGED <<segSize, req, iov, cur, packed, left, why, cbVars, poolVars>>
-----------------------------------------------------------------------------
(***************************************************************************)
(* OckRpcCallbackFunc, on a thread of the transport, as soon as the        *)
(* request is posted -- possibly before the routine has returned.          *)
(***************************************************************************)
\* The transport invokes the callback, which reads and frees its record.
CallbackStarts(c) ==
    /\ cb[c] = "posted"
    /\ cbLeft' = [cbLeft EXCEPT ![c] = Addrs(iov[c])]
    /\ cb' = [cb EXCEPT ![c] = "free"]
    /\ UNCHANGED <<segSize, callerVars, rsp, done, poolVars>>

\* Service_GetResult or Service_GetContextType fails: the record is freed, nothing else is.
CallbackGetResultFails(c) ==
    /\ ResultLost
    /\ cb[c] = "posted"
    /\ cb' = [cb EXCEPT ![c] = "lost"]
    /\ UNCHANGED <<segSize, callerVars, cbLeft, rsp, done, poolVars>>

\* One OckRpcMemFree of the callback.
CallbackFree(c) ==
    /\ cb[c] = "free"
    /\ Release(Head(cbLeft[c]))
    /\ cbLeft' = [cbLeft EXCEPT ![c] = Tail(@)]
    /\ cb' = [cb EXCEPT ![c] = IF Len(cbLeft[c]) > 1 THEN "free" ELSE "notify"]
    /\ UNCHANGED <<segSize, callerVars, rsp, done, cap, mem>>

\* The response, if one is wanted, is copied to the user -- a failed malloc or copy is
\* only logged -- and the user's done is invoked.
CallbackNotify(c, how) ==
    /\ cb[c] = "notify"
    /\ rsp' = [rsp EXCEPT ![c] = IF req[c].rsp THEN how ELSE @]
    /\ done' = [done EXCEPT ![c] = @ + 1]
    /\ cb' = [cb EXCEPT ![c] = "over"]
    /\ UNCHANGED <<segSize, callerVars, cbLeft, poolVars>>

\* Another server of the process is created or destroyed and rewrites g_options.
OtherServer == /\ segSize' \in SegSizes
               /\ UNCHANGED <<callerVars, cbVars, poolVars>>
-----------------------------------------------------------------------------
Allocates(c) == \E b \in Blocks : AllocHead(c, b) \/ AllocBlock(c, b)

CallerStep(c) ==
    \/ Allocates(c) \/ AllocFails(c)
    \/ CopyMessage(c) \/ AppendMessage(c) \/ CopyFails(c)
    \/ PostSync(c) \/ PostAsync(c) \/ PostAsyncFails(c)
    \/ CallerFree(c) \/ Return(c)

TransportStep(c) ==
    \/ \E ok \in BOOLEAN : SyncDone(c, ok)
    \/ CallbackStarts(c) \/ CallbackGetResultFails(c) \/ CallbackFree(c)
    \/ \E how \in {"filled", "uncopied"} : CallbackNotify(c, how)

Next == \/ \E c \in Calls, r \in Requests : Start(c, r)
        \/ \E c \in Calls : CallerStep(c) \/ TransportStep(c)
        \/ OtherServer

Spec == Init /\ [][Next]_vars

\* Threads are scheduled; the transport answers or times out every posted request.
Fairness == \A c \in Calls : WF_vars(CallerStep(c)) /\ WF_vars(TransportStep(c))
FairSpec == Spec /\ Fairness
=============================================================================
