---------------------------- MODULE SglCallProps ----------------------------
(***************************************************************************)
(* The properties of SglCall, and its refinement of CallCompletion.        *)
(***************************************************************************)
EXTENDS SglCall

HeldBy(c)   == {b \in Blocks : holder[b] = c}
InFlight(c) == pc[c] = "wait" \/ cb[c] = "posted"
Over(c)     == pc[c] = "returned" /\ cb[c] \in {"none", "over", "lost"}
Bytes(r, m)  == IF m = 0 THEN HeaderSize ELSE r.msgs[m].len

\* A block whose content is m holds the messages first..last of c's request r, one right
\* behind the other, and size is where the last one ends.
Holding(c, r, m, first, last, size) ==
    /\ Len(m) = last - first + 1
    /\ \A n \in 1..Len(m) : LET end == m[n][3] + Bytes(r, first + n - 1)
                           IN  /\ m[n][1] = c /\ m[n][2] = first + n - 1
                               /\ n = 1 => m[n][3] = 0
                               /\ end = IF n = Len(m) THEN size ELSE m[n + 1][3]

\* The address c's routine or callback is going to free next, if any.
NextFrees(c) == (IF pc[c] = "free" THEN {Head(left[c])} ELSE {})
                \cup (IF cb[c] = "free" THEN {Head(cbLeft[c])} ELSE {})

\* No OckRpcMemFree releases a block that another invocation has allocated: the error
\* loops of SetReqInfo free one address several times, and a concurrent caller may have
\* been given the block in between.
NoForeignFree == \A c \in Calls : \A a \in NextFrees(c) \cap Blocks : holder[a] \in {c, NoCall}

\* While the transport may read the scatter list, every block of it still belongs to the
\* invocation.  The first holds the header, the next ones a message each, and the last one
\* whatever is left, so that the user's messages are there, each once and in order, and
\* each entry is as long as what was copied into its block (SetReqInfo and PackReqInfo
\* for short lists, for long ones, and under concurrent reuse of freed blocks).
InFlightIntact ==
    \A c \in Calls : InFlight(c) =>
        /\ iov[c] # <<>>
        /\ \A k \in 1..Len(iov[c]) :
              LET entry == iov[c][k]
                  last  == IF k = Len(iov[c]) THEN Count(c) ELSE k - 1
              IN  /\ holder[entry.addr] = c
                  /\ Holding(c, req[c], mem[entry.addr], k - 1, last, entry.size)

\* No copy goes past the end of its block, although the limit given to memcpy_s is the
\* global segment size and not the size the block was allocated with.  What memcpy_s clears
\* when it refuses a copy may go past that end (Clears) and is not meant here.
BlockFits ==
    \A c \in Calls : pc[c] \in {"alloc", "copy", "append", "post", "wait"} =>
        \A k \in DOMAIN iov[c] : iov[c][k].size <= cap[iov[c][k].addr]

\* What a finished invocation leaves allocated for ever, exactly: nothing, but for a long
\* list whose SetReqInfo failed (its earlier blocks), for an asynchronous call that was
\* not posted, and for a callback without a result (all blocks).
LeftBehind(c) ==
    LET blocks(first) == {iov[c][k].addr : k \in first..Len(iov[c])}
    IN IF why[c] = "async" \/ cb[c] = "lost" THEN blocks(1)
       ELSE IF why[c] \in {"alloc", "copy"} /\ Long(c) THEN blocks(2) ELSE {}
OrphansExplained == \A c \in Calls : Over(c) => HeldBy(c) = LeftBehind(c)

\* Every block that was allocated for a call is given back once the call is over.
NoOrphanBlocks == \A c \in Calls : Over(c) => HeldBy(c) = {}
-----------------------------------------------------------------------------
(***************************************************************************)
(* Refinement: the caller and the callback together keep the promise of    *)
(* CallCompletion, seen from the moment the user invokes the routine.      *)
(***************************************************************************)
\* How the user has invoked c.
Mode == [c \in Calls |-> IF pc[c] = "idle" THEN "none"
                         ELSE IF req[c].async THEN "async" ELSE "sync"]

Completion == INSTANCE CallCompletion WITH mode <- Mode

\* Every return value and every invocation of done is one the contract allows: done at
\* most once, never after an error return, never for a synchronous call
\* (OckRpcCallAsyncSgl with OckRpcCallbackFunc, OckRpcCallSyncSgl).
KeepsPromise == Completion!Safety

\* Every routine returns, and done follows every OK of an asynchronous call, provided the
\* transport answers and Service_GetResult succeeds in the callback.
Completes == Completion!Progress
=============================================================================
