-------------------------- MODULE SglBlocks_proofs --------------------------
(***************************************************************************)
(* The memory of OckRpcClientCallWithParam: which blocks a call holds at   *)
(* each point, until it gives them back or leaves them behind, what is in  *)
(* them while the transport may read them, and how full they are.          *)
(***************************************************************************)
EXTENDS SglCall_proofs

(***************************************************************************)
(* The error loop of SetReqInfo frees one address several times.  This is  *)
(* harmless in two cases: only one thread makes calls, so that nobody is   *)
(* given the block in between, or every message has data and the segment   *)
(* size never changes, so that no copy fails while that loop can follow.   *)
(***************************************************************************)
Serial == \A c, d \in Calls : Thread[c] = Thread[d]
Filled == \A r \in Requests : \A k \in 1..Len(r.msgs) : ~r.msgs[k].null
Steady == \E s \in Nat \ {0} : SegSizes = {s}
Tame   == Serial \/ (Filled /\ Steady)
-----------------------------------------------------------------------------
(***************************************************************************)
(* The blocks in a list of addresses.                                      *)
(***************************************************************************)
Listed(q) == {q[k] : k \in 1..Len(q)} \cap Blocks

\* No block is listed twice.
Once(q) == \A j, k \in 1..Len(q) : q[k] \in Blocks /\ q[j] = q[k] => j = k

\* The addresses of a scatter list are blocks.
LEMMA ScatterList ==
    ASSUME NEW v \in Seq(Entry)
    PROVE  /\ Addrs(v) \in Seq(Addr) /\ Len(Addrs(v)) = Len(v) /\ Len(v) \in Nat
           /\ \A k \in 1..Len(v) : Addrs(v)[k] = v[k].addr /\ v[k].addr \in Blocks
           /\ \A b : b \in Listed(Addrs(v)) <=> \E k \in 1..Len(v) : b = v[k].addr
<1>1. ASSUME NEW k \in 1..Len(v) PROVE v[k].addr \in Blocks
    <2>1. v[k] \in Entry
        BY ElementOfSeq
    <2>2. QED  BY <2>1 DEF Entry
<1>2. QED  BY <1>1, AddrsIsSeq, LenProperties DEF Listed

\* FreeAllMemory frees the blocks of the scatter list, if that fits into the array.
LEMMA FreeAllList ==
    ASSUME NEW v \in Seq(Entry), Len(v) <= IovMax
    PROVE  /\ Listed(FreeAll(v)) = Listed(Addrs(v))
           /\ Once(Addrs(v)) => Once(FreeAll(v))
<1>1. NoAddr \notin Blocks /\ IovMax \in Nat /\ Len(v) \in Nat
    BY ConstantsOK, LenProperties DEF ConstantsOK
<1>2. /\ Len(FreeAll(v)) = IovMax
      /\ \A k \in 1..IovMax : FreeAll(v)[k] = IF k <= Len(v) THEN v[k].addr ELSE NoAddr
    BY FreeAllIsSeq
<1>3. ASSUME NEW b PROVE b \in Listed(FreeAll(v)) <=> b \in Listed(Addrs(v))
    BY <1>1, <1>2, ScatterList DEF Listed
<1>4. ASSUME Once(Addrs(v)), NEW j \in 1..IovMax, NEW k \in 1..IovMax,
             FreeAll(v)[k] \in Blocks, FreeAll(v)[j] = FreeAll(v)[k]
      PROVE  j = k
    <2>1. j \in 1..Len(v) /\ k \in 1..Len(v)
        BY <1>1, <1>2, <1>4
    <2>2. Addrs(v)[j] = Addrs(v)[k] /\ Addrs(v)[k] \in Blocks
        BY <1>2, <1>4, <2>1, ScatterList
    <2>3. QED  BY <1>4, <2>1, <2>2, ScatterList DEF Once
<1>5. QED  BY <1>2, <1>3, <1>4 DEF Once

\* What the frees of one address n times add to a list.
Padded(a, n, q) == Times(a, n) \o q

LEMMA PaddedList ==
    ASSUME NEW a \in Addr, NEW n \in Nat, NEW q \in Seq(Addr)
    PROVE  /\ Padded(a, n, q) \in Seq(Addr) /\ Listed(q) \subseteq Listed(Padded(a, n, q))
           /\ Listed(Padded(a, n, q)) \subseteq Listed(q) \cup {a}
           /\ n > 0 /\ a \in Blocks => a \in Listed(Padded(a, n, q))
           /\ a \notin Blocks /\ Once(q) => Once(Padded(a, n, q))
<1> DEFINE p == Padded(a, n, q)
<1>1. PICK z \in Seq(Addr) : /\ z = Times(a, n) /\ Len(z) = n
                             /\ \A k \in 1..n : z[k] = a
    BY TimesIsSeq
<1>2. /\ p \in Seq(Addr) /\ Len(p) = n + Len(q)
      /\ \A k \in 1..Len(p) : p[k] = IF k <= n THEN z[k] ELSE q[k - n]
    <2>1. /\ z \o q \in Seq(Addr) /\ Len(z \o q) = Len(z) + Len(q)
          /\ \A k \in 1..Len(z) + Len(q) : (z \o q)[k] = IF k <= Len(z) THEN z[k] ELSE q[k - Len(z)]
        BY ConcatProperties, Zenon
    <2>2. p = z \o q
        BY <1>1 DEF Padded
    <2>3. QED  BY <1>1, <2>1, <2>2, Zenon
<1> HIDE DEF p
<1>3. Len(q) \in Nat
    BY LenProperties
<1>4. \A k \in 1..Len(p) : (k <= n /\ p[k] = a) \/ (k - n \in 1..Len(q) /\ p[k] = q[k - n])
    BY <1>1, <1>2, <1>3
<1>5. \A k \in 1..Len(q) : k + n \in 1..Len(p) /\ p[k + n] = q[k]
    BY <1>2, <1>3
<1>6. n > 0 => 1 \in 1..Len(p) /\ p[1] = a
    BY <1>1, <1>2, <1>3
<1>7. ASSUME a \notin Blocks, Once(q), NEW j \in 1..Len(p), NEW k \in 1..Len(p),
             p[k] \in Blocks, p[j] = p[k]
      PROVE  j = k
    <2>1. j - n \in 1..Len(q) /\ k - n \in 1..Len(q) /\ q[j - n] = q[k - n] /\ q[k - n] \in Blocks
        BY <1>4, <1>7
    <2>2. j - n = k - n
        BY <1>7, <2>1 DEF Once
    <2>3. QED  BY <2>2, <1>2, <1>3
<1>8. Listed(q) \subseteq Listed(p) /\ Listed(p) \subseteq Listed(q) \cup {a}
    BY <1>4, <1>5 DEF Listed
<1>9. n > 0 /\ a \in Blocks => a \in Listed(p)
    BY <1>6 DEF Listed
<1>10. a \notin Blocks /\ Once(q) => Once(p)
    BY <1>7 DEF Once
<1>11. QED  BY <1>2, <1>8, <1>9, <1>10 DEF p

\* A free takes the first address off its list.
LEMMA TailList ==
    ASSUME NEW q \in Seq(Addr), q # <<>>
    PROVE  /\ Listed(Tail(q)) \subseteq Listed(q)
           /\ Head(q) \in Addr /\ (Head(q) \in Blocks => Head(q) \in Listed(q))
           /\ Listed(q) \subseteq Listed(Tail(q)) \cup {Head(q)}
           /\ Once(q) => Once(Tail(q)) /\ Head(q) \notin Listed(Tail(q))
           /\ Len(q) <= 1 => Listed(Tail(q)) = {}
<1>1. PICK t \in Seq(Addr) : /\ t = Tail(q) /\ Len(t) = Len(q) - 1
                             /\ \A k \in 1..Len(t) : t[k] = q[k + 1]
    BY HeadTailProperties
<1>2. Len(q) \in Nat \ {0} /\ Head(q) = q[1] /\ 1 \in 1..Len(q) /\ Head(q) \in Addr
    BY EmptySeq, HeadTailProperties
<1>3. \A k \in 1..Len(t) : k + 1 \in 1..Len(q) /\ t[k] = q[k + 1] /\ k + 1 # 1
    BY <1>1, <1>2
<1>4. \A k \in 1..Len(q) : k = 1 \/ (k - 1 \in 1..Len(t) /\ q[k] = t[k - 1])
    BY <1>1, <1>2
<1>5. ASSUME Once(q), NEW j \in 1..Len(t), NEW k \in 1..Len(t), t[k] \in Blocks, t[j] = t[k]
      PROVE  j = k
    <2>1. j + 1 = k + 1
        BY <1>3, <1>5 DEF Once
    <2>2. QED  BY <2>1, <1>1, <1>2
<1>6. Len(q) <= 1 => Listed(t) = {}
    BY <1>1, <1>2 DEF Listed
<1>7. QED  BY <1>1, <1>2, <1>3, <1>4, <1>5, <1>6 DEF Listed, Once

\* A block in hand goes into the scatter list.
LEMMA AppendedList ==
    ASSUME NEW v \in Seq(Entry), NEW e \in Entry
    PROVE  /\ \A b : b \in Listed(Addrs(Append(v, e))) <=> b \in Listed(Addrs(v)) \cup {e.addr}
           /\ Once(Addrs(v)) /\ e.addr \notin Listed(Addrs(v)) => Once(Addrs(Append(v, e)))
<1>1. PICK w \in Seq(Entry) : /\ w = Append(v, e) /\ Len(w) = Len(v) + 1 /\ w[Len(v) + 1] = e
                              /\ \A k \in 1..Len(v) : w[k] = v[k]
    <2>1. /\ Append(v, e) \in Seq(Entry) /\ Len(Append(v, e)) = Len(v) + 1
          /\ Append(v, e)[Len(v) + 1] = e
          /\ \A k \in 1..Len(v) : Append(v, e)[k] = v[k]
        BY AppendProperties
    <2>2. QED  BY <2>1, Zenon
<1>2. Len(v) \in Nat
    BY LenProperties
<1>3. ASSUME NEW b PROVE b \in Listed(Addrs(w)) <=> b \in Listed(Addrs(v)) \cup {e.addr}
    <2>1. b \in Listed(Addrs(w)) <=> \E k \in 1..Len(w) : b = w[k].addr
        BY ScatterList
    <2>2. b \in Listed(Addrs(v)) <=> \E k \in 1..Len(v) : b = v[k].addr
        BY ScatterList
    <2>3. QED  BY <1>1, <1>2, <2>1, <2>2
<1>4. ASSUME Once(Addrs(v)), e.addr \notin Listed(Addrs(v)), NEW j \in 1..Len(w),
             NEW k \in 1..Len(w), w[j].addr = w[k].addr
      PROVE  j = k
    <2>1. \A i \in 1..Len(v) : w[i].addr \in Listed(Addrs(v)) /\ w[i].addr = Addrs(v)[i]
                               /\ Addrs(v)[i] \in Blocks
        BY <1>1, ScatterList
    <2>2. CASE j \in 1..Len(v) /\ k \in 1..Len(v)
        BY <1>4, <2>1, <2>2, ScatterList DEF Once
    <2>3. CASE ~(j \in 1..Len(v) /\ k \in 1..Len(v))
        BY <1>1, <1>2, <1>4, <2>1, <2>3
    <2>4. QED  BY <2>2, <2>3
<1>5. ASSUME Once(Addrs(v)), e.addr \notin Listed(Addrs(v)) PROVE Once(Addrs(w))
    BY <1>4, <1>5, ScatterList DEF Once
<1>6. QED  BY <1>1, <1>3, <1>5
-----------------------------------------------------------------------------
(***************************************************************************)
(* What a call holds.                                                      *)
(***************************************************************************)
\* The routine of c is running.
Active(c) == pc[c] \notin {"idle", "returned"}

\* One thread makes one call at a time.
Alone == Serial => \A c, d \in Calls : Active(c) /\ Active(d) => c = d

\* The scatter list is being filled, or the transport has it.
Packing(c) == pc[c] \in {"alloc", "copy", "append", "post", "wait"} \/ cb[c] = "posted"

\* The block that is allocated and not yet in the scatter list.
InHand(c) == IF pc[c] = "copy" THEN {cur[c]} ELSE {}

\* Neither the routine nor the callback is going to free anything.
Ended(c) == pc[c] \in {"return", "returned"} /\ cb[c] \in {"none", "notify", "over", "lost"}

\* Up to the post a call holds the blocks of its scatter list and the one in hand; after
\* that what it is still going to free, and what it leaves behind.
Hold(c) ==
    /\ pc[c] \in {"idle", "head"} => HeldBy(c) = {}
    /\ Packing(c) => /\ Once(Addrs(iov[c]))
                     /\ HeldBy(c) = Listed(Addrs(iov[c])) \cup InHand(c)
                     /\ InHand(c) \cap Listed(Addrs(iov[c])) = {}
    /\ pc[c] = "free" =>
           /\ HeldBy(c) \subseteq Listed(left[c]) \cup LeftBehind(c)
           /\ LeftBehind(c) \subseteq HeldBy(c) /\ LeftBehind(c) \cap Listed(left[c]) = {}
           /\ Serial => \A b \in Listed(left[c]) : holder[b] \in {c, NoCall}
           /\ ~Serial => Once(left[c]) /\ Listed(left[c]) \subseteq HeldBy(c)
    /\ cb[c] = "free" => Once(cbLeft[c]) /\ HeldBy(c) = Listed(cbLeft[c])
    /\ Ended(c) => HeldBy(c) = LeftBehind(c)
    /\ pc[c] \in {"head", "alloc", "copy"} /\ Steady
           => \A k \in 1..Count(c) : req[c].msgs[k].len <= segSize

HInv == SInv /\ Alone /\ \A c \in Calls : Hold(c)

\* d's blocks stay d's, and as large as they are.
Untouched(d) == \A b \in Blocks : /\ holder'[b] = d <=> holder[b] = d
                                  /\ holder[b] = d => cap'[b] = cap[b]

\* No block is given out.
NoGrant == \A b \in Blocks : holder[b] = NoCall => holder'[b] = NoCall

\* What a step of c does to the blocks.
Holds(c) == /\ Hold(c)'
            /\ NoGrant \/ pc[c] \in {"head", "alloc"}
            /\ \A d \in Calls \ {c} : Untouched(d)

\* A call whose state and blocks stay keeps what it holds.
LEMMA HoldKept ==
    ASSUME NEW d \in Calls, Hold(d), SameShape(d), why'[d] = why[d], Untouched(d),
           NoGrant \/ pc[d] # "free" \/ ~Serial, Steady => segSize' = segSize
    PROVE  Hold(d)'
<1>1. HeldBy(d)' = HeldBy(d)
    BY DEF HeldBy, Untouched
<1>2. LeftBehind(d)' = LeftBehind(d)
    BY DEF LeftBehind, SameShape, Long, Count
<1>3. pc[d] = "free" /\ Serial => \A b \in Listed(left[d]) : holder'[b] \in {d, NoCall}
    BY DEF Hold, NoGrant, Untouched, Listed
<1>4. /\ Packing(d)' = Packing(d) /\ InHand(d)' = InHand(d) /\ Ended(d)' = Ended(d)
      /\ Count(d)' = Count(d)
    BY DEF Packing, InHand, Ended, Count, SameShape
<1>5. QED  BY <1>1, <1>2, <1>3, <1>4 DEF Hold, SameShape
-----------------------------------------------------------------------------
\* The allocator gives out a block that nobody holds.
LEMMA TakeFrees ==
    ASSUME SInv, NEW c \in Calls, NEW b \in Blocks, NEW n, Take(c, b, n)
    PROVE  /\ HeldBy(c)' = HeldBy(c) \cup {b} /\ b \notin HeldBy(c)
           /\ \A d \in Calls \ {c} : Untouched(d)
<1>1. /\ holder \in [Blocks -> Calls \cup {NoCall}] /\ cap \in [Blocks -> Nat]
      /\ NoCall \notin Calls
    BY ConstantsOK DEF SInv, TypeOK, ConstantsOK
<1>2. \A d \in Calls \ {c} : Untouched(d)
    BY <1>1 DEF Take, Untouched
<1>3. QED  BY <1>1, <1>2 DEF Take, HeldBy

\* A free of a block that no other call holds.
LEMMA ReleaseFrees ==
    ASSUME SInv, NEW c \in Calls, NEW a \in Addr, a \in Blocks => holder[a] \in {c, NoCall},
           Release(a), cap' = cap
    PROVE  /\ \A b \in Blocks : holder'[b] = IF b = a THEN NoCall ELSE holder[b]
           /\ HeldBy(c)' = HeldBy(c) \ {a} /\ NoGrant /\ \A d \in Calls \ {c} : Untouched(d)
<1>1. holder \in [Blocks -> Calls \cup {NoCall}] /\ NoCall \notin Calls
    BY ConstantsOK DEF SInv, TypeOK, ConstantsOK
<1>2. \A b \in Blocks : holder'[b] = IF b = a THEN NoCall ELSE holder[b]
    BY <1>1 DEF Release
<1>3. QED  BY <1>1, <1>2 DEF HeldBy, NoGrant, Untouched

\* No block is given out or freed.
LEMMA NothingFrees ==
    ASSUME NEW c \in Calls, UNCHANGED <<holder, cap>>
    PROVE  HeldBy(c)' = HeldBy(c) /\ NoGrant /\ \A d \in Calls \ {c} : Untouched(d)
BY DEF HeldBy, NoGrant, Untouched
-----------------------------------------------------------------------------
\* An invocation that passes the checks of its arguments has messages within a segment.
LEMMA StartHolds ==
    ASSUME SInv, SInv', NEW c \in Calls, Hold(c), NEW r \in Requests, Start(c, r)
    PROVE  Holds(c)
<1>1. /\ pc[c] = "idle" /\ UNCHANGED <<segSize, holder, cap>> /\ cb'[c] = "none"
      /\ req'[c] = r /\ HeldBy(c) = {}
    BY DEF SInv, IInv, Stage, TypeOK, Start, cbVars, poolVars, Hold
<1>2. HeldBy(c)' = {} /\ NoGrant /\ \A d \in Calls \ {c} : Untouched(d)
    BY <1>1, NothingFrees
<1>3. CASE \E k \in DOMAIN r.msgs : r.msgs[k].len > segSize
    <2>1. pc'[c] = "returned" /\ why'[c] = "param"
        BY <1>3, ZenonT(20) DEF SInv, TypeOK, Start
    <2>2. LeftBehind(c)' = {}
        BY <1>1, <2>1 DEF LeftBehind
    <2>3. Hold(c)'
        BY <1>1, <1>2, <2>1, <2>2 DEF Hold, Packing, Ended
    <2>4. QED  BY <1>2, <2>3 DEF Holds
<1>4. CASE ~\E k \in DOMAIN r.msgs : r.msgs[k].len > segSize
    <2>1. pc'[c] = "head"
        BY <1>4 DEF SInv, TypeOK, Start
    <2>2. \A k \in 1..Len(r.msgs) : r.msgs[k].len <= segSize
        <3>1. r.msgs \in Seq([len : Nat, null : BOOLEAN]) /\ segSize \in Nat
            BY MessageParts, ConstantsOK DEF SInv, TypeOK, ConstantsOK
        <3>2. ASSUME NEW k \in 1..Len(r.msgs) PROVE r.msgs[k].len <= segSize
            <4>1. k \in DOMAIN r.msgs
                BY <3>1
            <4>2. r.msgs[k] \in [len : Nat, null : BOOLEAN]
                BY <3>1, ElementOfSeq
            <4>3. QED  BY <1>4, <3>1, <4>1, <4>2
        <3>3. QED  BY <3>2
    <2>3. Hold(c)'
        BY <1>1, <1>2, <2>1, <2>2 DEF Hold, Packing, Ended, Count
    <2>4. QED  BY <1>2, <2>3 DEF Holds
<1>5. QED  BY <1>3, <1>4

\* The header block is the first of the scatter list.
LEMMA AllocHeadHolds ==
    ASSUME SInv, SInv', NEW c \in Calls, Hold(c), NEW b \in Blocks, AllocHead(c, b)
    PROVE  Holds(c)
<1> DEFINE e == [addr |-> b, size |-> HeaderSize]
           v == <<e>>
<1>1. /\ pc[c] = "head" /\ pc'[c] = "alloc" /\ cb'[c] = "none" /\ UNCHANGED <<segSize, req>>
      /\ iov'[c] = v /\ HeldBy(c) = {}
    BY DEF SInv, IInv, Stage, TypeOK, AllocHead, cbVars, Hold
<1>2. HeldBy(c)' = {b} /\ \A d \in Calls \ {c} : Untouched(d)
    <2>1. Take(c, b, HeaderSize)
        BY DEF AllocHead
    <2>2. QED  BY <1>1, <2>1, TakeFrees
<1>3. Listed(Addrs(v)) = {b} /\ Once(Addrs(v))
    BY DEF Listed, Addrs, Once
<1> HIDE DEF v
<1>4. Hold(c)'
    BY <1>1, <1>2, <1>3 DEF Hold, Packing, InHand, Ended, Count
<1>5. QED  BY <1>1, <1>2, <1>4 DEF Holds

\* A block for a message is in hand.
LEMMA AllocBlockHolds ==
    ASSUME SInv, SInv', NEW c \in Calls, Hold(c), NEW b \in Blocks, AllocBlock(c, b)
    PROVE  Holds(c)
<1>1. /\ pc[c] = "alloc" /\ pc'[c] = "copy" /\ cb'[c] = "none" /\ cur'[c] = b
      /\ UNCHANGED <<segSize, req, iov>>
    BY DEF SInv, IInv, Stage, TypeOK, AllocBlock, cbVars
<1>2. /\ HeldBy(c)' = HeldBy(c) \cup {b} /\ b \notin HeldBy(c)
      /\ \A d \in Calls \ {c} : Untouched(d)
    <2>1. Take(c, b, BlockSize(c))
        BY DEF AllocBlock
    <2>2. QED  BY <2>1, TakeFrees
<1>3. Once(Addrs(iov[c])) /\ HeldBy(c) = Listed(Addrs(iov[c]))
    BY <1>1 DEF Hold, Packing, InHand
<1>4. Hold(c)'
    BY <1>1, <1>2, <1>3 DEF Hold, Packing, InHand, Ended, Count
<1>5. QED  BY <1>1, <1>2, <1>4 DEF Holds

\* The copy moves the block in hand into the scatter list.
LEMMA CopyMessageHolds ==
    ASSUME SInv, SInv', NEW c \in Calls, Hold(c), CopyMessage(c)
    PROVE  Holds(c)
<1> DEFINE e == [addr |-> cur[c], size |-> Msg(c).len]
<1>1. /\ pc[c] = "copy" /\ cb'[c] = "none" /\ UNCHANGED <<segSize, req, holder, cap>>
      /\ iov'[c] = Append(iov[c], e) /\ pc'[c] \in {"alloc", "append", "post"}
    BY DEF SInv, IInv, Stage, TypeOK, CopyMessage, cbVars
<1>2. e \in Entry /\ iov[c] \in Seq(Entry) /\ cur[c] \in Blocks
    <2>1. req[c] \in Requests /\ packed[c] < SetCount(c) /\ cur[c] \in Blocks
        BY <1>1 DEF SInv, Shape
    <2>2. Msg(c).len \in Nat
        BY <2>1, Counters DEF SInv
    <2>3. QED  BY <2>1, <2>2 DEF SInv, TypeOK, Entry
<1>3. /\ Once(Addrs(iov[c])) /\ HeldBy(c) = Listed(Addrs(iov[c])) \cup {cur[c]}
      /\ cur[c] \notin Listed(Addrs(iov[c])) /\ e.addr = cur[c]
    BY <1>1 DEF Hold, Packing, InHand
<1> HIDE DEF e
<1>4. HeldBy(c)' = HeldBy(c) /\ NoGrant /\ \A d \in Calls \ {c} : Untouched(d)
    BY <1>1, NothingFrees
<1>5. Once(Addrs(iov'[c])) /\ HeldBy(c)' = Listed(Addrs(iov'[c]))
    <2>1. \A b : b \in Listed(Addrs(iov'[c])) <=> b \in Listed(Addrs(iov[c])) \cup {cur[c]}
        BY <1>1, <1>2, <1>3, AppendedList
    <2>2. Once(Addrs(iov'[c]))
        BY <1>1, <1>2, <1>3, AppendedList
    <2>3. QED  BY <1>3, <1>4, <2>1, <2>2
<1>6. Hold(c)'
    <2>1. InHand(c)' = {}
        BY <1>1 DEF InHand
    <2>2. QED  BY <1>1, <1>5, <2>1 DEF Hold, Packing, Ended, Count
<1>7. QED  BY <1>4, <1>6 DEF Holds

\* An appended message changes the size of an entry, not its block.
LEMMA AppendMessageHolds ==
    ASSUME SInv, SInv', NEW c \in Calls, Hold(c), AppendMessage(c)
    PROVE  Holds(c)
<1>1. /\ pc[c] = "append" /\ cb'[c] = "none" /\ UNCHANGED <<segSize, req, holder, cap>>
      /\ pc'[c] \in {"append", "post"}
    BY DEF SInv, IInv, Stage, TypeOK, AppendMessage, cbVars
<1>2. iov[c] \in Seq(Entry) /\ Len(iov[c]) = IovMax /\ IovMax \in Nat \ {0, 1}
    BY <1>1, ConstantsOK DEF SInv, TypeOK, Shape, Entry, ConstantsOK
<1>3. PICK e : /\ iov'[c] = [iov[c] EXCEPT ![IovMax] = e]
               /\ e.addr = iov[c][IovMax].addr
    <2> DEFINE e == [iov[c][IovMax] EXCEPT !.size = @ + Msg(c).len]
    <2>1. iov[c][IovMax] \in Entry
        BY <1>2, ElementOfSeq
    <2>2. e.addr = iov[c][IovMax].addr
        BY <2>1 DEF Entry
    <2>3. iov'[c] = [iov[c] EXCEPT ![IovMax] = e]
        BY DEF SInv, TypeOK, AppendMessage
    <2>4. QED  BY <2>2, <2>3
<1>4. Len(iov'[c]) = IovMax /\ \A k \in 1..IovMax : iov'[c][k].addr = iov[c][k].addr
    BY <1>2, <1>3
<1>5. Addrs(iov'[c]) = Addrs(iov[c])
    BY <1>2, <1>4 DEF Addrs
<1>6. Once(Addrs(iov[c])) /\ HeldBy(c) = Listed(Addrs(iov[c]))
    BY <1>1 DEF Hold, Packing, InHand
<1>7. HeldBy(c)' = HeldBy(c) /\ NoGrant /\ \A d \in Calls \ {c} : Untouched(d)
    BY <1>1, NothingFrees
<1>8. Hold(c)'
    <2>1. InHand(c)' = {}
        BY <1>1 DEF InHand
    <2>2. QED  BY <1>1, <1>5, <1>6, <1>7, <2>1 DEF Hold, Packing, Ended
<1>9. QED  BY <1>7, <1>8 DEF Holds

\* An error path is entered, or a synchronous call ends: what is held is going to be freed
\* or left behind.
LEMMA FailHolds ==
    ASSUME SInv, SInv', NEW c \in Calls, NEW what, NEW frees \in Seq(Addr), Fail(c, what, frees),
           cb'[c] = "none", UNCHANGED <<iov, req, holder, cap>>,
           HeldBy(c) \subseteq Listed(frees) \cup LeftBehind(c)',
           LeftBehind(c)' \subseteq HeldBy(c), LeftBehind(c)' \cap Listed(frees) = {},
           Listed(frees) \subseteq HeldBy(c), Once(frees) \/ Serial
    PROVE  Holds(c)
<1>1. HeldBy(c)' = HeldBy(c) /\ NoGrant /\ \A d \in Calls \ {c} : Untouched(d)
    BY NothingFrees
<1>2. CASE frees = <<>>
    <2>1. pc'[c] = "return"
        BY <1>2 DEF SInv, TypeOK, Fail
    <2>2. HeldBy(c)' = LeftBehind(c)'
        <3>1. Listed(frees) = {}
            BY <1>2 DEF Listed
        <3>2. QED  BY <1>1, <3>1
    <2>3. QED  BY <1>1, <2>1, <2>2 DEF Holds, Hold, Packing
<1>3. CASE frees # <<>>
    <2>1. pc'[c] = "free" /\ left'[c] = frees
        BY <1>3 DEF SInv, TypeOK, Fail
    <2>2. \A b \in Listed(frees) : holder'[b] = c
        BY <1>1 DEF HeldBy
    <2>3. QED  BY <1>1, <2>1, <2>2 DEF Holds, Hold, Packing, Ended
<1>4. QED  BY <1>2, <1>3

\* The blocks from the first to the last entry of a scatter list, and from the second on.
LEMMA FirstAndRest ==
    ASSUME NEW v \in Seq(Entry), v # <<>>
    PROVE  /\ {v[k].addr : k \in 1..Len(v)} = Listed(Addrs(v))
           /\ Listed(Addrs(v)) = {v[1].addr} \cup {v[k].addr : k \in 2..Len(v)}
           /\ Once(Addrs(v)) => v[1].addr \notin {v[k].addr : k \in 2..Len(v)}
<1>1. Len(v) \in Nat \ {0}
    BY EmptySeq
<1>2. \A k \in 1..Len(v) : Addrs(v)[k] = v[k].addr /\ v[k].addr \in Blocks
    BY ScatterList
<1>3. {v[k].addr : k \in 1..Len(v)} = Listed(Addrs(v))
    BY <1>2, ScatterList
<1>4. {v[k].addr : k \in 1..Len(v)} = {v[1].addr} \cup {v[k].addr : k \in 2..Len(v)}
    BY <1>1
<1>5. ASSUME Once(Addrs(v)), NEW k \in 2..Len(v) PROVE v[1].addr # v[k].addr
    <2>1. 1 \in 1..Len(v) /\ k \in 1..Len(v) /\ k # 1
        BY <1>1
    <2>2. QED  BY <1>2, <1>5, <2>1, ScatterList DEF Once
<1>6. QED  BY <1>3, <1>4, <1>5

\* What PackReqInfo frees when SetReqInfo has failed, and what it leaves, is the scatter list.
LEMMA AfterFrees ==
    ASSUME SInv, NEW c \in Calls, iov[c] # <<>>, Len(iov[c]) <= IovMax, Once(Addrs(iov[c])),
           why'[c] \in {"alloc", "copy"}, cb'[c] = "none", UNCHANGED <<iov, req>>
    PROVE  /\ AfterSetReqInfo(c) \in Seq(Addr) /\ Once(AfterSetReqInfo(c))
           /\ Listed(Addrs(iov[c])) = Listed(AfterSetReqInfo(c)) \cup LeftBehind(c)'
           /\ LeftBehind(c)' \cap Listed(AfterSetReqInfo(c)) = {}
<1>1. iov[c] \in Seq(Entry)
    BY DEF SInv, TypeOK, Entry
<1>2. CASE Long(c)
    <2> DEFINE q == <<iov[c][1].addr>>
    <2>1. AfterSetReqInfo(c) = q
        BY <1>2 DEF AfterSetReqInfo
    <2>2. LeftBehind(c)' = {iov[c][k].addr : k \in 2..Len(iov[c])}
        BY <1>2 DEF LeftBehind, Long, Count
    <2>3. iov[c][1].addr \in Blocks
        BY <1>1, FirstAndRest DEF Listed
    <2>4. Listed(q) = {iov[c][1].addr} /\ Once(q)
        BY <2>3 DEF Listed, Once
    <2> HIDE DEF q
    <2>5. QED  BY <1>1, <2>1, <2>2, <2>4, AfterIsSeq, FirstAndRest
<1>3. CASE ~Long(c)
    <2>1. AfterSetReqInfo(c) = FreeAll(iov[c])
        BY <1>3 DEF AfterSetReqInfo
    <2>2. LeftBehind(c)' = {}
        BY <1>3 DEF LeftBehind, Long, Count
    <2>3. QED  BY <1>1, <2>1, <2>2, AfterIsSeq, FreeAllList
<1>4. QED  BY <1>2, <1>3

\* An allocation fails.
LEMMA AllocFailsHolds ==
    ASSUME SInv, SInv', NEW c \in Calls, Hold(c), AllocFails(c)
    PROVE  Holds(c)
<1> DEFINE none == <<>>
<1>1. /\ pc[c] \in {"head", "alloc"} /\ cb'[c] = "none" /\ UNCHANGED <<iov, req, holder, cap>>
    BY DEF SInv, IInv, Stage, TypeOK, AllocFails, cbVars, poolVars
<1>2. CASE pc[c] = "head"
    <2>1. Fail(c, "head", none) /\ none \in Seq(Addr)
        BY <1>2 DEF AllocFails
    <2>2. LeftBehind(c)' = {}
        BY <1>1, <2>1 DEF LeftBehind, Fail, SInv, TypeOK
    <2>3. HeldBy(c) = {}
        BY <1>2 DEF Hold
    <2>4. Listed(none) = {} /\ Once(none)
        BY DEF Listed, Once
    <2>5. QED  BY <1>1, <2>1, <2>2, <2>3, <2>4, FailHolds
<1>3. CASE pc[c] = "alloc"
    <2>1. /\ packed[c] \in Nat /\ Len(iov[c]) = packed[c] + 1 /\ packed[c] < SetCount(c)
          /\ req[c] \in Requests
        BY <1>3 DEF SInv, TypeOK, Shape
    <2>2. iov[c] # <<>> /\ Len(iov[c]) <= IovMax
        BY <2>1, EmptySeq, Counters DEF SInv
    <2>3. Once(Addrs(iov[c])) /\ HeldBy(c) = Listed(Addrs(iov[c]))
        BY <1>3 DEF Hold, Packing, InHand
    <2> DEFINE q == AfterSetReqInfo(c)
               p == Times(NoAddr, packed[c]) \o q
    <2>4. Fail(c, "alloc", p) /\ why'[c] = "alloc"
        BY <1>3 DEF AllocFails, Fail, SInv, TypeOK
    <2>5. /\ q \in Seq(Addr) /\ Once(q) /\ Listed(Addrs(iov[c])) = Listed(q) \cup LeftBehind(c)'
          /\ LeftBehind(c)' \cap Listed(q) = {}
        BY <1>1, <2>2, <2>3, <2>4, AfterFrees
    <2> HIDE DEF q
    <2>6. NoAddr \notin Blocks /\ NoAddr \in Addr
        BY ConstantsOK DEF ConstantsOK, Addr
    <2>7. p = Padded(NoAddr, packed[c], q)
        BY DEF Padded
    <2> HIDE DEF p
    <2>8. /\ p \in Seq(Addr) /\ Listed(q) \subseteq Listed(p)
          /\ Listed(p) \subseteq Listed(q) \cup {NoAddr} /\ Once(p)
        BY <2>1, <2>5, <2>6, <2>7, PaddedList
    <2>9. Listed(p) = Listed(q)
        BY <2>6, <2>8 DEF Listed
    <2>10. QED  BY <1>1, <2>3, <2>4, <2>5, <2>8, <2>9, FailHolds
<1>4. QED  BY <1>1, <1>2, <1>3

\* A copy of SetReqInfo fails only on a message without data, or after the segment size has
\* changed since the checks of the arguments.
LEMMA CopySucceeds ==
    ASSUME Filled, Steady, SInv, NEW c \in Calls, Hold(c), pc[c] = "copy"
    PROVE  Copies(Msg(c), 0)
<1>1. req[c] \in Requests /\ packed[c] \in Nat /\ packed[c] < SetCount(c)
    BY DEF SInv, TypeOK, Shape
<1>2. packed[c] + 1 \in 1..Count(c) /\ Msg(c).len \in Nat
    BY <1>1, Counters DEF SInv
<1>3. ~Msg(c).null /\ Msg(c).len <= segSize
    BY <1>1, <1>2 DEF Filled, Hold, Msg, Count
<1>4. segSize \in Nat \ {0}
    BY DEF Steady, SInv, TypeOK
<1>5. QED  BY <1>2, <1>3, <1>4 DEF Copies

\* A copy fails.  The block in hand is freed more than once only if there is one thread.
LEMMA CopyFailsHolds ==
    ASSUME Tame, SInv, SInv', NEW c \in Calls, Hold(c), CopyFails(c)
    PROVE  Holds(c)
<1>1. /\ pc[c] \in {"copy", "append"} /\ cb'[c] = "none" /\ UNCHANGED <<iov, req, holder, cap>>
    BY DEF SInv, IInv, Stage, TypeOK, CopyFails, cbVars
<1>2. /\ iov[c] \in Seq(Entry) /\ Once(Addrs(iov[c]))
      /\ HeldBy(c) = Listed(Addrs(iov[c])) \cup InHand(c)
      /\ InHand(c) \cap Listed(Addrs(iov[c])) = {}
    BY <1>1 DEF SInv, TypeOK, Entry, Hold, Packing
<1>3. CASE pc[c] = "copy"
    <2>1. Serial
        BY <1>3, CopySucceeds DEF Tame, CopyFails
    <2>2. /\ packed[c] \in Nat /\ Len(iov[c]) = packed[c] + 1 /\ packed[c] < SetCount(c)
          /\ req[c] \in Requests /\ cur[c] \in Blocks /\ cur[c] \in Addr
        BY <1>3 DEF SInv, TypeOK, Shape
    <2>3. iov[c] # <<>> /\ Len(iov[c]) <= IovMax /\ packed[c] + 1 \in Nat
        BY <2>2, EmptySeq, Counters DEF SInv
    <2> DEFINE q == AfterSetReqInfo(c)
               p == Times(cur[c], packed[c] + 1) \o q
    <2>4. Fail(c, "copy", p) /\ why'[c] = "copy"
        BY <1>3 DEF CopyFails, Fail, SInv, TypeOK
    <2>5. /\ q \in Seq(Addr) /\ Listed(Addrs(iov[c])) = Listed(q) \cup LeftBehind(c)'
          /\ LeftBehind(c)' \cap Listed(q) = {}
        BY <1>1, <1>2, <2>3, <2>4, AfterFrees
    <2> HIDE DEF q
    <2>6. p = Padded(cur[c], packed[c] + 1, q)
        BY DEF Padded
    <2> HIDE DEF p
    <2>7. packed[c] + 1 > 0
        BY <2>2
    <2>8. /\ p \in Seq(Addr) /\ Listed(q) \subseteq Listed(p)
          /\ Listed(p) \subseteq Listed(q) \cup {cur[c]} /\ cur[c] \in Listed(p)
        BY <2>2, <2>3, <2>5, <2>6, <2>7, PaddedList
    <2>9. InHand(c) = {cur[c]}
        BY <1>3 DEF InHand
    <2>10. /\ HeldBy(c) \subseteq Listed(p) \cup LeftBehind(c)'
           /\ LeftBehind(c)' \subseteq HeldBy(c) /\ LeftBehind(c)' \cap Listed(p) = {}
           /\ Listed(p) \subseteq HeldBy(c)
        BY <1>2, <2>5, <2>8, <2>9
    <2>11. QED  BY <1>1, <2>1, <2>4, <2>8, <2>10, FailHolds
<1>4. CASE pc[c] = "append"
    <2>1. Fail(c, "append", FreeAll(iov[c])) /\ why'[c] = "append"
        BY <1>4 DEF CopyFails, Fail, SInv, TypeOK
    <2>2. LeftBehind(c)' = {}
        BY <1>1, <2>1 DEF LeftBehind
    <2>3. Len(iov[c]) <= IovMax
        BY <1>4, ConstantsOK DEF SInv, Shape, ConstantsOK
    <2>4. /\ FreeAll(iov[c]) \in Seq(Addr) /\ Listed(FreeAll(iov[c])) = Listed(Addrs(iov[c]))
          /\ Once(FreeAll(iov[c]))
        BY <1>2, <2>3, FreeAllIsSeq, FreeAllList
    <2>5. HeldBy(c) = Listed(FreeAll(iov[c]))
        BY <1>2, <1>4, <2>4 DEF InHand
    <2>6. QED  BY <1>1, <2>1, <2>2, <2>4, <2>5, FailHolds
<1>5. QED  BY <1>1, <1>3, <1>4

\* A synchronous call ends, and its scatter list is going to be freed.
LEMMA SyncDoneHolds ==
    ASSUME SInv, SInv', NEW c \in Calls, Hold(c), NEW ok \in BOOLEAN, SyncDone(c, ok)
    PROVE  Holds(c)
<1>1. /\ pc[c] = "wait" /\ cb'[c] = "none" /\ UNCHANGED <<iov, req, holder, cap>>
      /\ iov[c] \in Seq(Entry)
    BY DEF SInv, IInv, Stage, TypeOK, SyncDone, Entry, poolVars
<1>2. PICK what \in {"none", "sync"} : Fail(c, what, Addrs(iov[c])) /\ why'[c] = what
    BY DEF SyncDone, Fail, SInv, TypeOK
<1>3. LeftBehind(c)' = {}
    BY <1>1, <1>2 DEF LeftBehind
<1>4. Once(Addrs(iov[c])) /\ HeldBy(c) = Listed(Addrs(iov[c]))
    BY <1>1 DEF Hold, Packing, InHand
<1>5. Addrs(iov[c]) \in Seq(Addr)
    BY <1>1, AddrsIsSeq
<1>6. QED  BY <1>1, <1>2, <1>3, <1>4, <1>5, FailHolds

\* A request is posted or refused, or the routine returns.
LEMMA PostHolds ==
    ASSUME SInv, SInv', NEW c \in Calls, Hold(c),
           PostSync(c) \/ PostAsync(c) \/ PostAsyncFails(c) \/ Return(c)
    PROVE  Holds(c)
<1>1. UNCHANGED <<segSize, req, iov, poolVars>>
    BY DEF PostSync, PostAsync, PostAsyncFails, Return
<1>2. HeldBy(c)' = HeldBy(c) /\ NoGrant /\ \A d \in Calls \ {c} : Untouched(d)
    BY <1>1, NothingFrees DEF poolVars
<1>3. CASE PostSync(c) \/ PostAsync(c)
    <2>1. /\ pc[c] = "post" /\ cb[c] = "none" /\ Packing(c)'
          /\ (pc'[c] = "wait" /\ cb'[c] = "none") \/ (pc'[c] = "return" /\ cb'[c] = "posted")
        BY <1>3 DEF SInv, IInv, Stage, TypeOK, PostSync, PostAsync, cbVars, Packing
    <2>2. Once(Addrs(iov[c])) /\ HeldBy(c) = Listed(Addrs(iov[c])) /\ InHand(c)' = {}
        BY <2>1 DEF Hold, Packing, InHand
    <2>3. Hold(c)'
        BY <1>1, <1>2, <2>1, <2>2 DEF Hold, Ended
    <2>4. QED  BY <1>2, <2>3 DEF Holds
<1>4. CASE PostAsyncFails(c)
    <2>1. /\ pc[c] = "post" /\ pc'[c] = "return" /\ cb'[c] = "none" /\ why'[c] = "async"
          /\ iov[c] \in Seq(Entry) /\ iov[c] # <<>>
        <3>1. pc[c] = "post" /\ pc'[c] = "return" /\ why'[c] = "async" /\ cb'[c] = cb[c]
            BY <1>4 DEF SInv, TypeOK, PostAsyncFails, Fail, cbVars
        <3>2. QED  BY <3>1 DEF SInv, IInv, Stage, Shape, Entry, TypeOK
    <2>2. LeftBehind(c)' = {iov[c][k].addr : k \in 1..Len(iov[c])}
        BY <1>1, <2>1 DEF LeftBehind
    <2>3. HeldBy(c) = Listed(Addrs(iov[c]))
        BY <2>1 DEF Hold, Packing, InHand
    <2>4. HeldBy(c)' = LeftBehind(c)'
        BY <1>2, <2>1, <2>2, <2>3, FirstAndRest
    <2>5. Hold(c)'
        BY <2>1, <2>4 DEF Hold, Packing
    <2>6. QED  BY <1>2, <2>5 DEF Holds
<1>5. CASE Return(c)
    <2>1. /\ pc[c] = "return" /\ pc'[c] = "returned" /\ UNCHANGED <<cb, why, cbLeft>>
        BY <1>5 DEF SInv, TypeOK, Return, cbVars
    <2>2. /\ LeftBehind(c)' = LeftBehind(c) /\ Ended(c)' = Ended(c) /\ Packing(c)' = Packing(c)
          /\ InHand(c)' = InHand(c)
        BY <1>1, <2>1 DEF LeftBehind, Long, Count, Ended, Packing, InHand
    <2>3. Hold(c)'
        BY <1>1, <1>2, <2>1, <2>2 DEF Hold
    <2>4. QED  BY <1>2, <2>3 DEF Holds
<1>6. QED  BY <1>3, <1>4, <1>5

\* A free takes a block of the call itself, or none.
LEMMA FreeHolds ==
    ASSUME SInv, SInv', NEW c \in Calls, Hold(c), CallerFree(c) \/ CallbackFree(c)
    PROVE  Holds(c)
<1>1. CASE CallerFree(c)
    <2>1. /\ pc[c] = "free" /\ cb'[c] = "none" /\ left'[c] = Tail(left[c])
          /\ pc'[c] = IF Len(left[c]) = 1 THEN "return" ELSE "free"
          /\ left[c] \in Seq(Addr) /\ left[c] # <<>>
          /\ UNCHANGED <<segSize, req, iov, why>>
        BY <1>1 DEF SInv, IInv, Stage, TypeOK, Shape, CallerFree, cbVars
    <2> DEFINE a == Head(left[c])
               t == Tail(left[c])
    <2>2. /\ a \in Addr /\ Listed(t) \subseteq Listed(left[c])
          /\ a \in Blocks => a \in Listed(left[c])
          /\ Listed(left[c]) \subseteq Listed(t) \cup {a}
          /\ Once(left[c]) => Once(t) /\ a \notin Listed(t)
        BY <2>1, TailList
    <2>3. /\ HeldBy(c) \subseteq Listed(left[c]) \cup LeftBehind(c)
          /\ LeftBehind(c) \subseteq HeldBy(c) /\ LeftBehind(c) \cap Listed(left[c]) = {}
          /\ Serial => \A b \in Listed(left[c]) : holder[b] \in {c, NoCall}
          /\ ~Serial => Once(left[c]) /\ Listed(left[c]) \subseteq HeldBy(c)
        BY <2>1 DEF Hold
    <2>4. a \in Blocks => holder[a] \in {c, NoCall}
        BY <2>2, <2>3 DEF HeldBy
    <2>5. Release(a) /\ cap' = cap /\ mem' = mem
        BY <1>1 DEF CallerFree
    <2> HIDE DEF a
    <2>6. /\ \A b \in Blocks : holder'[b] = IF b = a THEN NoCall ELSE holder[b]
          /\ HeldBy(c)' = HeldBy(c) \ {a} /\ NoGrant /\ \A d \in Calls \ {c} : Untouched(d)
        BY <2>2, <2>4, <2>5, ReleaseFrees
    <2>7. LeftBehind(c)' = LeftBehind(c) /\ LeftBehind(c) \subseteq Blocks
        <3>1. cb[c] = "none"
            BY <2>1 DEF SInv, IInv, Stage
        <3>2. LeftBehind(c)' = LeftBehind(c)
            BY <2>1, <3>1 DEF LeftBehind, Long, Count
        <3>3. QED  BY <3>2, <2>3 DEF HeldBy
    <2>8. /\ HeldBy(c)' \subseteq Listed(t) \cup LeftBehind(c)'
          /\ LeftBehind(c)' \subseteq HeldBy(c)' /\ LeftBehind(c)' \cap Listed(t) = {}
        BY <2>2, <2>3, <2>6, <2>7
    <2>9. CASE pc'[c] = "free"
        <3>1. Serial => \A b \in Listed(t) : holder'[b] \in {c, NoCall}
            BY <2>2, <2>3, <2>6 DEF Listed
        <3>2. ~Serial => Once(t) /\ Listed(t) \subseteq HeldBy(c)'
            BY <2>2, <2>3, <2>6
        <3>3. Hold(c)'
            BY <2>1, <2>8, <2>9, <3>1, <3>2 DEF Hold, Packing, Ended
        <3>4. QED  BY <2>6, <3>3 DEF Holds
    <2>10. CASE pc'[c] = "return"
        <3>1. Len(left[c]) <= 1
            <4>1. Len(left[c]) = 1
                BY <2>1, <2>10
            <4>2. QED  BY <4>1
        <3>2. Listed(t) = {}
            BY <2>1, <3>1, TailList
        <3>3. HeldBy(c)' = LeftBehind(c)'
            BY <2>8, <3>2
        <3>4. Hold(c)'
            BY <2>1, <2>10, <3>3 DEF Hold, Packing
        <3>5. QED  BY <2>6, <3>4 DEF Holds
    <2>11. QED  BY <2>1, <2>9, <2>10
<1>2. CASE CallbackFree(c)
    <2>1. /\ cb[c] = "free" /\ cbLeft'[c] = Tail(cbLeft[c])
          /\ cb'[c] = IF Len(cbLeft[c]) > 1 THEN "free" ELSE "notify"
          /\ cbLeft[c] \in Seq(Addr) /\ cbLeft[c] # <<>>
          /\ UNCHANGED callerVars
        BY <1>2 DEF SInv, TypeOK, Shape, CallbackFree
    <2>2. pc'[c] \in {"return", "returned"} /\ why'[c] = "none"
        BY <2>1 DEF SInv, IInv, Types, Stage, callerVars, PCs
    <2> DEFINE a == Head(cbLeft[c])
               t == Tail(cbLeft[c])
    <2>3. /\ a \in Addr /\ Listed(t) \subseteq Listed(cbLeft[c])
          /\ a \in Blocks => a \in Listed(cbLeft[c])
          /\ Listed(cbLeft[c]) \subseteq Listed(t) \cup {a}
          /\ Once(cbLeft[c]) => Once(t) /\ a \notin Listed(t)
        BY <2>1, TailList
    <2>4. Once(cbLeft[c]) /\ HeldBy(c) = Listed(cbLeft[c])
        BY <2>1 DEF Hold
    <2>5. Release(a) /\ cap' = cap /\ mem' = mem
        BY <1>2 DEF CallbackFree
    <2> HIDE DEF a
    <2>6. HeldBy(c)' = HeldBy(c) \ {a} /\ NoGrant /\ \A d \in Calls \ {c} : Untouched(d)
        <3>1. a \in Blocks => holder[a] \in {c, NoCall}
            BY <2>3, <2>4 DEF HeldBy
        <3>2. QED  BY <2>3, <2>5, <3>1, ReleaseFrees
    <2>7. HeldBy(c)' = Listed(t)
        BY <2>3, <2>4, <2>6
    <2>8. CASE cb'[c] = "free"
        <3>1. Hold(c)'
            BY <2>1, <2>2, <2>3, <2>4, <2>7, <2>8 DEF Hold, Packing, Ended
        <3>2. QED  BY <2>6, <3>1 DEF Holds
    <2>9. CASE cb'[c] = "notify"
        <3>1. Len(cbLeft[c]) \in Nat \ {0}
            BY <2>1, TailShape
        <3>2. ~(Len(cbLeft[c]) > 1)
            BY <2>1, <2>9
        <3>3. Listed(t) = {}
            BY <2>1, <3>1, <3>2, TailList
        <3>4. LeftBehind(c)' = {}
            BY <2>2, <2>9 DEF LeftBehind
        <3>5. Hold(c)'
            BY <2>2, <2>7, <2>9, <3>3, <3>4 DEF Hold, Packing
        <3>6. QED  BY <2>6, <3>5 DEF Holds
    <2>10. QED  BY <2>1, <2>8, <2>9
<1>3. QED  BY <1>1, <1>2

\* The callback takes over the blocks of a posted request, or loses them.
LEMMA CallbackHolds ==
    ASSUME SInv, SInv', NEW c \in Calls, Hold(c), NEW how \in {"filled", "uncopied"},
           CallbackStarts(c) \/ CallbackGetResultFails(c) \/ CallbackNotify(c, how)
    PROVE  Holds(c)
<1>1. UNCHANGED <<segSize, callerVars, poolVars>> /\ cb[c] \in {"posted", "notify"}
    BY DEF CallbackStarts, CallbackGetResultFails, CallbackNotify
<1>2. HeldBy(c)' = HeldBy(c) /\ NoGrant /\ \A d \in Calls \ {c} : Untouched(d)
    BY <1>1, NothingFrees DEF poolVars
<1>3. pc[c] \in {"return", "returned"} /\ pc'[c] = pc[c] /\ why[c] = "none" /\ why'[c] = "none"
    BY <1>1 DEF SInv, IInv, Types, Stage, callerVars, PCs
<1>4. CASE cb[c] = "posted"
    <2>1. /\ HeldBy(c) = Listed(Addrs(iov[c])) /\ Once(Addrs(iov[c]))
          /\ iov[c] \in Seq(Entry) /\ iov[c] # <<>>
        BY <1>3, <1>4 DEF Hold, Packing, InHand, SInv, TypeOK, Shape, Entry
    <2>2. CASE CallbackStarts(c)
        <3>1. cb'[c] = "free" /\ cbLeft'[c] = Addrs(iov[c])
            BY <2>2 DEF SInv, TypeOK, CallbackStarts
        <3>2. Hold(c)'
            BY <1>2, <1>3, <2>1, <3>1 DEF Hold, Packing, Ended
        <3>3. QED  BY <1>2, <3>2 DEF Holds
    <2>3. CASE CallbackGetResultFails(c)
        <3>1. cb'[c] = "lost" /\ iov' = iov
            BY <2>3 DEF SInv, TypeOK, CallbackGetResultFails, callerVars
        <3>2. LeftBehind(c)' = {iov[c][k].addr : k \in 1..Len(iov[c])}
            BY <3>1 DEF LeftBehind
        <3>3. HeldBy(c)' = LeftBehind(c)'
            BY <1>2, <2>1, <3>2, FirstAndRest
        <3>4. Hold(c)'
            BY <1>3, <3>1, <3>3 DEF Hold, Packing
        <3>5. QED  BY <1>2, <3>4 DEF Holds
    <2>4. QED  BY <1>4, <2>2, <2>3 DEF CallbackNotify
<1>5. CASE cb[c] = "notify"
    <2>1. cb'[c] = "over"
        BY <1>5 DEF SInv, TypeOK, CallbackStarts, CallbackGetResultFails, CallbackNotify
    <2>2. LeftBehind(c) = {} /\ LeftBehind(c)' = {}
        BY <1>3, <1>5, <2>1 DEF LeftBehind
    <2>3. HeldBy(c)' = LeftBehind(c)'
        BY <1>2, <1>3, <1>5, <2>2 DEF Hold, Ended
    <2>4. Hold(c)'
        BY <1>3, <2>1, <2>3 DEF Hold, Packing
    <2>5. QED  BY <1>2, <2>4 DEF Holds
<1>6. QED  BY <1>1, <1>4, <1>5
-----------------------------------------------------------------------------
\* One step of a call, whichever it is.
LEMMA StepHolds ==
    ASSUME Tame, SInv, SInv', NEW c \in Calls, Hold(c), CallStep(c)
    PROVE  Holds(c)
<1>1. CASE CallerStep(c)
    BY <1>1, AllocHeadHolds, AllocBlockHolds, AllocFailsHolds, CopyMessageHolds,
       AppendMessageHolds, CopyFailsHolds, PostHolds, FreeHolds
    DEF CallerStep, Allocates
<1>2. CASE TransportStep(c)
    BY <1>2, SyncDoneHolds, CallbackHolds, FreeHolds DEF TransportStep
<1>3. QED  BY <1>1, <1>2, StartHolds DEF CallStep

\* A thread invokes the routine only after its previous call has returned.
LEMMA AloneKept ==
    ASSUME SInv, Alone, NEW c \in Calls, CallStep(c), Shaped(c)
    PROVE  Alone'
<1> SUFFICES ASSUME Serial, NEW d \in Calls \ {c}, Active(c)', Active(d)' PROVE FALSE
    BY DEF Alone, Active, Shaped, SameShape, Serial
<1>1. Active(d)
    BY DEF Active, Shaped, SameShape
<1>2. CASE \E r \in Requests : Start(c, r)
    <2>1. Thread[d] = Thread[c]
        BY DEF Serial
    <2>2. QED  BY <1>1, <1>2, <2>1 DEF Start, Active
<1>3. CASE CallerStep(c)
    <2>1. Active(c)
        BY <1>3 DEF CallerStep, Allocates, AllocHead, AllocBlock, AllocFails, CopyMessage,
            AppendMessage, CopyFails, PostSync, PostAsync, PostAsyncFails, CallerFree, Return, Active
    <2>2. QED  BY <1>1, <2>1 DEF Alone
<1>4. CASE TransportStep(c)
    <2>1. Active(c)
        BY <1>4 DEF TransportStep, SyncDone, CallbackStarts, CallbackGetResultFails, CallbackFree,
            CallbackNotify, callerVars, Active
    <2>2. QED  BY <1>1, <2>1 DEF Alone
<1>5. QED  BY <1>2, <1>3, <1>4 DEF CallStep

\* One segment size is the segment size.
LEMMA SteadySize ==
    ASSUME Steady, TypeOK, segSize' \in SegSizes
    PROVE  segSize' = segSize
BY DEF Steady, TypeOK

\* What a call holds stays its own, whatever the others do.
THEOREM HoldInvariance == ASSUME Tame PROVE Spec => []HInv
<1>1. Init /\ SInv => HInv
    <2> SUFFICES ASSUME Init, SInv PROVE HInv
        OBVIOUS
    <2>1. Alone
        BY DEF Init, Alone, Active
    <2>2. ASSUME NEW c \in Calls PROVE Hold(c)
        <3>1. pc[c] = "idle" /\ cb[c] = "none"
            BY DEF Init
        <3>2. HeldBy(c) = {}
            BY ConstantsOK DEF Init, HeldBy, ConstantsOK
        <3>3. QED  BY <3>1, <3>2 DEF Hold, Packing, Ended
    <2>3. QED  BY <2>1, <2>2 DEF HInv
<1>2. SInv /\ SInv' /\ HInv /\ [Next]_vars => HInv'
    <2> SUFFICES ASSUME SInv, SInv', HInv, [Next]_vars PROVE HInv'
        OBVIOUS
    <2>1. Steady => segSize' = segSize
        BY SteadySize DEF SInv, TypeOK
    <2>2. CASE \E c \in Calls : CallStep(c)
        <3>1. PICK c \in Calls : CallStep(c)
            BY <2>2
        <3>2. Holds(c) /\ Shaped(c) /\ Kept(c)
            BY <3>1, StepHolds, StepShapes, StepKeeps DEF HInv, SInv, CallStep
        <3>3. Alone'
            BY <3>1, <3>2, AloneKept DEF HInv
        <3>4. ASSUME NEW d \in Calls \ {c} PROVE Hold(d)'
            <4>1. SameShape(d) /\ why'[d] = why[d] /\ Untouched(d) /\ Hold(d)
                BY <3>2 DEF Holds, Shaped, Kept, Same, HInv
            <4>2. NoGrant \/ pc[d] # "free" \/ ~Serial
                BY <3>2 DEF Holds, HInv, Alone, Active
            <4>3. QED  BY <2>1, <4>1, <4>2, HoldKept
        <3>5. QED  BY <3>2, <3>3, <3>4 DEF Holds, HInv
    <2>3. CASE OtherServer \/ UNCHANGED vars
        <3>1. UNCHANGED <<callerVars, cbVars, poolVars>>
            BY <2>3 DEF OtherServer, vars
        <3>2. ASSUME NEW c \in Calls PROVE Hold(c)'
            <4>1. SameShape(c) /\ why'[c] = why[c]
                BY <3>1 DEF SameShape, callerVars, cbVars
            <4>2. Untouched(c) /\ NoGrant
                BY <3>1 DEF Untouched, NoGrant, poolVars
            <4>3. QED  BY <2>1, <4>1, <4>2, HoldKept DEF HInv
        <3>3. Alone'
            BY <3>1 DEF HInv, Alone, Active, callerVars
        <3>4. QED  BY <3>2, <3>3 DEF HInv
    <2>4. QED  BY <2>2, <2>3 DEF Next, CallStep
<1>3. QED  BY <1>1, <1>2, ShapeInvariance, PTL DEF Spec

\* No OckRpcMemFree of a call, and none of its callback, releases a block that another call
\* has allocated: with one thread whatever fails and in whatever order the callbacks run,
\* with several as long as every message has data and the segment size stays.
THEOREM OwnFreesOnly == ASSUME Tame PROVE Spec => []NoForeignFree
<1>1. HInv => NoForeignFree
    <2> SUFFICES ASSUME HInv, NEW c \in Calls, NEW a \in NextFrees(c) \cap Blocks
                 PROVE  holder[a] \in {c, NoCall}
        BY DEF NoForeignFree
    <2>1. CASE pc[c] = "free" /\ a = Head(left[c])
        <3>1. a \in Listed(left[c])
            BY <2>1, TailList DEF HInv, SInv, TypeOK, Shape
        <3>2. QED  BY <2>1, <3>1 DEF HInv, Hold, HeldBy
    <2>2. CASE cb[c] = "free" /\ a = Head(cbLeft[c])
        <3>1. a \in Listed(cbLeft[c])
            BY <2>2, TailList DEF HInv, SInv, TypeOK, Shape
        <3>2. QED  BY <2>2, <3>1 DEF HInv, Hold, HeldBy
    <2>3. QED  BY <2>1, <2>2 DEF NextFrees
<1>2. QED  BY <1>1, HoldInvariance, PTL

\* What a finished call leaves allocated for ever is exactly what its way of ending leaves:
\* nothing but for a long list whose SetReqInfo failed, an asynchronous call that was not
\* posted, and a callback without a result.
THEOREM OrphansAreExplained == ASSUME Tame PROVE Spec => []OrphansExplained
<1>1. HInv => OrphansExplained
    BY DEF HInv, Hold, Ended, Over, OrphansExplained
<1>2. QED  BY <1>1, HoldInvariance, PTL
-----------------------------------------------------------------------------
(***************************************************************************)
(* How full the blocks are.  The limit given to memcpy_s is the segment    *)
(* size at the time of the copy, so that it has to be the one the last     *)
(* block was allocated with.                                               *)
(***************************************************************************)
Roomy(c) ==
    /\ Packing(c) => \A k \in 1..Len(iov[c]) : iov[c][k].size <= cap[iov[c][k].addr]
    /\ pc[c] = "copy" => cap[cur[c]] = BlockSize(c)
    /\ pc[c] = "append" => cap[iov[c][IovMax].addr] = segSize

RInv == \A c \in Calls : Roomy(c)

\* The blocks of a scatter list stay as they are if nobody touches what its call holds.
LEMMA ListUntouched ==
    ASSUME SInv, NEW d \in Calls, Hold(d), Packing(d), Untouched(d)
    PROVE  \A k \in 1..Len(iov[d]) : /\ iov[d][k].addr \in Blocks /\ holder[iov[d][k].addr] = d
                                     /\ cap'[iov[d][k].addr] = cap[iov[d][k].addr]
<1>1. iov[d] \in Seq(Entry)
    BY DEF SInv, TypeOK, Entry
<1>2. Listed(Addrs(iov[d])) \subseteq HeldBy(d)
    BY DEF Hold
<1>3. QED  BY <1>1, <1>2, ScatterList DEF HeldBy, Untouched

\* An error, an end or a callback leaves nothing that the transport could still read.
LEMMA NothingPacked ==
    ASSUME SInv, NEW c \in Calls,
           \/ \E r \in Requests : Start(c, r)
           \/ AllocFails(c) \/ CopyFails(c) \/ PostAsyncFails(c) \/ CallerFree(c)
           \/ TransportStep(c)
    PROVE  ~Packing(c)' /\ pc'[c] \notin {"copy", "append"}
<1>1. CASE ~TransportStep(c)
    <2>1. cb[c] = "none" /\ cb'[c] = cb[c]
        BY <1>1 DEF SInv, IInv, Types, Stage, TypeOK, Start, AllocFails, CopyFails,
            PostAsyncFails, CallerFree, cbVars
    <2>2. pc'[c] \in {"head", "returned", "return", "free"}
        BY <1>1 DEF SInv, TypeOK, Start, AllocFails, CopyFails, PostAsyncFails, CallerFree, Fail
    <2>3. QED  BY <2>1, <2>2 DEF Packing
<1>2. CASE TransportStep(c)
    <2>1. cb[c] = "none" \/ pc[c] \in {"return", "returned"}
        BY DEF SInv, IInv, Types, Stage, PCs
    <2>2. QED
        BY <1>2, <2>1 DEF SInv, IInv, Stage, TypeOK, TransportStep, SyncDone, CallbackStarts,
            CallbackGetResultFails, CallbackFree, CallbackNotify, Fail, callerVars, Packing
<1>3. QED  BY <1>1, <1>2

\* A step of another call touches neither the scatter list nor its blocks.
LEMMA OthersUntouched ==
    ASSUME Tame, HInv, SInv', NEW c \in Calls, CallStep(c), NEW d \in Calls \ {c}
    PROVE  SameShape(d) /\ Untouched(d)
<1>1. Holds(c) /\ Shaped(c)
    BY StepHolds, StepShapes DEF HInv
<1>2. QED  BY <1>1 DEF Holds, Shaped

\* Another server changes no block, and no call.
LEMMA OtherServerUntouched ==
    ASSUME OtherServer \/ UNCHANGED vars, NEW d \in Calls
    PROVE  SameShape(d) /\ Untouched(d) /\ mem' = mem /\ cap' = cap
BY DEF OtherServer, vars, callerVars, cbVars, poolVars, SameShape, Untouched

\* A call whose state and blocks stay keeps their room.
LEMMA RoomyKept ==
    ASSUME SInv, NEW d \in Calls, Hold(d), Roomy(d), SameShape(d), Untouched(d), segSize' = segSize
    PROVE  Roomy(d)'
<1>1. /\ Packing(d)' = Packing(d) /\ iov'[d] = iov[d] /\ pc'[d] = pc[d] /\ cur'[d] = cur[d]
      /\ BlockSize(d)' = BlockSize(d)
    BY DEF Packing, SameShape, BlockSize, SetCount, Long, Count, Msg
<1>2. Packing(d) => \A k \in 1..Len(iov[d]) : cap'[iov[d][k].addr] = cap[iov[d][k].addr]
    BY ListUntouched
<1>3. pc[d] = "copy" => cap'[cur[d]] = cap[cur[d]]
    BY DEF Hold, Packing, InHand, HeldBy, Untouched
<1>4. pc[d] = "append" => Packing(d) /\ IovMax \in 1..Len(iov[d])
    BY ConstantsOK DEF SInv, Shape, Packing, ConstantsOK
<1>5. QED  BY <1>1, <1>2, <1>3, <1>4 DEF Roomy

\* A block is allocated, as long as its entry is going to be or as a segment.
LEMMA AllocMakesRoom ==
    ASSUME SInv, SInv', NEW c \in Calls, Hold(c), Roomy(c), NEW b \in Blocks,
           AllocHead(c, b) \/ AllocBlock(c, b)
    PROVE  Roomy(c)'
<1>1. CASE AllocHead(c, b)
    <2>1. /\ iov'[c] = <<[addr |-> b, size |-> HeaderSize]>> /\ pc'[c] = "alloc"
          /\ cap'[b] = HeaderSize /\ HeaderSize \in Nat
        BY <1>1, ConstantsOK DEF SInv, TypeOK, AllocHead, Take, ConstantsOK
    <2>2. /\ Len(iov'[c]) = 1 /\ iov'[c][1].addr = b /\ iov'[c][1].size = HeaderSize
        BY <2>1
    <2>3. \A k \in 1..Len(iov'[c]) : iov'[c][k].size <= cap'[iov'[c][k].addr]
        BY <2>1, <2>2
    <2>4. QED  BY <2>1, <2>3 DEF Roomy
<1>2. CASE AllocBlock(c, b)
    <2>1. /\ pc[c] = "alloc" /\ pc'[c] = "copy" /\ cur'[c] = b /\ holder[b] = NoCall
          /\ UNCHANGED <<segSize, req, iov, packed>>
          /\ cap'[b] = BlockSize(c) /\ \A a \in Blocks \ {b} : cap'[a] = cap[a]
        BY <1>2 DEF SInv, TypeOK, AllocBlock, Take
    <2>2. BlockSize(c)' = BlockSize(c)
        BY <2>1 DEF BlockSize, SetCount, Long, Count, Msg
    <2>3. Packing(c) /\ iov[c] \in Seq(Entry) /\ NoCall # c
        BY <2>1, ConstantsOK DEF Packing, SInv, TypeOK, Entry, ConstantsOK
    <2>4. ASSUME NEW k \in 1..Len(iov[c]) PROVE iov[c][k].size <= cap'[iov[c][k].addr]
        <3>1. iov[c][k].addr \in HeldBy(c)
            BY <2>3, ScatterList DEF Hold
        <3>2. QED  BY <2>1, <2>3, <3>1 DEF HeldBy, Roomy
    <2>5. QED  BY <2>1, <2>2, <2>4 DEF Roomy
<1>3. QED  BY <1>1, <1>2

\* A message that memcpy_s copies into a new block fits.
LEMMA CopyMessageFits ==
    ASSUME SInv, SInv', NEW c \in Calls, Roomy(c), CopyMessage(c)
    PROVE  Roomy(c)'
<1> DEFINE e == [addr |-> cur[c], size |-> Msg(c).len]
<1>1. /\ pc[c] = "copy" /\ UNCHANGED <<req, cap, segSize>> /\ Copies(Msg(c), 0)
      /\ iov'[c] = Append(iov[c], e)
      /\ pc'[c] = IF packed[c] + 1 < SetCount(c) THEN "alloc"
                  ELSE IF Long(c) THEN "append" ELSE "post"
    BY DEF SInv, TypeOK, CopyMessage
<1>2. /\ cur[c] \in Blocks /\ iov[c] \in Seq(Entry) /\ packed[c] \in Nat /\ req[c] \in Requests
      /\ packed[c] < SetCount(c) /\ Len(iov[c]) = packed[c] + 1 /\ Packing(c)
    BY <1>1 DEF SInv, TypeOK, Shape, Entry, Packing
<1>3. /\ Msg(c).len \in Nat /\ IovMax \in Nat /\ SetCount(c) \in Nat /\ segSize \in Nat
      /\ Long(c) => SetCount(c) = IovMax - 1
    <2>1. segSize \in Nat
        BY ConstantsOK DEF SInv, TypeOK, ConstantsOK
    <2>2. QED  BY <1>2, <2>1, Counters DEF SInv
<1>4. e \in Entry /\ e.addr = cur[c] /\ e.size = Msg(c).len
    BY <1>2, <1>3 DEF Entry
<1> HIDE DEF e
<1>5. /\ Len(iov'[c]) = Len(iov[c]) + 1 /\ iov'[c][Len(iov[c]) + 1] = e
      /\ \A k \in 1..Len(iov[c]) : iov'[c][k] = iov[c][k]
    <2>1. /\ Len(Append(iov[c], e)) = Len(iov[c]) + 1 /\ Append(iov[c], e)[Len(iov[c]) + 1] = e
          /\ \A k \in 1..Len(iov[c]) : Append(iov[c], e)[k] = iov[c][k]
        BY <1>2, <1>4, AppendProperties
    <2>2. QED  BY <1>1, <2>1
<1>6. Msg(c).len <= BlockSize(c) /\ cap[cur[c]] = BlockSize(c)
    <2>1. Msg(c).len <= segSize
        BY <1>1, <1>3 DEF Copies
    <2>2. QED  BY <1>1, <1>3, <2>1 DEF BlockSize, Roomy
<1>7. ASSUME NEW k \in 1..Len(iov'[c]) PROVE iov'[c][k].size <= cap'[iov'[c][k].addr]
    <2>1. CASE k = Len(iov[c]) + 1
        BY <1>1, <1>4, <1>5, <1>6, <2>1
    <2>2. CASE k \in 1..Len(iov[c])
        BY <1>1, <1>2, <1>5, <2>2 DEF Roomy
    <2>3. QED  BY <1>2, <1>5, <2>1, <2>2
<1>8. ASSUME pc'[c] = "append" PROVE cap'[iov'[c][IovMax].addr] = segSize'
    <2>1. packed[c] = SetCount(c) - 1 /\ IovMax = Len(iov[c]) + 1
        BY <1>1, <1>2, <1>3, <1>8
    <2>2. QED  BY <1>1, <1>4, <1>5, <1>6, <2>1 DEF BlockSize
<1>9. QED  BY <1>1, <1>7, <1>8 DEF Roomy

\* What memcpy_s appends to the last block fits, too: the block is a whole segment.
LEMMA AppendMessageFits ==
    ASSUME SInv, SInv', NEW c \in Calls, Roomy(c), AppendMessage(c)
    PROVE  Roomy(c)'
<1> DEFINE last == iov[c][IovMax]
           e    == [last EXCEPT !.size = @ + Msg(c).len]
<1>1. /\ pc[c] = "append" /\ UNCHANGED <<cap, segSize>> /\ iov'[c] = [iov[c] EXCEPT ![IovMax] = e]
      /\ Copies(Msg(c), last.size) /\ pc'[c] # "copy"
    BY DEF SInv, TypeOK, AppendMessage
<1>2. /\ iov[c] \in Seq(Entry) /\ req[c] \in Requests /\ Packing(c) /\ packed[c] \in Nat
      /\ packed[c] < Count(c) /\ Len(iov[c]) = IovMax /\ IovMax \in Nat \ {0, 1} /\ segSize \in Nat
    BY <1>1, ConstantsOK DEF SInv, TypeOK, Shape, Entry, Packing, ConstantsOK
<1>3. /\ Msg(c).len \in Nat /\ last.size \in Nat /\ e.addr = last.addr
      /\ e.size = last.size + Msg(c).len
    <2>1. Msg(c).len \in Nat
        BY <1>2, Counters DEF SInv
    <2>2. last \in Entry
        BY <1>2, ElementOfSeq
    <2>3. QED  BY <2>1, <2>2 DEF Entry
<1>4. cap[last.addr] = segSize /\ last.size + Msg(c).len <= segSize
    BY <1>1, <1>2, <1>3 DEF Roomy, Copies
<1>5. /\ Len(iov'[c]) = IovMax /\ iov'[c][IovMax] = e
      /\ \A k \in 1..IovMax : k # IovMax => iov'[c][k] = iov[c][k]
    <2> HIDE DEF e
    <2>1. QED  BY <1>1, <1>2
<1> HIDE DEF e
<1>6. ASSUME NEW k \in 1..Len(iov'[c]) PROVE iov'[c][k].size <= cap'[iov'[c][k].addr]
    <2>1. CASE k = IovMax
        BY <1>1, <1>3, <1>4, <1>5, <2>1
    <2>2. CASE k # IovMax
        BY <1>1, <1>2, <1>5, <2>2 DEF Roomy
    <2>3. QED  BY <2>1, <2>2
<1>7. cap'[iov'[c][IovMax].addr] = segSize'
    BY <1>1, <1>3, <1>4, <1>5
<1>8. QED  BY <1>1, <1>6, <1>7 DEF Roomy

\* Every other step fills nothing.
LEMMA RestFits ==
    ASSUME SInv, SInv', NEW c \in Calls, Roomy(c), CallStep(c),
           ~Allocates(c), ~CopyMessage(c), ~AppendMessage(c)
    PROVE  Roomy(c)'
<1>1. CASE PostSync(c) \/ PostAsync(c) \/ Return(c)
    <2>1. /\ UNCHANGED <<iov, cap>> /\ pc'[c] \notin {"copy", "append"}
          /\ Packing(c)' => Packing(c)
        BY <1>1 DEF SInv, TypeOK, PostSync, PostAsync, Return, cbVars, poolVars, Packing
    <2>2. QED  BY <2>1 DEF Roomy
<1>2. CASE ~(PostSync(c) \/ PostAsync(c) \/ Return(c))
    <2>1. ~Packing(c)'
        BY <1>2, NothingPacked DEF CallStep, CallerStep
    <2>2. QED  BY <2>1 DEF Roomy, Packing
<1>3. QED  BY <1>1, <1>2

\* What a call packs has room where it is packed, as long as the segment size stays.
THEOREM RoomInvariance == ASSUME Tame, Steady PROVE Spec => []RInv
<1>1. Init => RInv
    BY DEF Init, RInv, Roomy, Packing
<1>2. HInv /\ HInv' /\ RInv /\ [Next]_vars => RInv'
    <2> SUFFICES ASSUME HInv, HInv', RInv, [Next]_vars, NEW d \in Calls PROVE Roomy(d)'
        BY DEF RInv
    <2>1. /\ SInv /\ SInv' /\ Hold(d) /\ Roomy(d) /\ segSize' = segSize
        BY DEF HInv, RInv, SInv, TypeOK, Steady
    <2>2. CASE CallStep(d)
        BY <2>1, <2>2, AllocMakesRoom, CopyMessageFits, AppendMessageFits, RestFits DEF Allocates
    <2>3. CASE \E c \in Calls \ {d} : CallStep(c)
        BY <2>1, <2>3, OthersUntouched, RoomyKept
    <2>4. CASE OtherServer \/ UNCHANGED vars
        BY <2>1, <2>4, OtherServerUntouched, RoomyKept
    <2>5. QED  BY <2>2, <2>3, <2>4 DEF Next, CallStep
<1>3. QED  BY <1>1, <1>2, ShapeInvariance, HoldInvariance, PTL DEF Spec

\* No copy goes past the end of its block, provided the global segment size stays what it was
\* when the block was allocated.
THEOREM BlocksFit == ASSUME Tame, Steady PROVE Spec => []BlockFits
<1>1. SInv /\ RInv => BlockFits
    <2> SUFFICES ASSUME SInv, RInv, NEW c \in Calls,
                        pc[c] \in {"alloc", "copy", "append", "post", "wait"}, NEW k \in DOMAIN iov[c]
                 PROVE  iov[c][k].size <= cap[iov[c][k].addr]
        BY DEF BlockFits
    <2>1. Packing(c) /\ k \in 1..Len(iov[c])
        BY DEF Packing, SInv, TypeOK
    <2>2. QED  BY <2>1 DEF RInv, Roomy
<1>2. QED  BY <1>1, ShapeInvariance, RoomInvariance, PTL
-----------------------------------------------------------------------------
(***************************************************************************)
(* What is in the blocks.                                                  *)
(***************************************************************************)
\* The last message in the k-th block of the scatter list.
LastIn(c, k) == IF k = Len(iov[c]) THEN packed[c] ELSE k - 1

\* Up to the post the k-th block holds the k-th piece of the request -- the header, a
\* message, or in the last one all messages packed since.
Laid(c) ==
    /\ Packing(c) => \A k \in 1..Len(iov[c]) :
           Holding(c, req[c], mem[iov[c][k].addr], k - 1, LastIn(c, k), iov[c][k].size)
    /\ pc[c] = "append" => packed[c] >= IovMax - 1

LInv == \A c \in Calls : Laid(c)

\* Nothing is written to d's blocks.
Unwritten(d) == \A b \in Blocks : holder[b] = d => mem'[b] = mem[b]

\* A call whose state and blocks stay keeps their content.
LEMMA LaidKept ==
    ASSUME SInv, NEW d \in Calls, Hold(d), Laid(d), SameShape(d), Untouched(d), Unwritten(d)
    PROVE  Laid(d)'
<1>1. /\ Packing(d)' = Packing(d) /\ iov'[d] = iov[d] /\ pc'[d] = pc[d] /\ packed'[d] = packed[d]
      /\ req'[d] = req[d]
    BY DEF Packing, SameShape
<1>2. ASSUME Packing(d), NEW k \in 1..Len(iov[d])
      PROVE  Holding(d, req[d], mem[iov[d][k].addr], k - 1, LastIn(d, k), iov[d][k].size)'
    <2>1. mem'[iov[d][k].addr] = mem[iov[d][k].addr]
        BY <1>2, ListUntouched DEF Unwritten
    <2>2. Holding(d, req[d], mem[iov[d][k].addr], k - 1, LastIn(d, k), iov[d][k].size)
        BY <1>2 DEF Laid
    <2>3. QED  BY <1>1, <2>1, <2>2 DEF LastIn
<1>3. QED  BY <1>1, <1>2 DEF Laid

\* A copy to the beginning of a block.
LEMMA OnePiece ==
    ASSUME NEW c, NEW r, NEW j \in Nat, NEW size \in Nat, Bytes(r, j) = size
    PROVE  Holding(c, r, <<<<c, j, 0>>>>, j, j, size)
<1> DEFINE m == <<<<c, j, 0>>>>
<1>1. Len(m) = 1 /\ m[1] = <<c, j, 0>>
    OBVIOUS
<1>2. m[1][1] = c /\ m[1][2] = j /\ m[1][3] = 0
    BY <1>1
<1> HIDE DEF m
<1>3. Holding(c, r, m, j, j, size)
    BY <1>1, <1>2 DEF Holding
<1>4. QED  BY <1>3 DEF m

\* A copy behind what a block holds.
LEMMA OneMorePiece ==
    ASSUME NEW c \in Calls, NEW r, NEW m \in Seq(Calls \X Nat \X Nat), NEW first \in Nat,
           NEW last \in Nat, NEW size \in Nat, first <= last, Holding(c, r, m, first, last, size),
           NEW n \in Nat, Bytes(r, last + 1) = n
    PROVE  Holding(c, r, Append(m, <<c, last + 1, size>>), first, last + 1, size + n)
<1> DEFINE x == <<c, last + 1, size>>
<1>1. x \in Calls \X Nat \X Nat /\ x[1] = c /\ x[2] = last + 1 /\ x[3] = size
    OBVIOUS
<1> HIDE DEF x
<1>2. PICK w : /\ w = Append(m, x) /\ Len(w) = Len(m) + 1 /\ w[Len(m) + 1] = x
               /\ \A k \in 1..Len(m) : w[k] = m[k]
    <2>1. /\ Append(m, x) \in Seq(Calls \X Nat \X Nat) /\ Len(Append(m, x)) = Len(m) + 1
          /\ Append(m, x)[Len(m) + 1] = x
          /\ \A k \in 1..Len(m) : Append(m, x)[k] = m[k]
        BY <1>1, AppendProperties
    <2>2. QED  BY <2>1, Zenon
<1>3. Len(m) = last - first + 1 /\ Len(m) \in Nat \ {0}
    BY DEF Holding
<1>4. \A k \in 1..Len(m) :
          /\ m[k][1] = c /\ m[k][2] = first + k - 1 /\ (k = 1 => m[k][3] = 0)
          /\ m[k][3] + Bytes(r, first + k - 1) = IF k = Len(m) THEN size ELSE m[k + 1][3]
    BY DEF Holding
<1> DEFINE Fits(k) == /\ w[k][1] = c /\ w[k][2] = first + k - 1 /\ (k = 1 => w[k][3] = 0)
                      /\ w[k][3] + Bytes(r, first + k - 1)
                             = IF k = Len(w) THEN size + n ELSE w[k + 1][3]
<1>5. ASSUME NEW k \in 1..Len(w) PROVE Fits(k)
    <2>1. CASE k = Len(w)
        <3>1. first + k - 1 = last + 1 /\ k # 1 /\ w[k] = x
            BY <1>2, <1>3, <2>1
        <3>2. Bytes(r, first + k - 1) = n
            BY <3>1
        <3>3. w[k][1] = c /\ w[k][2] = first + k - 1 /\ w[k][3] = size
            BY <1>1, <3>1
        <3>4. QED  BY <2>1, <3>1, <3>2, <3>3
    <2>2. CASE k = Len(m)
        <3>1. k \in 1..Len(m) /\ w[k] = m[k] /\ w[k + 1] = x /\ k # Len(w)
            BY <1>2, <1>3, <2>2
        <3>2. w[k + 1][3] = size
            BY <1>1, <3>1
        <3>3. QED  BY <1>4, <2>2, <3>1, <3>2
    <2>3. CASE k \in 1..(Len(m) - 1)
        <3>1. k \in 1..Len(m) /\ k + 1 \in 1..Len(m) /\ k # Len(m) /\ k # Len(w)
            BY <1>2, <1>3, <2>3
        <3>2. w[k] = m[k] /\ w[k + 1] = m[k + 1]
            BY <1>2, <3>1
        <3>3. QED  BY <1>4, <3>1, <3>2
    <2>4. k = Len(w) \/ k = Len(m) \/ k \in 1..(Len(m) - 1)
        BY <1>2, <1>3
    <2>5. QED  BY <2>1, <2>2, <2>3, <2>4
<1>6. Len(w) = (last + 1) - first + 1
    BY <1>2, <1>3
<1>7. Holding(c, r, w, first, last + 1, size + n)
    BY <1>5, <1>6 DEF Holding
<1>8. QED  BY <1>2, <1>7 DEF x

\* The header block holds the message id.
LEMMA AllocHeadLays ==
    ASSUME SInv, SInv', NEW c \in Calls, NEW b \in Blocks, AllocHead(c, b)
    PROVE  Laid(c)'
<1> DEFINE e == [addr |-> b, size |-> HeaderSize]
           m == <<<<c, 0, 0>>>>
<1>1. /\ iov'[c] = <<e>> /\ mem'[b] = m /\ pc'[c] = "alloc" /\ packed'[c] = 0
    BY DEF SInv, TypeOK, Shape, AllocHead
<1>2. HeaderSize \in Nat
    BY ConstantsOK DEF ConstantsOK
<1>3. Holding(c, req[c], m, 0, 0, HeaderSize)'
    BY <1>2, OnePiece DEF Bytes
<1>4. Len(iov'[c]) = 1 /\ iov'[c][1].addr = b /\ iov'[c][1].size = HeaderSize
    BY <1>1
<1> HIDE DEF e, m
<1>5. ASSUME NEW k \in 1..Len(iov'[c])
      PROVE  Holding(c, req[c], mem[iov[c][k].addr], k - 1, LastIn(c, k), iov[c][k].size)'
    <2>1. k = 1 /\ LastIn(c, k)' = 0 /\ k - 1 = 0
        BY <1>1, <1>4 DEF LastIn
    <2>2. QED  BY <1>1, <1>3, <1>4, <2>1
<1>6. QED  BY <1>1, <1>5 DEF Laid

\* A new block is none of the scatter list.
LEMMA AllocBlockLays ==
    ASSUME SInv, SInv', NEW c \in Calls, Hold(c), Laid(c), NEW b \in Blocks, AllocBlock(c, b)
    PROVE  Laid(c)'
<1>1. /\ pc[c] = "alloc" /\ pc'[c] = "copy" /\ holder[b] = NoCall /\ UNCHANGED <<req, iov, packed>>
      /\ \A a \in Blocks \ {b} : mem'[a] = mem[a]
    BY DEF SInv, TypeOK, AllocBlock, Take
<1>2. Packing(c) /\ iov[c] \in Seq(Entry) /\ NoCall # c
    BY <1>1, ConstantsOK DEF Packing, SInv, TypeOK, Entry, ConstantsOK
<1>3. ASSUME NEW k \in 1..Len(iov[c])
      PROVE  Holding(c, req[c], mem[iov[c][k].addr], k - 1, LastIn(c, k), iov[c][k].size)'
    <2>1. iov[c][k].addr \in HeldBy(c)
        BY <1>2, ScatterList DEF Hold
    <2>2. mem'[iov[c][k].addr] = mem[iov[c][k].addr]
        BY <1>1, <1>2, <2>1 DEF HeldBy
    <2>3. Holding(c, req[c], mem[iov[c][k].addr], k - 1, LastIn(c, k), iov[c][k].size)
        BY <1>2 DEF Laid
    <2>4. QED  BY <1>1, <2>2, <2>3 DEF LastIn
<1>4. QED  BY <1>1, <1>3 DEF Laid

\* The block in hand gets its message and becomes the last of the scatter list.
LEMMA CopyMessageLays ==
    ASSUME SInv, SInv', NEW c \in Calls, Hold(c), Laid(c), CopyMessage(c)
    PROVE  Laid(c)'
<1> DEFINE e == [addr |-> cur[c], size |-> Msg(c).len]
           m == <<<<c, packed[c] + 1, 0>>>>
<1>1. /\ pc[c] = "copy" /\ UNCHANGED req /\ packed'[c] = packed[c] + 1
      /\ iov'[c] = Append(iov[c], e)
      /\ pc'[c] = IF packed[c] + 1 < SetCount(c) THEN "alloc"
                  ELSE IF Long(c) THEN "append" ELSE "post"
    BY DEF SInv, TypeOK, CopyMessage
<1>2. /\ cur[c] \in Blocks /\ iov[c] \in Seq(Entry) /\ packed[c] \in Nat /\ req[c] \in Requests
      /\ packed[c] < SetCount(c) /\ Len(iov[c]) = packed[c] + 1 /\ Packing(c)
    BY <1>1 DEF SInv, TypeOK, Shape, Entry, Packing
<1>3. /\ Msg(c).len \in Nat /\ IovMax \in Nat /\ SetCount(c) \in Nat
      /\ Long(c) => SetCount(c) = IovMax - 1
    BY <1>2, Counters DEF SInv
<1>4. /\ cur[c] \notin Listed(Addrs(iov[c])) /\ e \in Entry /\ e.addr = cur[c] /\ e.size = Msg(c).len
    BY <1>1, <1>2, <1>3 DEF Hold, InHand, Entry
<1>5. mem'[cur[c]] = m /\ \A a \in Blocks \ {cur[c]} : mem'[a] = mem[a]
    BY <1>2 DEF SInv, TypeOK, CopyMessage
<1> HIDE DEF e
<1>6. /\ Len(iov'[c]) = Len(iov[c]) + 1 /\ iov'[c][Len(iov[c]) + 1] = e
      /\ \A k \in 1..Len(iov[c]) : iov'[c][k] = iov[c][k]
    <2>1. /\ Len(Append(iov[c], e)) = Len(iov[c]) + 1 /\ Append(iov[c], e)[Len(iov[c]) + 1] = e
          /\ \A k \in 1..Len(iov[c]) : Append(iov[c], e)[k] = iov[c][k]
        BY <1>2, <1>4, AppendProperties
    <2>2. QED  BY <1>1, <2>1
<1>7. Holding(c, req[c], m, packed[c] + 1, packed[c] + 1, Msg(c).len)
    <2>1. Bytes(req[c], packed[c] + 1) = Msg(c).len /\ packed[c] + 1 \in Nat
        BY <1>2 DEF Bytes, Msg
    <2>2. QED  BY <1>3, <2>1, OnePiece
<1> HIDE DEF m
<1>8. ASSUME NEW k \in 1..Len(iov'[c])
      PROVE  Holding(c, req[c], mem[iov[c][k].addr], k - 1, LastIn(c, k), iov[c][k].size)'
    <2>1. CASE k = Len(iov[c]) + 1
        <3>1. k - 1 = packed[c] + 1 /\ LastIn(c, k)' = packed[c] + 1 /\ iov'[c][k] = e
            BY <1>1, <1>2, <1>6, <2>1 DEF LastIn
        <3>2. mem'[iov'[c][k].addr] = m /\ iov'[c][k].size = Msg(c).len
            BY <1>4, <1>5, <3>1
        <3>3. QED  BY <1>1, <1>7, <3>1, <3>2
    <2>2. CASE k \in 1..Len(iov[c])
        <3>1. iov'[c][k] = iov[c][k] /\ LastIn(c, k)' = k - 1 /\ LastIn(c, k) = k - 1
            BY <1>2, <1>6, <2>2 DEF LastIn
        <3>2. iov[c][k].addr \in Blocks \ {cur[c]}
            BY <1>2, <1>4, <2>2, ScatterList
        <3>3. mem'[iov[c][k].addr] = mem[iov[c][k].addr]
            BY <1>5, <3>2
        <3>4. Holding(c, req[c], mem[iov[c][k].addr], k - 1, LastIn(c, k), iov[c][k].size)
            BY <1>2, <2>2 DEF Laid
        <3>5. QED  BY <1>1, <3>1, <3>3, <3>4
    <2>3. QED  BY <1>2, <1>6, <2>1, <2>2
<1>9. pc'[c] = "append" => packed'[c] >= IovMax - 1
    BY <1>1, <1>2, <1>3
<1>10. QED  BY <1>8, <1>9 DEF Laid

\* The last block gets one more message, behind what it holds.
LEMMA AppendMessageLays ==
    ASSUME SInv, SInv', NEW c \in Calls, Hold(c), Laid(c), AppendMessage(c)
    PROVE  Laid(c)'
<1> DEFINE last == iov[c][IovMax]
           e    == [last EXCEPT !.size = @ + Msg(c).len]
           x    == <<c, packed[c] + 1, last.size>>
<1>1. /\ pc[c] = "append" /\ UNCHANGED req /\ packed'[c] = packed[c] + 1
      /\ iov'[c] = [iov[c] EXCEPT ![IovMax] = e]
      /\ mem' = [mem EXCEPT ![last.addr] = Append(mem[last.addr], x)]
    BY DEF SInv, TypeOK, AppendMessage
<1>2. /\ iov[c] \in Seq(Entry) /\ packed[c] \in Nat /\ req[c] \in Requests /\ Packing(c)
      /\ packed[c] < Count(c) /\ Len(iov[c]) = IovMax /\ IovMax \in Nat \ {0, 1}
      /\ packed[c] >= IovMax - 1
    BY <1>1, ConstantsOK DEF SInv, TypeOK, Shape, Entry, Packing, ConstantsOK, Laid
<1>3. /\ Msg(c).len \in Nat /\ last \in Entry /\ last.addr \in Blocks /\ last.size \in Nat
      /\ e.addr = last.addr /\ e.size = last.size + Msg(c).len
    <2>1. Msg(c).len \in Nat
        BY <1>2, Counters DEF SInv
    <2>2. last \in Entry
        BY <1>2, ElementOfSeq
    <2>3. QED  BY <2>1, <2>2 DEF Entry
<1>4. /\ mem[last.addr] \in Seq(Calls \X Nat \X Nat)
      /\ mem'[last.addr] = Append(mem[last.addr], x)
      /\ \A a \in Blocks \ {last.addr} : mem'[a] = mem[a]
    BY <1>1, <1>3 DEF SInv, TypeOK
<1>5. Holding(c, req[c], Append(mem[last.addr], x), IovMax - 1, packed[c] + 1, last.size + Msg(c).len)
    <2>1. IovMax \in 1..Len(iov[c]) /\ LastIn(c, IovMax) = packed[c]
        BY <1>2 DEF LastIn
    <2>2. Holding(c, req[c], mem[last.addr], IovMax - 1, packed[c], last.size)
        BY <1>2, <2>1 DEF Laid
    <2>3. Bytes(req[c], packed[c] + 1) = Msg(c).len
        BY <1>2 DEF Bytes, Msg
    <2>4. IovMax - 1 \in Nat /\ IovMax - 1 <= packed[c]
        BY <1>2
    <2> HIDE DEF last
    <2>5. QED  BY <1>2, <1>3, <1>4, <2>2, <2>3, <2>4, OneMorePiece
<1>6. /\ Len(iov'[c]) = IovMax /\ iov'[c][IovMax] = e
      /\ \A k \in 1..IovMax : k # IovMax => iov'[c][k] = iov[c][k]
    <2> HIDE DEF e
    <2>1. QED  BY <1>1, <1>2
<1> HIDE DEF e, x
<1>7. ASSUME NEW k \in 1..Len(iov'[c])
      PROVE  Holding(c, req[c], mem[iov[c][k].addr], k - 1, LastIn(c, k), iov[c][k].size)'
    <2>1. CASE k = IovMax
        <3>1. LastIn(c, k)' = packed[c] + 1 /\ iov'[c][k] = e
            BY <1>1, <1>6, <2>1 DEF LastIn
        <3>2. mem'[iov'[c][k].addr] = Append(mem[last.addr], x)
            BY <1>3, <1>4, <3>1
        <3>3. iov'[c][k].size = last.size + Msg(c).len
            BY <1>3, <3>1
        <3>4. QED  BY <1>1, <1>5, <2>1, <3>1, <3>2, <3>3
    <2>2. CASE k # IovMax
        <3>1. /\ k \in 1..Len(iov[c]) /\ iov'[c][k] = iov[c][k]
              /\ LastIn(c, k)' = k - 1 /\ LastIn(c, k) = k - 1
            BY <1>2, <1>6, <2>2 DEF LastIn
        <3>2. iov[c][k].addr # last.addr /\ iov[c][k].addr \in Blocks
            <4>1. Once(Addrs(iov[c])) /\ IovMax \in 1..Len(iov[c])
                BY <1>2 DEF Hold
            <4>2. QED  BY <1>2, <2>2, <3>1, <4>1, ScatterList, SMTT(20) DEF Once
        <3>3. mem'[iov[c][k].addr] = mem[iov[c][k].addr]
            BY <1>4, <3>2
        <3>4. Holding(c, req[c], mem[iov[c][k].addr], k - 1, LastIn(c, k), iov[c][k].size)
            BY <1>2, <3>1 DEF Laid
        <3>5. QED  BY <1>1, <3>1, <3>3, <3>4
    <2>3. QED  BY <2>1, <2>2
<1>8. packed'[c] >= IovMax - 1
    BY <1>1, <1>2
<1>9. QED  BY <1>7, <1>8 DEF Laid

\* Posting copies nothing.
LEMMA PostLays ==
    ASSUME SInv, SInv', NEW c \in Calls, Laid(c),
           PostSync(c) \/ PostAsync(c) \/ Return(c)
    PROVE  Laid(c)'
<1>1. /\ UNCHANGED <<req, iov, packed, mem>> /\ pc'[c] # "append" /\ (Packing(c)' => Packing(c))
    BY DEF SInv, TypeOK, PostSync, PostAsync, Return, cbVars, poolVars, Packing
<1>2. QED  BY <1>1 DEF Laid, LastIn

\* A step of a call that is packing lays its messages down one behind the other.
LEMMA StepLays ==
    ASSUME SInv, SInv', NEW c \in Calls, Hold(c), Laid(c), CallStep(c)
    PROVE  Laid(c)'
<1>1. CASE Allocates(c) \/ CopyMessage(c) \/ AppendMessage(c)
    BY <1>1, AllocHeadLays, AllocBlockLays, CopyMessageLays, AppendMessageLays DEF Allocates
<1>2. CASE PostSync(c) \/ PostAsync(c) \/ Return(c)
    BY <1>2, PostLays
<1>3. CASE \/ \E r \in Requests : Start(c, r)
           \/ AllocFails(c) \/ CopyFails(c) \/ PostAsyncFails(c) \/ CallerFree(c)
           \/ TransportStep(c)
    BY <1>3, NothingPacked DEF Laid
<1>4. QED  BY <1>1, <1>2, <1>3 DEF CallStep, CallerStep

\* A copy that is refused clears nothing: the blocks in question are whole segments.
LEMMA RefusedClearsNothing ==
    ASSUME Filled, Steady, SInv, NEW c \in Calls, Hold(c), Roomy(c), CopyFails(c)
    PROVE  mem' = mem
<1>1. /\ pc[c] = "append" /\ Clears(iov[c][IovMax].addr, iov[c][IovMax].size)
      /\ cap[iov[c][IovMax].addr] = segSize
    BY CopySucceeds DEF CopyFails, Roomy
<1>2. segSize \in Nat /\ mem \in [Blocks -> Seq(Calls \X Nat \X Nat)]
    BY ConstantsOK DEF SInv, TypeOK, ConstantsOK
<1>3. mem' = [a \in Blocks |-> mem[a]]
    BY <1>1, <1>2 DEF Clears
<1>4. QED  BY <1>2, <1>3

\* A call writes to blocks that nobody has yet, or to its own.
LEMMA OthersUnwritten ==
    ASSUME Filled, Steady, SInv, NEW c \in Calls, Hold(c), Roomy(c), CallStep(c),
           NEW d \in Calls \ {c}
    PROVE  Unwritten(d)
<1>1. /\ mem \in [Blocks -> Seq(Calls \X Nat \X Nat)] /\ NoCall \notin Calls
      /\ holder \in [Blocks -> Calls \cup {NoCall}]
    BY ConstantsOK DEF SInv, TypeOK, ConstantsOK
<1>2. CASE Allocates(c)
    <2>1. PICK b \in Blocks : AllocHead(c, b) \/ AllocBlock(c, b)
        BY <1>2 DEF Allocates
    <2>2. holder[b] = NoCall /\ \E m : mem' = [mem EXCEPT ![b] = m]
        BY <2>1 DEF AllocHead, AllocBlock, Take
    <2>3. QED  BY <1>1, <2>2 DEF Unwritten
<1>3. CASE CopyMessage(c)
    <2>1. holder[cur[c]] = c /\ \E m : mem' = [mem EXCEPT ![cur[c]] = m]
        BY <1>3 DEF CopyMessage, Hold, Packing, InHand, HeldBy
    <2>2. QED  BY <1>1, <2>1 DEF Unwritten
<1>4. CASE AppendMessage(c)
    <2>1. pc[c] = "append" /\ \E m : mem' = [mem EXCEPT ![iov[c][IovMax].addr] = m]
        BY <1>4 DEF AppendMessage
    <2>2. /\ iov[c] \in Seq(Entry) /\ IovMax \in 1..Len(iov[c])
          /\ Listed(Addrs(iov[c])) \subseteq HeldBy(c)
        <3>1. iov[c] \in Seq(Entry)
            BY DEF SInv, TypeOK, Entry
        <3>2. IovMax \in 1..Len(iov[c])
            BY <2>1, ConstantsOK DEF SInv, Shape, ConstantsOK
        <3>3. Listed(Addrs(iov[c])) \subseteq HeldBy(c)
            BY <2>1 DEF Hold, Packing
        <3>4. QED  BY <3>1, <3>2, <3>3
    <2>3. holder[iov[c][IovMax].addr] = c
        BY <2>2, ScatterList DEF HeldBy
    <2>4. QED  BY <1>1, <2>1, <2>3 DEF Unwritten
<1>5. CASE CopyFails(c)
    BY <1>5, RefusedClearsNothing DEF Unwritten
<1>6. CASE \/ \E r \in Requests : Start(c, r)
           \/ AllocFails(c) \/ PostSync(c) \/ PostAsync(c) \/ PostAsyncFails(c)
           \/ CallerFree(c) \/ Return(c) \/ TransportStep(c)
    <2>1. mem' = mem
        BY <1>6 DEF Start, AllocFails, PostSync, PostAsync, PostAsyncFails, CallerFree, Return,
            TransportStep, SyncDone, CallbackStarts, CallbackGetResultFails, CallbackFree,
            CallbackNotify, poolVars
    <2>2. QED  BY <2>1 DEF Unwritten
<1>7. QED  BY <1>2, <1>3, <1>4, <1>5, <1>6 DEF CallStep, CallerStep

\* What is packed for a call stays there for the transport to read, as long as no copy of
\* another call is refused that would clear more than its block.
THEOREM LayInvariance == ASSUME Filled, Steady PROVE Spec => []LInv
<1>1. Tame
    BY DEF Tame
<1>2. Init => LInv
    BY DEF Init, LInv, Laid, Packing
<1>3. HInv /\ HInv' /\ RInv /\ LInv /\ [Next]_vars => LInv'
    <2> SUFFICES ASSUME HInv, HInv', RInv, LInv, [Next]_vars, NEW d \in Calls PROVE Laid(d)'
        BY DEF LInv
    <2>1. SInv /\ SInv' /\ Hold(d) /\ Laid(d)
        BY DEF HInv, LInv
    <2>2. CASE CallStep(d)
        BY <2>1, <2>2, StepLays
    <2>3. CASE \E c \in Calls \ {d} : CallStep(c)
        <3>1. PICK c \in Calls \ {d} : CallStep(c)
            BY <2>3
        <3>2. Hold(c) /\ Roomy(c)
            BY <3>1 DEF HInv, RInv
        <3>3. Unwritten(d)
            BY <2>1, <3>1, <3>2, OthersUnwritten
        <3>4. QED  BY <1>1, <2>1, <3>1, <3>3, OthersUntouched, LaidKept
    <2>4. CASE OtherServer \/ UNCHANGED vars
        BY <2>1, <2>4, OtherServerUntouched, LaidKept DEF Unwritten
    <2>5. QED  BY <2>2, <2>3, <2>4 DEF Next, CallStep
<1>4. QED  BY <1>1, <1>2, <1>3, HoldInvariance, RoomInvariance, PTL DEF Spec

\* Whatever the other calls do, the blocks the transport may read belong to the call and
\* hold the header and the user's messages, each once and in order, provided every message
\* of every call has data and the segment size stays.
THEOREM InFlightStaysIntact == ASSUME Filled, Steady PROVE Spec => []InFlightIntact
<1>1. HInv /\ LInv => InFlightIntact
    <2> SUFFICES ASSUME HInv, LInv, NEW c \in Calls, InFlight(c)
                 PROVE  /\ iov[c] # <<>>
                        /\ \A k \in 1..Len(iov[c]) :
                              /\ holder[iov[c][k].addr] = c
                              /\ Holding(c, req[c], mem[iov[c][k].addr], k - 1,
                                         IF k = Len(iov[c]) THEN Count(c) ELSE k - 1, iov[c][k].size)
        BY DEF InFlightIntact
    <2>1. Packing(c) /\ iov[c] # <<>> /\ packed[c] = Count(c)
        BY DEF InFlight, Packing, HInv, SInv, Shape
    <2>2. ASSUME NEW k \in 1..Len(iov[c])
          PROVE  /\ holder[iov[c][k].addr] = c
                 /\ Holding(c, req[c], mem[iov[c][k].addr], k - 1, LastIn(c, k), iov[c][k].size)
        <3>1. iov[c] \in Seq(Entry)
            BY DEF HInv, SInv, TypeOK, Entry
        <3>2. iov[c][k].addr \in HeldBy(c)
            BY <2>1, <3>1, ScatterList DEF HInv, Hold
        <3>3. QED  BY <2>1, <3>2 DEF HeldBy, LInv, Laid
    <2>3. QED  BY <2>1, <2>2 DEF LastIn
<1>2. Tame
    BY DEF Tame
<1>3. QED  BY <1>1, <1>2, HoldInvariance, LayInvariance, PTL
=============================================================================
