----------------------------- MODULE MCSglCall ------------------------------
(***************************************************************************)
(* Two invocations of OckRpcClientCallWithParam for TLC.  A message is as  *)
(* long as its number of cells; a segment holds two.                       *)
(***************************************************************************)
EXTENDS SglCallProps, TLC

CONSTANTS c1, c2

Data(n) == [len |-> n, null |-> FALSE]
Ones(n) == [k \in 1..n |-> Data(1)]

\* One block per message; messages appended to the last block; and one message more than
\* that block has room for.
Short == [msgs |-> <<Data(1), Data(2)>>, async |-> FALSE, rsp |-> TRUE]
Four  == [msgs |-> Ones(4), async |-> TRUE, rsp |-> TRUE]
Five  == [msgs |-> Ones(5), async |-> TRUE, rsp |-> FALSE]
\* Two messages, the second without data.
Hole  == [msgs |-> <<Data(1), [len |-> 1, null |-> TRUE]>>, async |-> FALSE, rsp |-> FALSE]
\* One message, asynchronous.
One   == [msgs |-> <<Data(2)>>, async |-> TRUE, rsp |-> TRUE]

RequestsClean == {Short, Four, Five}
RequestsAny   == {One, Four, Hole}
RequestsHole  == {One, Hole}
RequestsOne   == {One}

TwoThreads == (c1 :> 1) @@ (c2 :> 2)
OneThread  == (c1 :> 1) @@ (c2 :> 1)
SegTwo       == {2}
SegTwoOrNone == {0, 2}
BlockSymmetry == Permutations(Blocks)
=============================================================================
