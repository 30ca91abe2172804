--------------------------- MODULE MCMsgDispatch ----------------------------
(***************************************************************************)
(* Two workers and a user thread; id 1 is the limit.                       *)
(***************************************************************************)
EXTENDS MsgDispatch
=============================================================================
