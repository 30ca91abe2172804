---------------------------- MODULE MCAsyncCall -----------------------------
(***************************************************************************)
(* Two operations of any kind, with and without done and response.         *)
(***************************************************************************)
EXTENDS AsyncCall

\* Rendezvous calls need a response, one-sided operations and replies have none.
AllRequests == {r \in [kind : Kinds, done : BOOLEAN, rsp : BOOLEAN] :
                    /\ r.kind = "rndv" => r.rsp
                    /\ r.kind \in {"oneSide", "reply"} => ~r.rsp}
Replies     == {r \in AllRequests : r.kind = "reply"}
=============================================================================
