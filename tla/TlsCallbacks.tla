---------------------------- MODULE TlsCallbacks ----------------------------
(***************************************************************************)
(* The certificate callbacks.  Every server that is created with TLS       *)
(* brings three functions of its user; they are kept in one g_tlsFunc for  *)
(* the process, written one by one, and libhcom is given wrappers that     *)
(* call whatever is there when a server needs its identity.  The function  *)
(* that gives the passphrase of the private key also names the one that    *)
(* has to erase it; it is kept in g_tlsFunc too.  The destruction of any   *)
(* server clears them all.                                                 *)
(*                                                                         *)
(* A function is named by the server it came with.  Creations,             *)
(* destructions and the threads of libhcom that read the identity of a     *)
(* server run side by side.                                                *)
(***************************************************************************)
CONSTANTS TlsServers,    \* the servers that are created with TLS, each once
          PlainServers,  \* those that are created without
          NoServer

ASSUME TlsConstantsOK == /\ NoServer \notin TlsServers \cup PlainServers
                         /\ TlsServers \cap PlainServers = {}

Fields == {"getCaAndVerify", "getCert", "getPriKey"}
AnyServer == TlsServers \cup PlainServers
Owner  == TlsServers \cup {NoServer}

VARIABLES
    tlsFunc,    \* g_tlsFunc: whose functions are in its fields
    eraser,     \* g_tlsFunc.eraseKeyPass
    tls,        \* where each server is in its life
    identity,   \* identity[s][f] : whose answer s was given by the function f
    erased,     \* whose eraser was called for the passphrase of s
    crashed,    \* the server for which a null function was called; the process is gone
    changed     \* history: the servers since whose creation another one touched g_tlsFunc

tlsVars == <<tlsFunc, eraser, tls, identity, erased, crashed, changed>>

NoFunctions == [f \in Fields |-> NoServer]

TlsTypeOK ==
    /\ tlsFunc \in [Fields -> Owner] /\ eraser \in Owner
    /\ tls \in [AnyServer -> {"none", "ca", "cert", "up", "asking", "holding", "erased",
                              "stopped", "gone"}]
    /\ identity \in [AnyServer -> [Fields -> Owner]]
    /\ erased \in [AnyServer -> Owner]
    /\ crashed \in Owner /\ changed \in SUBSET AnyServer

TlsInit ==
    /\ tlsFunc = NoFunctions /\ eraser = NoServer
    /\ tls = [s \in AnyServer |-> "none"]
    /\ identity = [s \in AnyServer |-> NoFunctions]
    /\ erased = [s \in AnyServer |-> NoServer]
    /\ crashed = NoServer /\ changed = {}

Moves(s, a, b) == tls[s] = a /\ tls' = [tls EXCEPT ![s] = b]
Touches(s)     == changed' = changed \cup {u \in AnyServer \ {s} : tls[u] # "none"}
-----------------------------------------------------------------------------
(***************************************************************************)
(* The end of OckRpcServerCreateWithCfg.                                   *)
(***************************************************************************)
\* One of three assignments; with the last one the wrappers are registered.
SetFunction(s, a, f, b) ==
    /\ s \in TlsServers /\ Moves(s, a, b)
    /\ tlsFunc' = [tlsFunc EXCEPT ![f] = s]
    /\ Touches(s)
    /\ UNCHANGED <<eraser, identity, erased, crashed>>

OckRpcSetTlsConfigs(s) == \/ SetFunction(s, "none", "getCaAndVerify", "ca")
                          \/ SetFunction(s, "ca", "getCert", "cert")
                          \/ SetFunction(s, "cert", "getPriKey", "up")

CreatePlain(s) ==
    /\ s \in PlainServers /\ Moves(s, "none", "up")
    /\ UNCHANGED <<tlsFunc, eraser, identity, erased, crashed, changed>>

\* An option is invalid, or one of the three functions is null: the server is destroyed.
OptionFails(s) ==
    /\ Moves(s, "none", "stopped")
    /\ UNCHANGED <<tlsFunc, eraser, identity, erased, crashed, changed>>
-----------------------------------------------------------------------------
(***************************************************************************)
(* The wrappers, called by libhcom for a server that is up.                *)
(***************************************************************************)
\* A call through a field of g_tlsFunc, which may be null.
Reaches(s, f) == IF tlsFunc[f] = NoServer
                 THEN crashed' = s /\ UNCHANGED identity
                 ELSE identity' = [identity EXCEPT ![s][f] = tlsFunc[f]] /\ UNCHANGED crashed

\* OckRpcTlsGetCACb and OckRpcTlsGetCertCb.
GetCert(s, f) ==
    /\ s \in TlsServers /\ tls[s] \in {"up", "asking", "holding", "erased"}
    /\ f # "getPriKey" /\ identity[s][f] = NoServer
    /\ Reaches(s, f)
    /\ UNCHANGED <<tlsFunc, eraser, tls, erased, changed>>

GetPrivateKey(s) ==
    /\ s \in TlsServers /\ Moves(s, "up", "asking")
    /\ Reaches(s, "getPriKey")
    /\ UNCHANGED <<tlsFunc, eraser, erased, changed>>

\* Variant: the user's function is given a local variable for the eraser.
PrivateKeyGiven_local(s) ==
    /\ Moves(s, "asking", "holding")
    /\ UNCHANGED <<tlsFunc, eraser, identity, erased, crashed, changed>>

\* The user's function answers; it writes the eraser into g_tlsFunc.
PrivateKeyGiven(s) ==
    /\ Moves(s, "asking", "holding")
    /\ eraser' = identity[s]["getPriKey"]
    /\ Touches(identity[s]["getPriKey"])
    /\ UNCHANGED <<tlsFunc, identity, erased, crashed>>

OckRpcTlsKeypassEraseCb(s) ==
    /\ Moves(s, "holding", "erased")
    /\ erased' = [erased EXCEPT ![s] = eraser]
    /\ crashed' = IF eraser = NoServer THEN s ELSE crashed
    /\ UNCHANGED <<tlsFunc, eraser, identity, changed>>
-----------------------------------------------------------------------------
(***************************************************************************)
(* OckRpcServerDestroy: the server is stopped; g_tlsFunc is cleared later, *)
(* outside the lock.                                                       *)
(***************************************************************************)
Stop(s) ==
    /\ \E a \in {"up", "holding", "erased"} : Moves(s, a, "stopped")
    /\ UNCHANGED <<tlsFunc, eraser, identity, erased, crashed, changed>>

Reset(s) ==
    /\ Moves(s, "stopped", "gone")
    /\ tlsFunc' = NoFunctions /\ eraser' = NoServer
    /\ Touches(s)
    /\ UNCHANGED <<identity, erased, crashed>>

TlsNext ==
    /\ crashed = NoServer
    /\ \E s \in AnyServer :
         \/ OckRpcSetTlsConfigs(s) \/ CreatePlain(s) \/ OptionFails(s)
         \/ (\E f \in Fields : GetCert(s, f)) \/ GetPrivateKey(s) \/ PrivateKeyGiven(s)
         \/ OckRpcTlsKeypassEraseCb(s) \/ Stop(s) \/ Reset(s)

TlsSpec == TlsInit /\ [][TlsNext]_tlsVars
-----------------------------------------------------------------------------
\* Unless another server was created with TLS or destroyed since its own creation began, or
\* such a server's function has still named its eraser since, a server identifies itself with
\* what its own functions gave, its passphrase is erased by the eraser that came with it,
\* and none of these calls goes through a null pointer.
TlsIsOwn ==
    /\ \A s \in TlsServers \ changed :
          /\ \A f \in Fields : identity[s][f] \in {s, NoServer}
          /\ erased[s] \in {s, NoServer}
    /\ crashed # NoServer => crashed \in changed
=============================================================================
