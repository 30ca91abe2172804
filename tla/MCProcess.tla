----------------------------- MODULE MCProcess ------------------------------
(***************************************************************************)
(* What the process has once, checked together.  The four areas share no   *)
(* variable, so each behaviour follows one of them.                        *)
(***************************************************************************)
EXTENDS Startup, Timeouts, TlsCallbacks, MemorySizing

CONSTANTS t1, t2, h1, c1, c2, s1, s2, p1

MCThreads == {t1, t2}
MCHandlers == {h1}
MCFollowed == Elements(Calls) \cup {"contextClone"}
MCUsed == {"OckRpcCloneCtx"}
MCChannels == {c1, c2}
MCMilliseconds == {-1, 3, 11, 17}
MCTlsServers == {s1, s2}
MCPlainServers == {p1}
MCClients == {c1}
MCSizes == {-1, 0, 1, 3, 4, 5, 16, 32, 40, 41, 300, NotGiven, NotNumber}
MCCounts == {-1, 0, 1, 8, 13, 16, 20, 21, NotGiven, NotNumber}
Symmetry == Permutations(MCThreads)

VARIABLE area
areas == <<vars, timeoutVars, tlsVars, sizingVars>>

MCInit == /\ area \in {"startup", "timeouts", "tls", "sizing"}
          /\ Init /\ (area # "startup" => missing = {})
          /\ TimeoutsInit /\ TlsInit /\ SizingInit

MCNext == /\ \/ area = "startup" /\ Next /\ UNCHANGED <<timeoutVars, tlsVars, sizingVars>>
             \/ area = "timeouts" /\ TimeoutsNext /\ UNCHANGED <<vars, tlsVars, sizingVars>>
             \/ area = "tls" /\ TlsNext /\ UNCHANGED <<vars, timeoutVars, sizingVars>>
             \/ area = "sizing" /\ SizingNext /\ UNCHANGED <<vars, timeoutVars, tlsVars>>
          /\ UNCHANGED area

MCSpec == MCInit /\ [][MCNext]_<<areas, area>>
=============================================================================
