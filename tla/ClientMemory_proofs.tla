------------------------ MODULE ClientMemory_proofs -------------------------
(***************************************************************************)
(* The properties of ClientMemory, for any number of clients, sets of      *)
(* memory and calls, where users wait for their calls before they          *)
(* disconnect (Quiescent).  What makes them inductive is how the two maps  *)
(* look at each point of a client's life, and that no two clients have the *)
(* same set of memory.                                                     *)
(***************************************************************************)
EXTENDS ClientMemory, TLAPS

\* Nothing is left in the maps, or only the null entry of a refused call.
Nothing(c) == allocator[c] = Absent /\ region[c] = Absent
Refused(c) == allocator[c] = Null /\ region[c] = Absent

\* What a Connect has made for c, in whole, and what a Disconnect has left of it so far:
\* the allocator, too, if its destruction was refused.
Whole(m) == m \in Sets /\ stage[m] = "ok" /\ has[m] = Parts
Partly(m, parts) == m \in Sets /\ \/ stage[m] = "ok" /\ has[m] = parts
                                  \/ stage[m] = "stuck" /\ has[m] = parts \cup {"allocator"}

\* How the maps look for a client, depending on where it is in its life.
Shape(c) ==
    /\ link[c] \in {"none", "close"} => Nothing(c)
    /\ link[c] \in {"plain", "half"} => Nothing(c) \/ Refused(c)
    /\ link[c] = "addAllocator" => Nothing(c) /\ Whole(given[c])
    /\ link[c] = "addRegion" => region[c] = Absent /\ Whole(given[c]) /\ allocator[c] = given[c]
    /\ link[c] = "up" => Whole(region[c]) /\ allocator[c] = region[c]
    /\ link[c] = "eraseAllocator" =>
           Refused(c) \/ (Partly(region[c], Parts \ {"allocator"}) /\ allocator[c] = region[c])
    /\ link[c] = "freeRegion" =>
           Nothing(c) \/ (Partly(region[c], Parts \ {"allocator"}) /\ allocator[c] = Absent)
    /\ link[c] = "eraseRegion" => Partly(region[c], {}) /\ allocator[c] = Absent
    /\ link[c] \notin {"addAllocator", "addRegion"} => given[c] = Absent

\* No set of memory belongs to two clients.
Owns(c, m) == m \in {region[c], given[c]}
Unshared == \A c, d \in Clients, m \in Sets : Owns(c, m) /\ Owns(d, m) => c = d

\* A set nobody owns is as a failed or a finished connection has left it.
Orphans == \A m \in Sets : (\A c \in Clients : ~Owns(c, m)) => has[m] = Residue(m)

\* Whoever has a call in progress is connected, with the memory the call started with.
InProgress == \A x \in Calls : owner[x] # Absent =>
                  link[owner[x]] = "up" /\ block[x] = allocator[owner[x]]

IInv == TypeOK /\ (\A c \in Clients : Shape(c)) /\ Unshared /\ Orphans /\ InProgress
-----------------------------------------------------------------------------
(***************************************************************************)
(* One lemma per action.                                                   *)
(***************************************************************************)
\* What a client owns was made by a Connect that went all the way.
LEMMA Owned ==
  ASSUME IInv, NEW c \in Clients, NEW m \in Sets, Owns(c, m)
  PROVE  stage[m] \in {"ok", "stuck"}
<1>1. link[c] \in Links /\ Shape(c)
  BY DEF IInv, TypeOK
<1> QED
  BY <1>1, ConstantsOK DEF Shape, Whole, Partly, Refused, Nothing, Links, Owns

\* What an action leaves alone of a client and of the set that the client owns.
LEMMA ShapeKept ==
  ASSUME IInv, NEW d \in Clients,
         link'[d] = link[d], allocator'[d] = allocator[d],
         region'[d] = region[d], given'[d] = given[d],
         \A m \in Sets : Owns(d, m) => has'[m] = has[m] /\ stage'[m] = stage[m]
  PROVE  Shape(d)'
<1>1. Shape(d) /\ link[d] \in Links
  BY DEF IInv, TypeOK
<1>2. ASSUME NEW m, m = region[d] \/ m = given[d]
      PROVE  /\ Whole(m) => Whole(m)'
             /\ \A parts : Partly(m, parts) => Partly(m, parts)'
  BY <1>2 DEF Whole, Partly, Owns
<1> QED
  BY <1>1, <1>2 DEF Shape, Nothing, Refused

\* A refused call leaves a null entry, which only a client without memory has.
LEMMA PostFailsOK == ASSUME IInv, NEW c \in Clients, PostFails(c) PROVE IInv'
<1>1. /\ link[c] \in {"plain", "half"} /\ region[c] = Absent /\ given[c] = Absent
      /\ allocator' = [allocator EXCEPT ![c] = Null]
      /\ UNCHANGED <<link, region, given, has, stage, owner, block>>
  <2>1. link[c] # "up"
    BY ConstantsOK DEF PostFails, Entry, Shape, Whole, IInv
  <2>2. link[c] \in {"plain", "half"}
    BY <2>1 DEF PostFails
  <2> QED
    BY <2>2 DEF PostFails, Looked, Shape, Refused, Nothing, IInv
<1> USE DEF IInv, TypeOK
<1>2. TypeOK'
  BY <1>1
<1>3. ASSUME NEW d \in Clients \ {c} PROVE Shape(d)'
  BY <1>1, ShapeKept
<1>4. Shape(c)'
  BY <1>1 DEF Shape, Refused
<1>5. Unshared' /\ Orphans'
  BY <1>1 DEF Unshared, Orphans, Owns, Residue, Made
<1>6. InProgress'
  BY <1>1 DEF InProgress
<1> QED
  BY <1>2, <1>3, <1>4, <1>5, <1>6

\* A client comes without memory, or with what a failing Connect has left nobody.
LEMMA ConnectWithoutOK ==
  ASSUME IInv, NEW c \in Clients,
         \/ \E l \in {"plain", "half"} : ConnectPlain(c, l)
         \/ \E m \in Sets, s \in Parts : ConnectFails(c, m, s)
  PROVE  IInv'
<1>1. /\ link[c] = "none" /\ Nothing(c) /\ given[c] = Absent /\ ~Busy(c)
      /\ \E l \in {"plain", "half"} : link' = [link EXCEPT ![c] = l]
      /\ UNCHANGED <<allocator, region, given, owner, block>>
  BY DEF ConnectPlain, ConnectFails, Shape, IInv
<1>2. \/ UNCHANGED <<has, stage>>
      \/ \E m \in Sets, s \in Parts : /\ stage[m] = "unused"
                                      /\ has' = [has EXCEPT ![m] = Made(s)]
                                      /\ stage' = [stage EXCEPT ![m] = s]
  BY DEF ConnectPlain, ConnectFails
<1>3. \A s \in Parts : /\ Made(s) \in SUBSET Parts /\ s \in Stages
                       /\ s \notin {"unused", "ok", "stuck"}
  BY DEF Made, Parts, Stages
<1> USE DEF IInv, TypeOK
<1>4. TypeOK'
  BY <1>1, <1>2, <1>3 DEF Links
<1>5. ASSUME NEW d \in Clients \ {c} PROVE Shape(d)'
  <2>1. \A m \in Sets : Owns(d, m) => has'[m] = has[m] /\ stage'[m] = stage[m]
    BY <1>2, Owned
  <2> QED
    BY <1>1, <2>1, ShapeKept
<1>6. Shape(c)'
  BY <1>1 DEF Shape, Nothing
<1>7. Unshared'
  BY <1>1 DEF Unshared, Owns
<1>8. Orphans'
  <2> SUFFICES ASSUME NEW m \in Sets, \A d \in Clients : ~Owns(d, m)
               PROVE  has'[m] = Residue(m)'
    BY <1>1 DEF Orphans, Owns
  <2>1. has[m] = Residue(m)
    BY DEF Orphans
  <2>2. CASE has'[m] = has[m] /\ stage'[m] = stage[m]
    BY <2>1, <2>2 DEF Residue, Made
  <2>3. CASE \E s \in Parts : has'[m] = Made(s) /\ stage'[m] = s
    BY <1>3, <2>3 DEF Residue, Made
  <2> QED
    BY <1>2, <2>2, <2>3
<1>9. InProgress'
  BY <1>1 DEF InProgress, Busy
<1> QED
  BY <1>4, <1>5, <1>6, <1>7, <1>8, <1>9

\* A set no client owns is given to a client with empty entries.
LEMMA ConnectOK == ASSUME IInv, NEW c \in Clients, NEW m \in Sets, Connect(c, m) PROVE IInv'
<1>1. /\ link[c] = "none" /\ Nothing(c) /\ given[c] = Absent /\ ~Busy(c) /\ stage[m] = "unused"
      /\ link' = [link EXCEPT ![c] = "addAllocator"] /\ given' = [given EXCEPT ![c] = m]
      /\ has' = [has EXCEPT ![m] = Parts] /\ stage' = [stage EXCEPT ![m] = "ok"]
      /\ UNCHANGED <<allocator, region, owner, block>>
  BY DEF Connect, Shape, Nothing, IInv
<1>2. \A d \in Clients : ~Owns(d, m)
  BY <1>1, Owned
<1> USE DEF IInv, TypeOK
<1>3. TypeOK'
  BY <1>1 DEF Links, Stages
<1>4. ASSUME NEW d \in Clients \ {c} PROVE Shape(d)'
  BY <1>1, <1>2, ShapeKept
<1>5. Shape(c)'
  BY <1>1 DEF Shape, Nothing, Whole
<1>6. Unshared'
  BY <1>1, <1>2, ConstantsOK DEF Unshared, Owns
<1>7. Orphans'
  <2> SUFFICES ASSUME NEW n \in Sets, \A d \in Clients : ~Owns(d, n)'
               PROVE  has'[n] = Residue(n)'
    BY DEF Orphans
  <2>1. n # m
    BY <1>1 DEF Owns
  <2>2. \A d \in Clients : ~Owns(d, n)
    BY <1>1, ConstantsOK DEF Owns, Nothing
  <2>3. Residue(n)' = Residue(n) /\ has'[n] = has[n]
    BY <1>1, <2>1 DEF Residue, Made
  <2> QED
    BY <2>2, <2>3 DEF Orphans
<1>8. InProgress'
  BY <1>1 DEF InProgress, Busy
<1> QED
  BY <1>3, <1>4, <1>5, <1>6, <1>7, <1>8

\* What was given to a client is entered in one map, then in the other.
LEMMA AddOK ==
  ASSUME IInv, NEW c \in Clients, AddAllocator(c) \/ AddRegion(c)
  PROVE  IInv'
<1>1. /\ link[c] \in {"addAllocator", "addRegion"} /\ Shape(c) /\ Whole(given[c])
      /\ UNCHANGED <<has, stage, owner, block>>
      /\ \A d \in Clients \ {c} : /\ link'[d] = link[d] /\ allocator'[d] = allocator[d]
                                  /\ region'[d] = region[d] /\ given'[d] = given[d]
  BY DEF AddAllocator, AddRegion, Shape, IInv, TypeOK
<1>2. \A m \in Sets : Owns(c, m)' <=> Owns(c, m)
  BY ConstantsOK DEF AddAllocator, AddRegion, Shape, Nothing, Owns, IInv, TypeOK
<1>3. \A d \in Clients, m \in Sets : Owns(d, m)' <=> Owns(d, m)
  BY <1>1, <1>2 DEF Owns
<1> USE DEF IInv, TypeOK
<1>4. TypeOK'
  BY DEF AddAllocator, AddRegion, Links
<1>5. ASSUME NEW d \in Clients \ {c} PROVE Shape(d)'
  BY <1>1, ShapeKept
<1>6. Shape(c)'
  BY <1>1, ConstantsOK DEF AddAllocator, AddRegion, Shape, Nothing, Whole
<1>7. Unshared'
  BY <1>3 DEF Unshared
<1>8. Orphans'
  BY <1>1, <1>3 DEF Orphans, Residue, Made
<1>9. InProgress'
  BY <1>1 DEF InProgress
<1> QED
  BY <1>4, <1>5, <1>6, <1>7, <1>8, <1>9
-----------------------------------------------------------------------------
\* The allocator of a connected client goes, or there is none, or it stays for good.
LEMMA DestroyAllocatorOK ==
  ASSUME IInv, Quiescent, NEW c \in Clients, DestroyAllocator(c) \/ DestroyFails(c)
  PROVE  IInv'
<1>1. /\ link[c] \in {"up", "plain", "half"} /\ ~Busy(c) /\ Shape(c) /\ given[c] = Absent
      /\ link' = [link EXCEPT ![c] = IF allocator[c] = Absent THEN "freeRegion"
                                                              ELSE "eraseAllocator"]
      /\ UNCHANGED <<allocator, region, given, owner, block>>
  BY ConstantsOK DEF DestroyAllocator, DestroyFails, Shape, IInv
<1>2. allocator[c] \in Sets => link[c] = "up" /\ allocator[c] = region[c] /\ Whole(region[c])
  BY <1>1, ConstantsOK DEF Shape, Refused, Nothing
<1>3. /\ \A m \in Sets : m # allocator[c] => has'[m] = has[m] /\ stage'[m] = stage[m]
      /\ allocator[c] \in Sets => Partly(allocator[c], Parts \ {"allocator"})'
  BY <1>2 DEF DestroyAllocator, DestroyFails, Whole, Partly, Parts, IInv, TypeOK
<1> USE DEF IInv, TypeOK
<1>4. TypeOK'
  BY <1>1 DEF DestroyAllocator, DestroyFails, Links, Stages
<1>5. ASSUME NEW d \in Clients \ {c} PROVE Shape(d)'
  <2>1. \A m \in Sets : Owns(d, m) => m # allocator[c]
    BY <1>2 DEF Unshared, Owns
  <2> QED
    BY <1>1, <1>3, <2>1, ShapeKept
<1>6. Shape(c)'
  BY <1>1, <1>2, <1>3, ConstantsOK DEF Shape, Refused, Nothing
<1>7. Unshared'
  BY <1>1 DEF Unshared, Owns
<1>8. Orphans'
  <2> SUFFICES ASSUME NEW m \in Sets, \A d \in Clients : ~Owns(d, m)
               PROVE  has'[m] = Residue(m)'
    BY <1>1 DEF Orphans, Owns
  <2>1. has'[m] = has[m] /\ stage'[m] = stage[m]
    BY <1>2, <1>3 DEF Owns
  <2> QED
    BY <2>1 DEF Orphans, Residue, Made
<1>9. InProgress'
  BY <1>1 DEF InProgress, Busy
<1> QED
  BY <1>4, <1>5, <1>6, <1>7, <1>8, <1>9

\* The buffer and the registration of a client go, or there are none.
LEMMA FreeRegionOK == ASSUME IInv, NEW c \in Clients, FreeRegion(c) PROVE IInv'
<1>1. /\ link[c] = "freeRegion" /\ Shape(c)
      /\ has' = [m \in Sets |-> IF m = region[c] THEN has[m] \ {"buffer", "region"} ELSE has[m]]
      /\ link' = [link EXCEPT ![c] = IF region[c] = Absent THEN "close" ELSE "eraseRegion"]
      /\ UNCHANGED <<allocator, region, given, stage, owner, block>>
  BY DEF FreeRegion, IInv
<1>2. region[c] # Absent => Partly(region[c], {})'
  BY <1>1 DEF Shape, Nothing, Partly, Parts
<1> USE DEF IInv, TypeOK
<1>3. TypeOK'
  BY <1>1 DEF Links
<1>4. ASSUME NEW d \in Clients \ {c} PROVE Shape(d)'
  <2>1. \A m \in Sets : Owns(d, m) => m # region[c]
    BY DEF Unshared, Owns
  <2> QED
    BY <1>1, <2>1, ShapeKept
<1>5. Shape(c)'
  BY <1>1, <1>2, ConstantsOK DEF Shape, Nothing
<1>6. Unshared'
  BY <1>1 DEF Unshared, Owns
<1>7. Orphans'
  <2> SUFFICES ASSUME NEW m \in Sets, \A d \in Clients : ~Owns(d, m)
               PROVE  has'[m] = Residue(m)
    BY <1>1 DEF Orphans, Owns, Residue, Made
  <2> QED
    BY <1>1 DEF Orphans, Owns
<1>8. InProgress'
  BY <1>1 DEF InProgress
<1> QED
  BY <1>3, <1>4, <1>5, <1>6, <1>7, <1>8

\* An entry is erased once Disconnect is done with what it named; at last the connection
\* is closed.
LEMMA EraseOK ==
  ASSUME IInv, NEW c \in Clients, EraseAllocator(c) \/ EraseRegion(c) \/ Close(c)
  PROVE  IInv'
<1>1. /\ link[c] \in {"eraseAllocator", "eraseRegion", "close"} /\ Shape(c) /\ given[c] = Absent
      /\ UNCHANGED <<given, has, stage, owner, block>>
      /\ \A d \in Clients \ {c} : /\ link'[d] = link[d] /\ allocator'[d] = allocator[d]
                                  /\ region'[d] = region[d]
      /\ region'[c] \in {region[c], Absent}
  BY DEF EraseAllocator, EraseRegion, Close, Shape, IInv, TypeOK
<1> USE DEF IInv, TypeOK
<1>2. TypeOK'
  BY DEF EraseAllocator, EraseRegion, Close, Links
<1>3. ASSUME NEW d \in Clients \ {c} PROVE Shape(d)'
  BY <1>1, ShapeKept
<1>4. Shape(c)'
  BY <1>1, ConstantsOK DEF EraseAllocator, EraseRegion, Close, Shape, Partly, Refused, Nothing
<1>5. Unshared'
  BY <1>1, ConstantsOK DEF Unshared, Owns
<1>6. Orphans'
  <2> SUFFICES ASSUME NEW m \in Sets, \A d \in Clients : ~Owns(d, m)'
               PROVE  has[m] = Residue(m)
    BY <1>1 DEF Orphans, Residue, Made
  <2>1. CASE region[c] = m
    <3>1. link[c] = "eraseRegion"
      BY <2>1 DEF EraseAllocator, EraseRegion, Close, Owns
    <3> QED
      BY <1>1, <2>1, <3>1 DEF Shape, Partly, Residue, Parts
  <2>2. CASE region[c] # m
    BY <1>1, <2>2, ConstantsOK DEF Orphans, Owns
  <2> QED
    BY <2>1, <2>2
<1>7. InProgress'
  BY <1>1 DEF InProgress
<1> QED
  BY <1>2, <1>3, <1>4, <1>5, <1>6, <1>7

\* A call starts on a connected client; its callback finds the client as it was.
LEMMA CallOK ==
  ASSUME IInv, NEW x \in Calls, Callback(x) \/ \E c \in Clients : Post(x, c)
  PROVE  IInv'
<1> USE DEF IInv, TypeOK
<1>1. UNCHANGED <<link, allocator, region, given, has, stage>>
  <2>1. CASE Callback(x)
    <3>1. PICK c \in Clients : c = owner[x] /\ link[c] = "up"
      BY <2>1 DEF Callback, InProgress
    <3>2. allocator[c] # Absent
      BY <3>1, ConstantsOK DEF Shape, Whole
    <3> QED
      BY <2>1, <3>1, <3>2 DEF Callback, Looked, Entry
  <2> QED
    BY <2>1 DEF Post
<1>2. /\ owner' \in [Calls -> Clients \cup {Absent}] /\ block' \in [Calls -> Sets \cup {Absent}]
      /\ \A y \in Calls \ {x} : owner'[y] = owner[y] /\ block'[y] = block[y]
  BY DEF Callback, Post, Entry
<1>3. owner'[x] # Absent => link[owner'[x]] = "up" /\ block'[x] = allocator[owner'[x]]
  <2>1. ASSUME NEW c \in Clients, Post(x, c)
        PROVE  link[c] = "up" /\ block'[x] = allocator[c] /\ owner'[x] = c
    BY <2>1, ConstantsOK DEF Post, Entry, Shape, Refused, Nothing
  <2> QED
    BY <2>1 DEF Callback
<1>4. TypeOK'
  BY <1>1, <1>2
<1>5. InProgress'
  BY <1>1, <1>2, <1>3 DEF InProgress
<1>6. \A d \in Clients : Shape(d)'
  BY <1>1, ShapeKept
<1>7. Unshared'
  BY <1>1 DEF Unshared, Owns
<1>8. Orphans'
  BY <1>1 DEF Orphans, Owns, Residue, Made
<1> QED
  BY <1>4, <1>5, <1>6, <1>7, <1>8
-----------------------------------------------------------------------------
LEMMA InitOK == Init => IInv
  BY ConstantsOK DEF Init, IInv, TypeOK, Links, Stages, Parts, Shape, Refused, Nothing, Unshared,
     Owns, Orphans, Residue, InProgress

LEMMA NextOK == ASSUME Quiescent PROVE IInv /\ [Next]_vars => IInv'
<1> SUFFICES ASSUME IInv, [Next]_vars PROVE IInv'
  OBVIOUS
<1>1. CASE UNCHANGED vars
  <2>1. UNCHANGED <<link, allocator, region, given, has, stage, owner, block>>
    BY <1>1 DEF vars
  <2>2. TypeOK' /\ Unshared' /\ InProgress'
    BY <2>1 DEF IInv, TypeOK, Unshared, Owns, InProgress
  <2>3. \A c \in Clients : Shape(c)'
    BY <2>1, ShapeKept
  <2>4. Orphans'
    BY <2>1 DEF IInv, Orphans, Owns, Residue, Made
  <2> QED
    BY <2>2, <2>3, <2>4 DEF IInv
<1>2. CASE Next
  BY <1>2, PostFailsOK, ConnectWithoutOK, ConnectOK, AddOK, DestroyAllocatorOK, FreeRegionOK,
     EraseOK, CallOK DEF Next
<1> QED
  BY <1>1, <1>2

\* The maps, the memory and the calls at every moment, if nobody disconnects a client with
\* calls in progress.
THEOREM Invariance == ASSUME Quiescent PROVE Spec => []IInv
  BY InitOK, NextOK, PTL DEF Spec

\* The callback of a call frees its blocks into the allocator they came from, and the
\* transport reads them from a buffer that is registered.
THEOREM CallsBacked == ASSUME Quiescent PROVE Spec => []CallsAreBacked
<1>1. IInv => CallsAreBacked
  <2> SUFFICES ASSUME IInv, NEW x \in Calls, owner[x] # Absent
               PROVE  allocator[owner[x]] = block[x] /\ has[block[x]] = Parts
    BY DEF CallsAreBacked
  <2>1. owner[x] \in Clients /\ link[owner[x]] = "up" /\ block[x] = allocator[owner[x]]
    BY DEF IInv, TypeOK, InProgress
  <2> QED
    BY <2>1 DEF IInv, Shape, Whole
<1> QED
  BY <1>1, Invariance, PTL

\* g_memoryAllocator and g_memoryRegion never lead a client to different memory, or to memory
\* that OckRpcClientDisconnect has already taken away.
THEOREM MapsTogether == ASSUME Quiescent PROVE Spec => []MapsAgree
<1>1. IInv => MapsAgree
  <2> SUFFICES ASSUME IInv, NEW c \in Clients
               PROVE  /\ {allocator[c], region[c]} \subseteq Sets => allocator[c] = region[c]
                      /\ allocator[c] \in Sets /\ link[c] # "eraseAllocator"
                           => "allocator" \in has[allocator[c]]
                      /\ region[c] \in Sets /\ link[c] # "eraseRegion"
                           => {"buffer", "region"} \subseteq has[region[c]]
    BY DEF MapsAgree
  <2>1. link[c] \in Links /\ Shape(c)
    BY DEF IInv, TypeOK
  <2> QED
    BY <2>1, ConstantsOK DEF Shape, Whole, Partly, Refused, Nothing, Links, Parts
<1> QED
  BY <1>1, Invariance, PTL

\* What a failed OckRpcClientConnectWithCfg has made, and an allocator that libhcom refused
\* to destroy in OckRpcClientDisconnect, is all that is ever left behind.
THEOREM LeftBehind == ASSUME Quiescent PROVE Spec => []LeftoversExplained
<1>1. IInv => LeftoversExplained
  <2> SUFFICES ASSUME IInv, NEW m \in Sets,
                      \A c \in Clients : m \notin {allocator[c], region[c], given[c]}
               PROVE  has[m] = Residue(m)
    BY DEF LeftoversExplained
  <2> QED
    BY DEF IInv, Orphans, Owns
<1> QED
  BY <1>1, Invariance, PTL

\* A client that OckRpcClientConnectWithCfg gave memory finds it under its handle, however
\* often the handle was in use before.
THEOREM UsableOnceConnected == ASSUME Quiescent PROVE Spec => []ConnectedUsable
<1>1. IInv => ConnectedUsable
  BY DEF IInv, Shape, Whole, ConnectedUsable
<1> QED
  BY <1>1, Invariance, PTL

\* Variables keep their types.
THEOREM TypeCorrect == ASSUME Quiescent PROVE Spec => []TypeOK
<1>1. IInv => TypeOK
  BY DEF IInv
<1> QED
  BY <1>1, Invariance, PTL
=============================================================================
