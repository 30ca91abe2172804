-------------------------- MODULE Settings_proofs ---------------------------
(***************************************************************************)
(* What users set, with nothing lost between it and what libhcom is given: *)
(* the certificate callbacks (TlsIsOwn), the timeouts (TimeoutKept) and    *)
(* the memory of a client (MemoryAsAsked).  The three areas share nothing; *)
(* each has its invariant.                                                 *)
(***************************************************************************)
EXTENDS TlsCallbacks, Timeouts, MemorySizing, TLAPS, WellFoundedInduction

(***************************************************************************)
(* The certificate callbacks.  The property is about what has been given;  *)
(* what makes it inductive is whose functions are in g_tlsFunc at each     *)
(* point of a server's life.                                               *)
(***************************************************************************)
Life == {"none", "ca", "cert", "up", "asking", "holding", "erased", "stopped", "gone"}

\* The fields that s has written, depending on how far it is.
Written(f) == CASE f = "getCaAndVerify" -> {"ca", "cert", "up", "asking", "holding", "erased"}
                [] f = "getCert"        -> {"cert", "up", "asking", "holding", "erased"}
                [] f = "getPriKey"      -> {"up", "asking", "holding", "erased"}

\* An undisturbed server finds its functions in g_tlsFunc, and its eraser while it needs it.
Own(s) == /\ \A f \in Fields : /\ identity[s][f] \in {s, NoServer}
                               /\ tls[s] \in Written(f) => tlsFunc[f] = s
          /\ tls[s] = "asking" => identity[s]["getPriKey"] = s
          /\ tls[s] = "holding" => eraser = s
          /\ erased[s] \in {s, NoServer}

\* libhcom asks nothing for a server without TLS.
Silent == \A s \in PlainServers : tls[s] \in {"none", "up", "stopped", "gone"}

TlsInv == /\ TlsTypeOK /\ Silent
          /\ \A s \in TlsServers \ changed : Own(s)
          /\ crashed # NoServer => crashed \in changed

\* Whoever is not changed now has not been disturbed by the step of s.
LEMMA Undisturbed ==
  ASSUME NEW s, Touches(s), NEW u \in AnyServer \ {s}, u \notin changed'
  PROVE  u \notin changed /\ tls[u] = "none"
  BY DEF Touches

LEMMA InitOwn == TlsInit => TlsInv
<1> SUFFICES ASSUME TlsInit PROVE TlsInv
  OBVIOUS
<1>1. TlsTypeOK
  BY DEF TlsInit, TlsTypeOK, NoFunctions, Owner
<1>2. ASSUME NEW s \in TlsServers PROVE Own(s)
  BY DEF TlsInit, Own, Written, NoFunctions, Fields, AnyServer
<1>3. Silent
  BY DEF Silent, TlsInit, AnyServer
<1> QED
  BY <1>1, <1>2, <1>3 DEF TlsInv, TlsInit

\* An assignment of a creation, or the end of a destruction: everybody else is disturbed.
LEMMA WritesKept ==
  ASSUME TlsInv, NEW s \in AnyServer, OckRpcSetTlsConfigs(s) \/ Reset(s)
  PROVE  TlsInv'
<1> USE DEF Moves
<1>1. /\ Touches(s) /\ UNCHANGED <<identity, erased, crashed>>
      /\ \A u \in AnyServer \ {s} : tls'[u] = tls[u]
  BY DEF OckRpcSetTlsConfigs, SetFunction, Reset, TlsInv, TlsTypeOK
<1>2. TlsTypeOK'
  BY <1>1 DEF OckRpcSetTlsConfigs, SetFunction, Reset, NoFunctions, Touches, TlsInv, TlsTypeOK,
     Fields, Owner, AnyServer
<1>3. ASSUME NEW u \in TlsServers \ {s}, u \notin changed' PROVE Own(u)'
  <2>1. u \notin changed /\ tls[u] = "none" /\ tls'[u] = "none"
    BY <1>1, <1>3, Undisturbed DEF AnyServer
  <2> QED
    BY <1>1, <2>1 DEF TlsInv, Own, Written, Fields
<1>4. ASSUME s \in TlsServers, s \notin changed' PROVE Own(s)'
  <2>1. Own(s)
    BY <1>1, <1>4 DEF TlsInv, Touches
  <2>2. CASE Reset(s)
    <3>1. tls'[s] = "gone"
      BY <2>2 DEF Reset, TlsInv, TlsTypeOK
    <3> QED
      BY <1>1, <2>1, <3>1 DEF Own, Written, Fields
  <2>3. CASE OckRpcSetTlsConfigs(s)
    BY <1>1, <2>1, <2>3 DEF OckRpcSetTlsConfigs, SetFunction, Own, Written, Fields, TlsInv,
       TlsTypeOK
  <2> QED
    BY <2>2, <2>3
<1>5. Silent'
  <2>1. s \in TlsServers \/ tls'[s] = "gone"
    BY DEF OckRpcSetTlsConfigs, SetFunction, Reset, TlsInv, TlsTypeOK
  <2> QED
    BY <1>1, <2>1, TlsConstantsOK DEF TlsInv, Silent, AnyServer
<1> QED
  BY <1>1, <1>2, <1>3, <1>4, <1>5 DEF TlsInv, Touches

\* Steps in the life of one server that write nothing of g_tlsFunc.
LEMMA LifeKept ==
  ASSUME TlsInv, NEW s \in AnyServer, CreatePlain(s) \/ OptionFails(s) \/ Stop(s)
  PROVE  TlsInv'
<1> USE DEF Moves
<1>1. /\ UNCHANGED <<tlsFunc, eraser, identity, erased, crashed, changed>>
      /\ \A u \in AnyServer \ {s} : tls'[u] = tls[u]
      /\ tls' \in [AnyServer -> Life]
      /\ s \in TlsServers => tls'[s] = "stopped"
      /\ tls'[s] \in {"up", "stopped"}
  BY TlsConstantsOK DEF CreatePlain, OptionFails, Stop, TlsInv, TlsTypeOK, Life
<1>2. TlsTypeOK'
  BY <1>1 DEF TlsInv, TlsTypeOK, Life
<1>3. ASSUME NEW u \in TlsServers \ changed PROVE Own(u)'
  <2>1. Own(u) /\ u \in AnyServer
    BY DEF TlsInv, AnyServer
  <2> QED
    BY <1>1, <2>1 DEF Own, Written, Fields
<1>4. Silent'
  BY <1>1 DEF TlsInv, Silent, AnyServer
<1> QED
  BY <1>1, <1>2, <1>3, <1>4 DEF TlsInv

\* A server that is undisturbed is given its own certificates and its own key.
LEMMA AskKept ==
  ASSUME TlsInv, NEW s \in AnyServer, crashed = NoServer,
         GetPrivateKey(s) \/ \E f \in Fields : GetCert(s, f)
  PROVE  TlsInv'
<1> USE DEF Moves
<1>1. PICK f \in Fields :
         /\ Reaches(s, f) /\ s \in TlsServers /\ tls[s] \in Written(f)
         /\ \/ tls' = tls /\ f # "getPriKey"
            \/ tls' = [tls EXCEPT ![s] = "asking"] /\ tls[s] = "up" /\ f = "getPriKey"
  BY DEF GetPrivateKey, GetCert, Fields, Written
<1>2. UNCHANGED <<tlsFunc, eraser, erased, changed>>
  BY DEF GetPrivateKey, GetCert
<1>3. /\ identity' \in [AnyServer -> [Fields -> Owner]] /\ crashed' \in Owner
      /\ \A u \in AnyServer \ {s} : identity'[u] = identity[u]
      /\ \A e \in Fields \ {f} : identity'[s][e] = identity[s][e]
      /\ crashed' \in {NoServer, s}
  BY <1>1 DEF Reaches, TlsInv, TlsTypeOK, Owner
<1>4. TlsTypeOK'
  BY <1>1, <1>2, <1>3 DEF TlsInv, TlsTypeOK
<1>5. ASSUME NEW u \in TlsServers \ changed, u # s PROVE Own(u)'
  <2>1. Own(u) /\ u \in AnyServer
    BY DEF TlsInv, AnyServer
  <2> QED
    BY <1>1, <1>2, <1>3, <1>5, <2>1 DEF Own, TlsInv, TlsTypeOK
<1>6. ASSUME s \notin changed PROVE Own(s)' /\ crashed' = NoServer
  <2>0. Own(s)
    BY <1>1, <1>6 DEF TlsInv
  <2>1. Own(s) /\ tlsFunc[f] = s /\ s # NoServer
    BY <1>1, <2>0, TlsConstantsOK DEF Own
  <2>2. crashed' = NoServer /\ identity'[s][f] = s
    BY <1>1, <2>1 DEF Reaches, TlsInv, TlsTypeOK
  <2> QED
    BY <1>1, <1>2, <1>3, <2>1, <2>2 DEF Own, Written, Fields, TlsInv, TlsTypeOK
<1>7. Silent'
  BY <1>1, TlsConstantsOK DEF TlsInv, TlsTypeOK, Silent, AnyServer
<1> QED
  BY <1>1, <1>2, <1>3, <1>4, <1>5, <1>6, <1>7 DEF TlsInv

\* The passphrase is given, and with it the eraser.
LEMMA GivenKept ==
  ASSUME TlsInv, NEW s \in AnyServer, PrivateKeyGiven(s)
  PROVE  TlsInv'
<1> DEFINE o == identity[s]["getPriKey"]
<1> USE DEF Moves
<1>1. /\ tls[s] = "asking" /\ tls'[s] = "holding" /\ eraser' = o /\ Touches(o)
      /\ \A u \in AnyServer \ {s} : tls'[u] = tls[u]
      /\ UNCHANGED <<tlsFunc, identity, erased, crashed>> /\ o \in Owner
      /\ tls' \in [AnyServer -> Life]
  BY DEF PrivateKeyGiven, TlsInv, TlsTypeOK, Life, Fields
<1>2. TlsTypeOK'
  BY <1>1 DEF TlsInv, TlsTypeOK, Touches, Life
<1>3. changed \subseteq changed'
  BY <1>1 DEF Touches
<1>4. ASSUME NEW u \in TlsServers, u \notin changed' PROVE Own(u)'
  <2>1. Own(u) /\ u \in AnyServer
    BY <1>3, <1>4 DEF TlsInv, AnyServer
  <2>2. CASE u = s
    BY <1>1, <1>4, <2>1, <2>2 DEF Own, Written, Fields
  <2>3. CASE u # s /\ u = o
    BY <1>1, <2>1, <2>3 DEF Own, Written, Fields
  <2>4. CASE u # s /\ u # o
    <3>1. tls[u] = "none"
      BY <1>1, <1>4, <2>1, <2>4 DEF Touches
    <3> QED
      BY <1>1, <2>1, <2>4, <3>1 DEF Own, Written, Fields
  <2> QED
    BY <2>2, <2>3, <2>4
<1>5. Silent'
  BY <1>1, TlsConstantsOK DEF TlsInv, Silent, AnyServer
<1> QED
  BY <1>1, <1>2, <1>3, <1>4, <1>5 DEF TlsInv

\* The passphrase is erased.
LEMMA EraseKept ==
  ASSUME TlsInv, NEW s \in AnyServer, crashed = NoServer, OckRpcTlsKeypassEraseCb(s)
  PROVE  TlsInv'
<1> USE DEF Moves
<1>1. /\ tls[s] = "holding" /\ tls'[s] = "erased" /\ erased'[s] = eraser
      /\ \A u \in AnyServer \ {s} : tls'[u] = tls[u] /\ erased'[u] = erased[u]
      /\ UNCHANGED <<tlsFunc, eraser, identity, changed>>
      /\ crashed' = (IF eraser = NoServer THEN s ELSE crashed)
  BY DEF OckRpcTlsKeypassEraseCb, TlsInv, TlsTypeOK
<1>2. s \in TlsServers
  BY <1>1 DEF TlsInv, Silent, AnyServer
<1>3. TlsTypeOK'
  <2>1. tls' \in [AnyServer -> Life] /\ erased' \in [AnyServer -> Owner]
    BY DEF OckRpcTlsKeypassEraseCb, TlsInv, TlsTypeOK, Life
  <2>2. crashed' \in Owner
    BY <1>1, <1>2 DEF TlsInv, TlsTypeOK, Owner
  <2> QED
    BY <1>1, <2>1, <2>2 DEF TlsInv, TlsTypeOK, Life
<1>4. ASSUME NEW u \in TlsServers \ changed PROVE Own(u)'
  <2>1. Own(u) /\ u \in AnyServer
    BY DEF TlsInv, AnyServer
  <2> QED
    BY <1>1, <2>1 DEF Own, Written, Fields
<1>5. ASSUME s \notin changed PROVE crashed' = NoServer
  <2>1. Own(s)
    BY <1>2, <1>5 DEF TlsInv
  <2> QED
    BY <1>1, <1>2, <2>1, TlsConstantsOK DEF Own
<1>6. Silent'
  BY <1>1, <1>2, TlsConstantsOK DEF TlsInv, Silent, AnyServer
<1>7. crashed' \in {NoServer, s}
  BY <1>1
<1> QED
  BY <1>1, <1>3, <1>4, <1>5, <1>6, <1>7 DEF TlsInv

LEMMA NothingKept == TlsInv /\ UNCHANGED tlsVars => TlsInv'
<1> SUFFICES ASSUME TlsInv, UNCHANGED tlsVars PROVE TlsInv'
  OBVIOUS
<1>1. UNCHANGED <<tlsFunc, eraser, tls, identity, erased, crashed, changed>>
  BY DEF tlsVars
<1> QED
  BY <1>1 DEF TlsInv, TlsTypeOK, Silent, Own

\* One step of a creation, of a destruction or of a thread of libhcom.
LEMMA TlsKept == TlsInv /\ [TlsNext]_tlsVars => TlsInv'
<1> SUFFICES ASSUME TlsInv, [TlsNext]_tlsVars PROVE TlsInv'
  OBVIOUS
<1>1. CASE UNCHANGED tlsVars
  BY <1>1, NothingKept
<1>2. CASE TlsNext
  <2>1. crashed = NoServer
    BY <1>2 DEF TlsNext
  <2>2. PICK s \in AnyServer :
          \/ OckRpcSetTlsConfigs(s) \/ CreatePlain(s) \/ OptionFails(s)
          \/ (\E f \in Fields : GetCert(s, f)) \/ GetPrivateKey(s) \/ PrivateKeyGiven(s)
          \/ OckRpcTlsKeypassEraseCb(s) \/ Stop(s) \/ Reset(s)
    BY <1>2 DEF TlsNext
  <2>3. CASE OckRpcSetTlsConfigs(s) \/ Reset(s)
    BY <2>3, WritesKept
  <2>4. CASE CreatePlain(s) \/ OptionFails(s) \/ Stop(s)
    BY <2>4, LifeKept
  <2>5. CASE GetPrivateKey(s) \/ \E f \in Fields : GetCert(s, f)
    BY <2>1, <2>5, AskKept
  <2>6. CASE PrivateKeyGiven(s)
    BY <2>6, GivenKept
  <2>7. CASE OckRpcTlsKeypassEraseCb(s)
    BY <2>1, <2>7, EraseKept
  <2> QED
    BY <2>2, <2>3, <2>4, <2>5, <2>6, <2>7
<1> QED
  BY <1>1, <1>2

\* A server that nobody has disturbed identifies itself with what its own functions gave, has
\* its passphrase erased by its own eraser, and never makes a call through a null pointer:
\* OckRpcTlsGetCACb and the other wrappers, for any number of servers.
THEOREM OwnIdentity == TlsSpec => []TlsIsOwn
<1>1. TlsInv => TlsIsOwn
  BY DEF TlsInv, Own, TlsIsOwn
<1> QED
  BY InitOwn, TlsKept, <1>1, PTL DEF TlsSpec

\* The variables of the certificate callbacks keep their types.
THEOREM TlsTypeCorrect == TlsSpec => []TlsTypeOK
<1>1. TlsInv => TlsTypeOK
  BY DEF TlsInv
<1> QED
  BY InitOwn, TlsKept, <1>1, PTL DEF TlsSpec
-----------------------------------------------------------------------------
(***************************************************************************)
(* OckRpcClientSetTimeout.                                                 *)
(***************************************************************************)
\* A value that fits is kept by the conversion, and the conversion of any value fits.
LEMMA SignedFits ==
    ASSUME NEW w \in Nat \ {0}, w % 2 = 0, NEW n \in Int
    PROVE  /\ Fits(Signed(n, w), w) /\ Signed(n, w) \in Int
           /\ Fits(n, w) => Signed(n, w) = n
<1>1. w \div 2 \in Nat /\ w = 2 * (w \div 2)
    OBVIOUS
<1>2. (n + (w \div 2)) % w \in 0..w - 1
    BY <1>1
<1>3. Fits(Signed(n, w), w) /\ Signed(n, w) \in Int
    BY <1>1, <1>2 DEF Fits, Signed, SignedInts
<1>4. ASSUME Fits(n, w) PROVE Signed(n, w) = n
    <2>1. n + (w \div 2) \in 0..w - 1
        BY <1>1, <1>4 DEF Fits, SignedInts
    <2>2. (n + (w \div 2)) % w = n + (w \div 2)
        BY <2>1
    <2>3. QED  BY <1>1, <2>2 DEF Signed
<1>5. QED  BY <1>3, <1>4

\* The seconds that are kept for an argument honour it.
LEMMA SecondsHonour ==
    ASSUME NEW ms \in Int
    PROVE  Seconds(ms) \in SignedInts(Width) /\ Honours(Seconds(ms), ms)
<1>1. Width \in Nat \ {0} /\ Width % 2 = 0 /\ PerSecond \in Nat \ {0}
    BY TimeoutConstantsOK DEF TimeoutConstantsOK
<1>2. ms \div PerSecond \in Int
    BY <1>1
<1>3. Seconds(ms) \in SignedInts(Width)
    <2>1. CASE ms < 0
        BY <1>1, <2>1, SignedFits DEF Seconds, Fits
    <2>2. CASE ~(ms < 0)
        BY <1>1, <1>2, <2>2, SignedFits DEF Seconds, Fits
    <2>3. QED  BY <2>1, <2>2
<1>4. ASSUME ms < 0 PROVE Honours(Seconds(ms), ms)
    <2>1. Fits(ms, Width) => Seconds(ms) = ms
        BY <1>1, <1>4, SignedFits DEF Seconds
    <2>2. QED  BY <1>4, <2>1 DEF Honours
<1>5. ASSUME ~(ms < 0) PROVE Honours(Seconds(ms), ms)
    <2> DEFINE k == ms \div PerSecond
    <2>1. k * PerSecond <= ms /\ ms < (k + 1) * PerSecond
        BY <1>1
    <2>2. Fits(k, Width) => Seconds(ms) = k
        BY <1>1, <1>2, <1>5, SignedFits DEF Seconds
    <2>3. Honours(Seconds(ms), ms) =
             (Fits(k, Width) => /\ Seconds(ms) * PerSecond <= ms
                                /\ ms < (Seconds(ms) + 1) * PerSecond)
        BY <1>5 DEF Honours
    <2> HIDE DEF k
    <2>4. QED  BY <2>1, <2>2, <2>3
<1>6. QED  BY <1>3, <1>4, <1>5
-----------------------------------------------------------------------------
\* Both timeouts of a channel are the last ones asked for it, or are still going to be set.
InPlace(c) ==
    LET s == Seconds(asked[c])
    IN  /\ oneSide[c] = s \/ \E t \in Setters : channel[t] = c /\ step[t] \in {"one", "oneHeld"}
        /\ twoSide[c] = s \/ \E t \in Setters : channel[t] = c

\* A thread sets the channel the one variable was last written for and carries what is there,
\* or it sets one whose setting has met another.
OnTheWay(t) ==
    channel[t] # NoChannel =>
        /\ asked[channel[t]] # NotAsked
        /\ channel[t] \notin crossed =>
              /\ channel[t] = last
              /\ step[t] \in {"oneHeld", "twoHeld"} => carried[t] = gTimeout

\* The one variable holds what was asked for the channel it was last written for.
TimeoutInv ==
    /\ TimeoutsTypeOK
    /\ \A t \in Setters : channel[t] = NoChannel <=> step[t] = "out"
    /\ \A t \in Setters : OnTheWay(t)
    /\ last # NoChannel => asked[last] # NotAsked /\ gTimeout = Seconds(asked[last])
    /\ \A c \in Channels \ crossed : asked[c] # NotAsked => InPlace(c)

LEMMA InitInTime == TimeoutsInit => TimeoutInv
<1> SUFFICES ASSUME TimeoutsInit PROVE TimeoutInv
    OBVIOUS
<1>1. DefaultTimeout \in SignedInts(Width) /\ -1 \in SignedInts(Width)
    BY TimeoutConstantsOK DEF TimeoutConstantsOK, SignedInts
<1>2. 0 \in SignedInts(Width)
    BY TimeoutConstantsOK DEF TimeoutConstantsOK, SignedInts
<1>3. TimeoutsTypeOK
    BY <1>1, <1>2 DEF TimeoutsInit, TimeoutsTypeOK
<1>4. QED  BY <1>3 DEF TimeoutsInit, TimeoutInv, OnTheWay

\* A setting begins: the variable is written.
LEMMA SetTimeoutKept ==
    ASSUME TimeoutInv, NEW t \in Setters, NEW c \in Channels, NEW ms \in Milliseconds,
           SetTimeout(t, c, ms)
    PROVE  TimeoutInv'
<1>1. /\ step[t] = "out" /\ channel[t] = NoChannel /\ NoChannel \notin Channels
      /\ ms \in Int /\ ms # NotAsked
    BY TimeoutConstantsOK DEF TimeoutInv, SetTimeout, TimeoutConstantsOK
<1>2. /\ gTimeout' = Seconds(ms) /\ step' = [step EXCEPT ![t] = "one"]
      /\ channel' = [channel EXCEPT ![t] = c] /\ asked' = [asked EXCEPT ![c] = ms]
      /\ last' = c /\ crossed' = (crossed \ {c}) \cup BeingSet(Setters \ {t})
      /\ UNCHANGED <<oneSide, twoSide, carried>>
    BY DEF SetTimeout
<1>3. TimeoutsTypeOK'
    <2>1. gTimeout' \in SignedInts(Width)
        BY <1>1, <1>2, SecondsHonour
    <2>2. BeingSet(Setters \ {t}) \subseteq Channels
        BY DEF TimeoutInv, TimeoutsTypeOK, BeingSet
    <2>3. QED  BY <1>2, <2>1, <2>2 DEF TimeoutInv, TimeoutsTypeOK
<1>4. ASSUME NEW u \in Setters
      PROVE  (channel'[u] = NoChannel <=> step'[u] = "out") /\ OnTheWay(u)'
    <2>1. CASE u = t
        <3>1. channel'[u] = c /\ step'[u] = "one" /\ asked'[c] = ms
            BY <1>2, <2>1 DEF TimeoutInv, TimeoutsTypeOK
        <3>2. QED  BY <1>1, <1>2, <3>1 DEF OnTheWay
    <2>2. CASE u # t
        <3>1. channel'[u] = channel[u] /\ step'[u] = step[u]
            BY <1>2, <2>2 DEF TimeoutInv, TimeoutsTypeOK
        <3>2. channel[u] # NoChannel => channel[u] \in BeingSet(Setters \ {t})
            BY <2>2 DEF BeingSet
        <3>3. channel[u] # NoChannel => asked'[channel[u]] # NotAsked
            BY <1>1, <1>2 DEF TimeoutInv, TimeoutsTypeOK, OnTheWay
        <3>4. QED  BY <1>2, <3>1, <3>2, <3>3 DEF TimeoutInv, OnTheWay
    <2>3. QED  BY <2>1, <2>2
<1>5. asked'[last'] # NotAsked /\ gTimeout' = Seconds(asked'[last'])
    BY <1>1, <1>2 DEF TimeoutInv, TimeoutsTypeOK
<1>6. ASSUME NEW d \in Channels, d \notin crossed', asked'[d] # NotAsked PROVE InPlace(d)'
    <2>1. CASE d = c
        <3>1. channel'[t] = c /\ step'[t] = "one"
            BY <1>2 DEF TimeoutInv, TimeoutsTypeOK
        <3>2. QED  BY <2>1, <3>1 DEF InPlace
    <2>2. CASE d # c
        <3>1. d \notin crossed /\ asked'[d] = asked[d] /\ InPlace(d)
            BY <1>2, <1>6, <2>2 DEF TimeoutInv, TimeoutsTypeOK
        <3>2. \A u \in Setters : channel[u] # d
            BY <1>1, <1>2, <1>6, <2>2 DEF BeingSet
        <3>3. oneSide[d] = Seconds(asked[d]) /\ twoSide[d] = Seconds(asked[d])
            BY <3>1, <3>2 DEF InPlace
        <3>4. Seconds(asked[d])' = Seconds(asked[d])
            BY <3>1 DEF Seconds
        <3>5. QED  BY <1>2, <3>3, <3>4 DEF InPlace
    <2>3. QED  BY <2>1, <2>2
<1>7. QED  BY <1>3, <1>4, <1>5, <1>6 DEF TimeoutInv

\* The variable is read.
LEMMA LoadTimeoutKept == ASSUME TimeoutInv, NEW t \in Setters, LoadTimeout(t) PROVE TimeoutInv'
<1>1. /\ step[t] \in {"one", "two"} /\ step'[t] = IF step[t] = "one" THEN "oneHeld" ELSE "twoHeld"
      /\ carried'[t] = gTimeout
      /\ \A u \in Setters \ {t} : step'[u] = step[u] /\ carried'[u] = carried[u]
      /\ UNCHANGED <<gTimeout, oneSide, twoSide, channel, asked, last, crossed>>
    BY DEF LoadTimeout, TimeoutInv, TimeoutsTypeOK
<1>2. TimeoutsTypeOK'
    BY <1>1 DEF LoadTimeout, TimeoutInv, TimeoutsTypeOK
<1>3. ASSUME NEW u \in Setters
      PROVE  (channel'[u] = NoChannel <=> step'[u] = "out") /\ OnTheWay(u)'
    BY <1>1 DEF TimeoutInv, OnTheWay
<1>4. ASSUME NEW d \in Channels \ crossed, asked[d] # NotAsked PROVE InPlace(d)'
    <2>1. InPlace(d) /\ Seconds(asked[d])' = Seconds(asked[d])
        BY <1>1, <1>4 DEF TimeoutInv, Seconds
    <2>2. \A u \in Setters : step[u] \in {"one", "oneHeld"} => step'[u] \in {"one", "oneHeld"}
        BY <1>1
    <2>3. QED  BY <1>1, <2>1, <2>2 DEF InPlace
<1>5. Seconds(asked[last])' = Seconds(asked[last])
    BY <1>1 DEF Seconds
<1>6. QED  BY <1>1, <1>2, <1>3, <1>4, <1>5 DEF TimeoutInv

\* What was found in the variable goes to libhcom, for one of the two kinds of operations.
LEMMA SetSideKept ==
    ASSUME TimeoutInv, NEW t \in Setters, SetOneSideTimeout(t) \/ SetTwoSideTimeout(t)
    PROVE  TimeoutInv'
<1> DEFINE c == channel[t]
<1>1. /\ c \in Channels /\ c # NoChannel /\ asked[c] # NotAsked
      /\ step[t] \in {"oneHeld", "twoHeld"}
      /\ UNCHANGED <<gTimeout, asked, last, crossed>>
    BY DEF TimeoutInv, TimeoutsTypeOK, OnTheWay, SetOneSideTimeout, SetTwoSideTimeout
<1>2. c \notin crossed => carried[t] = Seconds(asked[c])
    BY <1>1 DEF TimeoutInv, OnTheWay
<1>3. TimeoutsTypeOK'
    <2>1. 0 \in SignedInts(Width)
        BY TimeoutConstantsOK DEF TimeoutConstantsOK, SignedInts
    <2>2. QED  BY <1>1, <2>1 DEF TimeoutInv, TimeoutsTypeOK, SetOneSideTimeout, SetTwoSideTimeout
<1>4. ASSUME NEW u \in Setters
      PROVE  (channel'[u] = NoChannel <=> step'[u] = "out") /\ OnTheWay(u)'
    <2>1. CASE SetOneSideTimeout(t)
        BY <1>1, <2>1 DEF TimeoutInv, TimeoutsTypeOK, SetOneSideTimeout, OnTheWay
    <2>2. CASE SetTwoSideTimeout(t)
        BY <1>1, <2>2 DEF TimeoutInv, TimeoutsTypeOK, SetTwoSideTimeout, OnTheWay
    <2>3. QED  BY <2>1, <2>2
<1>5. ASSUME NEW d \in Channels \ crossed, asked[d] # NotAsked PROVE InPlace(d)'
    <2>1. InPlace(d) /\ Seconds(asked[d])' = Seconds(asked[d])
        BY <1>1, <1>5 DEF TimeoutInv, Seconds
    <2> DEFINE s == Seconds(asked[d])
               early == {"one", "oneHeld"}
    <2> HIDE DEF s
    <2>2. CASE SetOneSideTimeout(t)
        <3>1. /\ oneSide' = [oneSide EXCEPT ![c] = carried[t]] /\ UNCHANGED <<twoSide, channel>>
              /\ step' = [step EXCEPT ![t] = "two"]
            BY <2>2 DEF SetOneSideTimeout
        <3>2. oneSide'[d] = s \/ \E u \in Setters : channel[u] = d /\ step'[u] \in early
            <4>1. CASE d = c
                BY <1>2, <1>5, <3>1, <4>1 DEF TimeoutInv, TimeoutsTypeOK, s
            <4>2. CASE d # c
                BY <2>1, <3>1, <4>2 DEF InPlace, TimeoutInv, TimeoutsTypeOK, s
            <4>3. QED  BY <4>1, <4>2
        <3>3. QED  BY <2>1, <3>1, <3>2 DEF InPlace, s
    <2>3. CASE SetTwoSideTimeout(t)
        <3>1. /\ twoSide' = [twoSide EXCEPT ![c] = carried[t]] /\ oneSide' = oneSide
              /\ step' = [step EXCEPT ![t] = "out"] /\ step[t] = "twoHeld"
              /\ channel' = [channel EXCEPT ![t] = NoChannel]
            BY <2>3 DEF SetTwoSideTimeout
        <3>2. \A u \in Setters \ {t} : channel'[u] = channel[u] /\ step'[u] = step[u]
            BY <3>1 DEF TimeoutInv, TimeoutsTypeOK
        <3>3. oneSide'[d] = s \/ \E u \in Setters : channel'[u] = d /\ step'[u] \in early
            BY <2>1, <3>1, <3>2 DEF InPlace, s
        <3>4. twoSide'[d] = s \/ \E u \in Setters : channel'[u] = d
            <4>1. CASE d = c
                BY <1>2, <1>5, <3>1, <4>1 DEF TimeoutInv, TimeoutsTypeOK, s
            <4>2. CASE d # c
                <5>1. twoSide'[d] = twoSide[d]
                    BY <3>1, <4>2 DEF TimeoutInv, TimeoutsTypeOK
                <5>2. QED  BY <2>1, <3>2, <4>2, <5>1 DEF InPlace, s
            <4>3. QED  BY <4>1, <4>2
        <3>5. QED  BY <2>1, <3>3, <3>4 DEF InPlace, s
    <2>4. QED  BY <2>2, <2>3
<1>6. last # NoChannel => asked[last] # NotAsked /\ gTimeout' = Seconds(asked[last])
    BY <1>1 DEF TimeoutInv
<1>7. Seconds(asked[last])' = Seconds(asked[last])
    BY <1>1 DEF Seconds
<1>8. QED  BY <1>1, <1>3, <1>4, <1>5, <1>6, <1>7 DEF TimeoutInv

\* What is set for a channel is what was asked for it, until another setting meets it.
THEOREM TimeoutInvariance == TimeoutsSpec => []TimeoutInv
<1>1. TimeoutInv /\ [TimeoutsNext]_timeoutVars => TimeoutInv'
    <2> SUFFICES ASSUME TimeoutInv, [TimeoutsNext]_timeoutVars PROVE TimeoutInv'
        OBVIOUS
    <2>1. CASE UNCHANGED timeoutVars
        <3>1. UNCHANGED <<gTimeout, oneSide, twoSide, step, channel, carried, asked, last, crossed>>
            BY <2>1 DEF timeoutVars
        <3>2. \A c \in Channels : InPlace(c)' = InPlace(c)
            BY <3>1 DEF InPlace, Seconds
        <3>3. Seconds(asked[last])' = Seconds(asked[last])
            BY <3>1 DEF Seconds
        <3>4. QED  BY <3>1, <3>2, <3>3 DEF TimeoutInv, TimeoutsTypeOK, OnTheWay
    <2>2. CASE TimeoutsNext
        BY <2>2, SetTimeoutKept, LoadTimeoutKept, SetSideKept DEF TimeoutsNext
    <2>3. QED  BY <2>1, <2>2
<1>2. QED  BY InitInTime, <1>1, PTL DEF TimeoutsSpec

\* The timeouts are always 32 bit integers, and nothing else loses its type.
THEOREM TimeoutsTypeCorrect == TimeoutsSpec => []TimeoutsTypeOK
<1>1. TimeoutInv => TimeoutsTypeOK  BY DEF TimeoutInv
<1>2. QED  BY <1>1, TimeoutInvariance, PTL

\* A channel whose last setting has met no other setting, of the same channel or of another,
\* between its write of g_timeoutTime, its two reads of it and libhcom's two stores has the
\* timeout that was asked for it, for both kinds of operations, for any number of threads and
\* channels and any widths.
THEOREM TimeoutStays == TimeoutsSpec => []TimeoutKept
<1>1. TimeoutInv => TimeoutKept
    <2> SUFFICES ASSUME TimeoutInv, NEW c \in Settled
                 PROVE  /\ Honours(oneSide[c], asked[c]) /\ twoSide[c] = oneSide[c]
                        /\ c = last /\ Fits(twoSide[c], ShortWidth) => CallTimeout = twoSide[c]
        BY DEF TimeoutKept
    <2>1. c \in Channels \ crossed /\ asked[c] # NotAsked /\ c \notin BeingSet(Setters)
        BY DEF Settled
    <2>2. c # NoChannel /\ asked[c] \in Int
        BY <2>1, TimeoutConstantsOK DEF TimeoutInv, TimeoutsTypeOK, TimeoutConstantsOK
    <2>3. \A t \in Setters : channel[t] # c
        BY <2>1, <2>2 DEF BeingSet
    <2>4. oneSide[c] = Seconds(asked[c]) /\ twoSide[c] = Seconds(asked[c])
        BY <2>1, <2>3 DEF TimeoutInv, InPlace
    <2>5. c = last => gTimeout = twoSide[c]
        BY <2>2, <2>4 DEF TimeoutInv
    <2>6. /\ ShortWidth \in Nat \ {0} /\ ShortWidth % 2 = 0 /\ Width \in Nat
        BY TimeoutConstantsOK DEF TimeoutConstantsOK
    <2>7. gTimeout \in Int
        BY <2>6 DEF TimeoutInv, TimeoutsTypeOK, SignedInts
    <2>8. QED  BY <2>2, <2>4, <2>5, <2>6, <2>7, SecondsHonour, SignedFits DEF CallTimeout
<1>2. QED  BY <1>1, TimeoutInvariance, PTL
-----------------------------------------------------------------------------
(***************************************************************************)
(* OckRpcSetAllocatorOption.  The count of tiers is a loop, a recursive    *)
(* function here: that it exists and what it computes is shown with least  *)
(* counterexamples, since the provers have no induction.                   *)
(***************************************************************************)
\* Every set of natural numbers that is not empty has a least element.
LEMMA LeastNatural ==
    ASSUME NEW T, T \subseteq Nat, T # {}
    PROVE  \E n \in T : \A m \in T : n <= m
<1> DEFINE R == {ss \in Nat \X Nat : ss[1] < ss[2]}
<1>1. R = OpToRel(<, Nat)
    BY DEF OpToRel
<1>2. IsWellFoundedOn(R, Nat)
    BY <1>1, NatLessThanWellFounded
<1> HIDE DEF R
<1>3. PICK n \in T : \A m \in T : ~(<<m, n>> \in R)
    BY <1>2, WFMin
<1>4. ASSUME NEW m \in T PROVE n <= m
    <2>1. n \in Nat /\ m \in Nat /\ ~(<<m, n>> \in R)
        BY <1>3
    <2>2. QED  BY <2>1 DEF R
<1>5. QED  BY <1>4

\* A value for 0, and for every other n one that is computed from the value for h[n]: f is
\* such a function, on 0..N.
Computes(f, N, a, g, h) ==
    /\ f \in [0..N -> Nat]
    /\ \A n \in 0..N : f[n] = IF n = 0 THEN a ELSE g[f[h[n]]]

Descends(h) == h \in [Nat -> Nat] /\ \A n \in Nat \ {0} : h[n] < n

LEMMA ComputedUpTo ==
    ASSUME NEW a \in Nat, NEW g \in [Nat -> Nat], NEW h, Descends(h), NEW N \in Nat
    PROVE  \E f : Computes(f, N, a, g, h)
<1> DEFINE T == {n \in Nat : ~ \E f : Computes(f, n, a, g, h)}
<1> SUFFICES ASSUME T # {} PROVE FALSE
    OBVIOUS
<1>1. PICK n \in T : \A m \in T : n <= m
    BY LeastNatural
<1>2. n # 0
    <2>1. Computes([i \in 0..0 |-> a], 0, a, g, h)
        BY DEF Computes
    <2>2. QED  BY <2>1
<1>3. n \in Nat /\ n - 1 \in Nat /\ h[n] \in 0..n - 1
    BY <1>2 DEF Descends
<1>4. PICK f : Computes(f, n - 1, a, g, h)
    <2>1. n - 1 \notin T
        BY <1>1, <1>3
    <2>2. QED  BY <1>3, <2>1
<1> DEFINE e == [i \in 0..n |-> IF i = n THEN g[f[h[n]]] ELSE f[i]]
<1>5. e \in [0..n -> Nat]
    <2>1. f[h[n]] \in Nat
        BY <1>3, <1>4 DEF Computes
    <2>2. f \in [0..n - 1 -> Nat]
        BY <1>4 DEF Computes
    <2>3. ASSUME NEW i \in 0..n, i # n PROVE f[i] \in Nat
        <3>1. i \in 0..n - 1
            BY <1>3, <2>3
        <3>2. QED  BY <2>2, <3>1
    <2>4. QED  BY <2>1, <2>3
<1>6. \A i \in 0..n - 1 : e[i] = f[i]
    BY <1>3
<1>7. ASSUME NEW i \in 0..n PROVE e[i] = IF i = 0 THEN a ELSE g[e[h[i]]]
    <2>1. CASE i = n
        <3>1. e[i] = g[f[h[n]]] /\ e[h[n]] = f[h[n]]
            BY <1>3, <1>6, <2>1
        <3>2. QED  BY <1>2, <2>1, <3>1
    <2>2. CASE i # n
        <3>1. i \in 0..n - 1 /\ e[i] = f[i]
            BY <1>3, <1>6, <2>2
        <3>2. i # 0 => h[i] \in 0..n - 1 /\ e[h[i]] = f[h[i]]
            <4>1. i # 0 => h[i] \in 0..n - 1
                BY <1>3, <3>1 DEF Descends
            <4>2. QED  BY <1>6, <4>1
        <3>3. QED  BY <1>4, <3>1, <3>2 DEF Computes
    <2>3. QED  BY <2>1, <2>2
<1> HIDE DEF e
<1>8. Computes(e, n, a, g, h)
    BY <1>5, <1>7 DEF Computes
<1>9. QED  BY <1>8

LEMMA ComputedOnce ==
    ASSUME NEW a \in Nat, NEW g \in [Nat -> Nat], NEW h, Descends(h),
           NEW N \in Nat, NEW M \in Nat, NEW f, NEW e,
           Computes(f, N, a, g, h), Computes(e, M, a, g, h)
    PROVE  \A k \in (0..N) \cap (0..M) : f[k] = e[k]
<1> DEFINE T == {n \in (0..N) \cap (0..M) : f[n] # e[n]}
<1> SUFFICES ASSUME T # {} PROVE FALSE
    OBVIOUS
<1>1. PICK n \in T : \A m \in T : n <= m
    <2>1. T \subseteq Nat
        OBVIOUS
    <2>2. QED  BY <2>1, LeastNatural
<1>2. n \in 0..N /\ n \in 0..M /\ f[n] # e[n]
    OBVIOUS
<1>3. n # 0
    BY <1>2 DEF Computes
<1>4. h[n] \in Nat /\ h[n] < n
    BY <1>2, <1>3 DEF Descends
<1>5. h[n] \notin T
    BY <1>1, <1>2, <1>4
<1>6. h[n] \in (0..N) \cap (0..M)
    BY <1>2, <1>4
<1>7. f[h[n]] = e[h[n]]
    BY <1>5, <1>6
<1>8. f[n] = g[f[h[n]]] /\ e[n] = g[e[h[n]]]
    BY <1>2, <1>3 DEF Computes
<1>9. QED  BY <1>2, <1>7, <1>8

\* There is such a function on all natural numbers.
Recurs(f, a, g, h) == /\ f \in [Nat -> Nat]
                      /\ \A n \in Nat : f[n] = IF n = 0 THEN a ELSE g[f[h[n]]]

LEMMA RecursiveFunction ==
    ASSUME NEW a \in Nat, NEW g \in [Nat -> Nat], NEW h, Descends(h)
    PROVE  \E f : Recurs(f, a, g, h)
<1> DEFINE Upto(N) == CHOOSE f : Computes(f, N, a, g, h)
           F == [n \in Nat |-> Upto(n)[n]]
<1>1. ASSUME NEW n \in Nat PROVE Computes(Upto(n), n, a, g, h)
    BY ComputedUpTo
<1> HIDE DEF Upto
<1>2. ASSUME NEW n \in Nat
      PROVE  F[n] \in Nat /\ F[n] = IF n = 0 THEN a ELSE g[F[h[n]]]
    <2>1. /\ F[n] = Upto(n)[n] /\ n \in 0..n
          /\ Upto(n)[n] \in Nat
          /\ Upto(n)[n] = IF n = 0 THEN a ELSE g[Upto(n)[h[n]]]
        BY <1>1 DEF Computes
    <2>2. ASSUME n # 0 PROVE Upto(n)[h[n]] = F[h[n]]
        <3>1. h[n] \in Nat /\ h[n] \in (0..n) \cap (0..h[n])
            BY <2>2 DEF Descends
        <3>2. Computes(Upto(n), n, a, g, h) /\ Computes(Upto(h[n]), h[n], a, g, h)
            BY <1>1, <3>1
        <3> HIDE DEF F
        <3>3. Upto(n)[h[n]] = Upto(h[n])[h[n]]
            <4>0. ASSUME NEW M \in Nat, NEW p, NEW q, Computes(p, n, a, g, h),
                         Computes(q, M, a, g, h)
                  PROVE  \A k \in (0..n) \cap (0..M) : p[k] = q[k]
                BY <4>0, ComputedOnce, SMTT(20)
            <4>1. \A k \in (0..n) \cap (0..h[n]) : Upto(n)[k] = Upto(h[n])[k]
                BY <3>1, <3>2, <4>0
            <4>2. QED  BY <3>1, <4>1
        <3>4. QED  BY <3>1, <3>3 DEF F
    <2>3. QED  BY <2>1, <2>2
<1>3. F \in [Nat -> Nat]
    BY <1>2
<1> HIDE DEF F
<1>4. QED  BY <1>2, <1>3 DEF Recurs

LEMMA ShiftsDefined ==
    /\ Shifts \in [Nat -> Nat]
    /\ \A n \in Nat : Shifts[n] = IF n = 0 THEN 0 ELSE 1 + Shifts[n \div 2]
<1> DEFINE g == [n \in Nat |-> 1 + n]
           h == [n \in Nat |-> n \div 2]
<1>1. g \in [Nat -> Nat] /\ \A n \in Nat : g[n] = 1 + n
    OBVIOUS
<1>2. Descends(h) /\ \A n \in Nat : h[n] = n \div 2
    BY DEF Descends
<1> HIDE DEF g, h
<1>3. PICK f : Recurs(f, 0, g, h)
    BY <1>1, <1>2, RecursiveFunction
<1>4. \A n \in Nat : n \div 2 \in Nat
    OBVIOUS
<1>5. \A n \in Nat : g[f[h[n]]] = 1 + f[n \div 2]
    BY <1>1, <1>2, <1>3, <1>4 DEF Recurs
<1>6. f = [n \in Nat |-> IF n = 0 THEN 0 ELSE 1 + f[n \div 2]]
    BY <1>3, <1>5 DEF Recurs
<1>7. Shifts = [n \in Nat |-> IF n = 0 THEN 0 ELSE 1 + Shifts[n \div 2]]
    BY <1>6 DEF Shifts
<1>8. \A n \in Nat : Shifts[n] = IF n = 0 THEN 0 ELSE 1 + Shifts[n \div 2]
    BY <1>7
<1>9. Shifts \in [Nat -> Nat]
    <2> DEFINE T == {n \in Nat : Shifts[n] \notin Nat}
    <2>1. T = {}
        <3> SUFFICES ASSUME T # {} PROVE FALSE
            OBVIOUS
        <3>1. PICK n \in T : \A m \in T : n <= m
            BY LeastNatural
        <3>2. n \in Nat /\ Shifts[n] \notin Nat
            OBVIOUS
        <3>3. n # 0
            BY <1>8, <3>2
        <3>4. n \div 2 \in Nat /\ n \div 2 < n
            BY <3>2, <3>3
        <3>5. Shifts[n \div 2] \in Nat
            BY <3>1, <3>2, <3>4
        <3>6. QED  BY <1>8, <3>2, <3>3, <3>5
    <2>2. DOMAIN Shifts = Nat /\ Shifts = [n \in Nat |-> Shifts[n]]
        BY <1>7
    <2>3. QED  BY <2>1, <2>2
<1>10. QED  BY <1>8, <1>9

LEMMA TierDefined ==
    /\ Tier \in [Nat -> Nat]
    /\ \A n \in Nat : Tier[n] = IF n = 0 THEN MinSize ELSE 2 * Tier[n - 1]
<1> DEFINE g == [n \in Nat |-> 2 * n]
           h == [n \in Nat |-> IF n = 0 THEN 0 ELSE n - 1]
<1>0. MinSize \in Nat
    BY SizingConstantsOK DEF SizingConstantsOK
<1>1. g \in [Nat -> Nat] /\ \A n \in Nat : g[n] = 2 * n
    OBVIOUS
<1>2. Descends(h) /\ \A n \in Nat \ {0} : h[n] = n - 1
    BY DEF Descends
<1> HIDE DEF g, h
<1>3. PICK f : Recurs(f, MinSize, g, h)
    BY <1>0, <1>1, <1>2, RecursiveFunction
<1>4. \A n \in Nat \ {0} : n - 1 \in Nat
    OBVIOUS
<1>5. \A n \in Nat \ {0} : g[f[h[n]]] = 2 * f[n - 1]
    BY <1>1, <1>2, <1>3, <1>4 DEF Recurs
<1>6. f = [n \in Nat |-> IF n = 0 THEN MinSize ELSE 2 * f[n - 1]]
    BY <1>3, <1>5 DEF Recurs
<1>7. Tier = [n \in Nat |-> IF n = 0 THEN MinSize ELSE 2 * Tier[n - 1]]
    BY <1>6 DEF Tier
<1>8. \A n \in Nat : Tier[n] = IF n = 0 THEN MinSize ELSE 2 * Tier[n - 1]
    BY <1>7
<1>9. Tier \in [Nat -> Nat]
    <2> DEFINE T == {n \in Nat : Tier[n] \notin Nat}
    <2>1. T = {}
        <3> SUFFICES ASSUME T # {} PROVE FALSE
            OBVIOUS
        <3>1. PICK n \in T : \A m \in T : n <= m
            BY LeastNatural
        <3>2. n \in Nat /\ Tier[n] \notin Nat
            OBVIOUS
        <3>3. n # 0
            BY <1>0, <1>8, <3>2
        <3>4. n - 1 \in Nat /\ n - 1 < n
            BY <3>2, <3>3
        <3>5. Tier[n - 1] \in Nat
            BY <3>1, <3>2, <3>4
        <3>6. QED  BY <1>8, <3>2, <3>3, <3>5
    <2>2. DOMAIN Tier = Nat /\ Tier = [n \in Nat |-> Tier[n]]
        BY <1>7
    <2>3. QED  BY <2>1, <2>2
<1>10. QED  BY <1>8, <1>9

\* A block of the last tier is larger than n of the least ones, one of the tier before it is not.
LEMMA TiersReach ==
    ASSUME NEW n \in Nat
    PROVE  /\ Tier[Shifts[n]] >= (n + 1) * MinSize
           /\ Shifts[n] > 0 => n > 0 /\ Tier[Shifts[n] - 1] <= n * MinSize
<1> DEFINE Reach(k) == /\ Tier[Shifts[k]] >= (k + 1) * MinSize
                       /\ Shifts[k] > 0 => k > 0 /\ Tier[Shifts[k] - 1] <= k * MinSize
           T == {k \in Nat : ~Reach(k)}
<1> SUFFICES ASSUME T # {} PROVE FALSE
    OBVIOUS
<1> HIDE DEF Reach
<1>1. MinSize \in Nat
    BY SizingConstantsOK DEF SizingConstantsOK
<1>2. PICK k \in T : \A m \in T : k <= m
    BY LeastNatural
<1>3. k \in Nat /\ ~Reach(k)
    OBVIOUS
<1>4. k # 0
    <2>1. Shifts[0] = 0 /\ Tier[0] = MinSize
        BY ShiftsDefined, TierDefined
    <2>2. Reach(0)
        BY <1>1, <2>1 DEF Reach
    <2>3. QED  BY <1>3, <2>2
<1> DEFINE half == k \div 2
<1>5. half \in Nat /\ half < k /\ 2 * half <= k /\ k <= 2 * half + 1
    BY <1>3, <1>4
<1>6. Shifts[k] = 1 + Shifts[half] /\ Shifts[half] \in Nat
    BY <1>3, <1>4, <1>5, ShiftsDefined
<1> HIDE DEF half
<1>7. Reach(half)
    BY <1>2, <1>3, <1>5
<1> DEFINE tier == Shifts[half]
<1>8. tier \in Nat /\ Shifts[k] = tier + 1 /\ Tier[tier] \in Nat
    BY <1>6, TierDefined
<1>9. Tier[tier] >= (half + 1) * MinSize
    BY <1>7 DEF Reach
<1>10. Tier[tier + 1] >= (k + 1) * MinSize
    <2>1. Tier[tier + 1] = 2 * Tier[tier]
        BY <1>8, TierDefined
    <2>2. 2 * Tier[tier] >= 2 * ((half + 1) * MinSize)
        BY <1>1, <1>5, <1>8, <1>9
    <2>3. 2 * ((half + 1) * MinSize) >= (k + 1) * MinSize
        BY <1>1, <1>3, <1>5
    <2>4. QED  BY <1>1, <1>3, <1>5, <1>8, <2>1, <2>2, <2>3
<1>11. Tier[tier] <= k * MinSize
    <2>1. CASE tier = 0
        <3>1. Tier[tier] = MinSize
            BY <2>1, TierDefined
        <3>2. MinSize <= k * MinSize
            BY <1>1, <1>3, <1>4
        <3>3. QED  BY <3>1, <3>2
    <2>2. CASE tier # 0
        <3>1. tier - 1 \in Nat /\ Tier[tier - 1] \in Nat /\ Tier[tier] = 2 * Tier[tier - 1]
            BY <1>8, <2>2, TierDefined
        <3>2. Tier[tier - 1] <= half * MinSize
            BY <1>7, <1>8, <2>2 DEF Reach
        <3>3. 2 * (half * MinSize) <= k * MinSize
            BY <1>1, <1>3, <1>5
        <3>4. QED  BY <1>1, <1>3, <1>5, <3>1, <3>2, <3>3
    <2>3. QED  BY <2>1, <2>2
<1>12. Reach(k)
    <2>1. Shifts[k] - 1 = tier
        BY <1>8
    <2> HIDE DEF tier
    <2>2. QED  BY <1>3, <1>4, <1>8, <1>10, <1>11, <2>1 DEF Reach
<1>13. QED  BY <1>3, <1>12

LEMMA NumberIsUnsigned ==
    ASSUME NEW text, NEW d \in 1..Width32 - 1, Readable(text), Width32 \in Nat \ {0}
    PROVE  Number(text, d) \in 0..Width32 - 1
<1>1. CASE text = NotGiven
    BY <1>1 DEF Number
<1>2. CASE text # NotGiven
    <2>1. text \in Int
        BY <1>2 DEF Readable, IsNumber
    <2>2. text % Width32 \in 0..Width32 - 1
        BY <2>1
    <2>3. QED  BY <1>2, <2>2 DEF Number
<1>3. QED  BY <1>1, <1>2

\* What OckRpcSetAllocatorOption makes of a setting.
LEMMA OptionFulfils ==
    ASSUME NEW s
    PROVE  Fulfils(OckRpcSetAllocatorOption(s), s)
<1> DEFINE o == OckRpcSetAllocatorOption(s)
           size == Number(s.size, DefaultSize)
           count == Number(s.count, DefaultCount)
           product == (size * count) % Width32
           units == size \div MinSize
<1> SUFFICES Fulfils(o, s)
    OBVIOUS
<1>1. /\ Width32 \in Nat \ {0} /\ MinSize \in Nat \ {0}
      /\ DefaultSize \in 1..Width32 - 1 /\ DefaultCount \in 1..Width32 - 1
    BY SizingConstantsOK DEF SizingConstantsOK
<1>2. CASE o = Without("half")
    <2>1. o.how = "half"
        BY <1>2 DEF Without
    <2> HIDE DEF o
    <2>2. QED  BY <2>1 DEF Fulfils
<1>3. CASE o # Without("half")
    <2>1. /\ Readable(s.size) /\ Readable(s.count)
          /\ ~(size > MaxSegSize) /\ ~(count > MaxSegCount)
          /\ o = IF product = 0 THEN Without("plain")
                 ELSE [how |-> "memory", size |-> IF product < MinSize THEN MinSize ELSE product,
                       tiers |-> Calculate2PowerTimes(units)]
        BY <1>3 DEF OckRpcSetAllocatorOption
    <2>2. size \in 0..Width32 - 1 /\ count \in 0..Width32 - 1
        BY <1>1, <2>1, NumberIsUnsigned
    <2>3. size <= MaxSegSize /\ count <= MaxSegCount
        BY <2>1, <2>2, SizingConstantsOK DEF SizingConstantsOK
    <2>4. Wants(s) = size * count /\ size * count \in Nat
        BY <2>2 DEF Wants
    <2> HIDE DEF o, size, count
    <2>5. product \in Nat /\ (Holds(s) => product = Wants(s))
        BY <1>1, <2>4 DEF Holds
    <2> HIDE DEF product
    <2>6. CASE product = 0
        <3>1. o.how = "plain"
            BY <2>1, <2>6 DEF Without
        <3>2. QED  BY <2>3, <2>5, <2>6, <3>1 DEF Fulfils, size, count
    <2>7. CASE product # 0
        <3>1. /\ o.how = "memory" /\ o.tiers = Shifts[units]
              /\ o.size = IF product < MinSize THEN MinSize ELSE product
            BY <2>1, <2>7 DEF Calculate2PowerTimes
        <3>2. o.size >= product /\ o.size >= MinSize /\ o.size \in Nat
            BY <1>1, <2>5, <3>1
        <3>3. ASSUME Holds(s) PROVE o.size >= Wants(s) /\ o.size >= size
            <4>1. product = size * count /\ count # 0
                BY <2>2, <2>4, <2>5, <2>7, <3>3
            <4>2. size * count >= size
                BY <2>2, <4>1
            <4>3. QED  BY <2>2, <2>4, <2>5, <3>2, <3>3, <4>1, <4>2
        <3>4. units \in Nat /\ units * MinSize <= size /\ size < (units + 1) * MinSize
            BY <1>1, <2>2
        <3> HIDE DEF units
        <3>5. /\ Shifts[units] \in Nat /\ Tier[Shifts[units]] \in Nat
              /\ Shifts[units] > 0 => Tier[Shifts[units] - 1] \in Nat
            BY <3>4, ShiftsDefined, TierDefined
        <3>6. /\ Tier[Shifts[units]] >= (units + 1) * MinSize
              /\ Shifts[units] > 0 => Tier[Shifts[units] - 1] <= units * MinSize
            BY <3>4, TiersReach
        <3>7. Tier[o.tiers] > size
            BY <1>1, <2>2, <3>1, <3>4, <3>5, <3>6
        <3>8. o.tiers > 0 => Tier[o.tiers - 1] <= size
            BY <1>1, <2>2, <3>1, <3>4, <3>5, <3>6
        <3>9. QED  BY <2>3, <3>1, <3>2, <3>3, <3>7, <3>8 DEF Fulfils, size, count
    <2>8. QED  BY <2>6, <2>7
<1>4. QED  BY <1>2, <1>3
-----------------------------------------------------------------------------
\* A client has the options that its setting gives, or has been left without memory.
SizingInv ==
    /\ setting \in [Clients -> Settings \cup {Absence}]
    /\ option \in [Clients -> {Without("none"), Without("half")}
                              \cup {OckRpcSetAllocatorOption(s) : s \in Settings}]
    /\ \A c \in Clients : option[c] \in {Without("none"), Without("half"),
                                         OckRpcSetAllocatorOption(setting[c])}

LEMMA InitSized == SizingInit => SizingInv
    BY DEF SizingInit, SizingInv

LEMMA SizingKept == SizingInv /\ [SizingNext]_sizingVars => SizingInv'
<1> SUFFICES ASSUME SizingInv, [SizingNext]_sizingVars PROVE SizingInv'
    OBVIOUS
<1>1. CASE UNCHANGED sizingVars
    BY <1>1 DEF SizingInv, sizingVars
<1>2. ASSUME NEW c \in Clients, NEW s \in Settings, PrepareMemAllocator(c, s)
      PROVE  SizingInv'
    BY <1>2 DEF SizingInv, PrepareMemAllocator
<1>3. ASSUME NEW c \in Clients, DisconnectSized(c) PROVE SizingInv'
    BY <1>3 DEF SizingInv, DisconnectSized
<1>4. QED  BY <1>1, <1>2, <1>3 DEF SizingNext

\* A connected client has the memory its configuration asked for, 4096 bytes at least, and
\* exactly the tiers that reach up to its segment size, as long as size times count fits in 32
\* bits; a setting beyond the limits is refused: OckRpcSetAllocatorOption and the loop of
\* Calculate2PowerTimes, for every size, count, limit and width.
THEOREM MemoryIsAsAsked == SizingSpec => []MemoryAsAsked
<1>1. SizingInv => MemoryAsAsked
    <2> SUFFICES ASSUME SizingInv, NEW c \in Clients PROVE Fulfils(option[c], setting[c])
        BY DEF MemoryAsAsked
    <2>1. CASE option[c] = OckRpcSetAllocatorOption(setting[c])
        BY <2>1, OptionFulfils
    <2>2. CASE option[c] # OckRpcSetAllocatorOption(setting[c])
        <3>1. option[c].how \in {"none", "half"}
            BY <2>2 DEF SizingInv, Without
        <3>2. QED  BY <3>1 DEF Fulfils
    <2>3. QED  BY <2>1, <2>2
<1>2. QED  BY InitSized, SizingKept, <1>1, PTL DEF SizingSpec
=============================================================================
