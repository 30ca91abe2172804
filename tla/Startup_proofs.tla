--------------------------- MODULE Startup_proofs ---------------------------
(***************************************************************************)
(* Creations of servers, for any number of threads, whatever entries are   *)
(* followed, whatever the library lacks and however often it is opened.    *)
(* First the order in which entries are loaded, then the loader, the       *)
(* logger, and what a creation makes of both.                              *)
(***************************************************************************)
EXTENDS Startup, TLAPS

\* The groups have lengths.
LEMMA GroupLengths == \A g \in 1..10 : Len(Groups[g]) \in Nat
<1>1. Len(CallFunc) \in Nat
  BY DEF CallFunc
<1>2. Len(ChannelHandleFunc) \in Nat
  BY DEF ChannelHandleFunc
<1>3. Len(RndvFunc) \in Nat
  BY DEF RndvFunc
<1>4. Len(SendFunc) \in Nat
  BY DEF SendFunc
<1>5. Len(CreateRegisterFunc) \in Nat
  BY DEF CreateRegisterFunc
<1>6. Len(ServiceHandlerFunc) \in Nat
  BY DEF ServiceHandlerFunc
<1>7. Len(ServiceInitFunc) \in Nat
  BY DEF ServiceInitFunc
<1>8. Len(ServiceRndvHandlerFunc) \in Nat
  BY DEF ServiceRndvHandlerFunc
<1>9. Len(AllocatorFunc) \in Nat
  BY DEF AllocatorFunc
<1>10. Len(OnesideFunc) \in Nat
  BY DEF OnesideFunc, MemoryRegionFunc
<1> QED
  BY <1>1, <1>2, <1>3, <1>4, <1>5, <1>6, <1>7, <1>8, <1>9, <1>10, SMTT(20) DEF Groups

\* Every entry has a place: its group, and its index there.
LEMMA Places ==
  ASSUME NEW f \in Functions
  PROVE  /\ Group[f] \in 1..10
         /\ Index[f] \in 1..Len(Groups[Group[f]])
         /\ Groups[Group[f]][Index[f]] = f
<1>1. PICK g \in 1..10 : f \in Elements(Groups[g])
  BY DEF Functions
<1>2. Group[f] \in 1..10 /\ f \in Elements(Groups[Group[f]])
  BY <1>1 DEF Group
<1>3. PICK i \in 1..Len(Groups[Group[f]]) : Groups[Group[f]][i] = f
  BY <1>2 DEF Elements
<1> QED
  BY <1>2, <1>3 DEF Index

\* The order of loading is total.
LEMMA EarlierTotal ==
  ASSUME NEW d \in Functions, NEW e \in Functions, ~Earlier(d, e), ~Earlier(e, d)
  PROVE  d = e
<1>1. Group[d] \in 1..10 /\ Group[e] \in 1..10
  BY Places
<1>2. /\ Index[d] \in 1..Len(Groups[Group[d]]) /\ Len(Groups[Group[d]]) \in Nat
      /\ Index[e] \in 1..Len(Groups[Group[e]]) /\ Len(Groups[Group[e]]) \in Nat
  BY <1>1, Places, GroupLengths
<1>3. Group[d] = Group[e] /\ Index[d] = Index[e]
  BY <1>1, <1>2, SMTT(20) DEF Earlier
<1> QED
  BY <1>3, Places
-----------------------------------------------------------------------------
(***************************************************************************)
(* The loader.                                                             *)
(***************************************************************************)
\* A thread has entries to load only while it loads, and takes them in order; whoever has
\* come through has found the library open.
Loads ==
    /\ \A t \in Threads : ~Loading(t) => todo[t] = {}
    /\ \A t \in Threads : phase[t] = "store" => current[t] \in Earliest(todo[t])
    /\ handle => opens > 0
    /\ \A t \in Threads : phase[t] = "ok" \/ Loading(t) => opens > 0
    /\ opens = 0 => table = {}

\* While nobody clears the handle, dlsym finds what the library has, and a thread that has still
\* to load an entry has still to load the missing symbols before it.
Undisturbed ==
    ~disturbed =>
        /\ \A t \in Threads : Loading(t) => handle
        /\ \A t \in Threads : phase[t] = "store" => (found[t] <=> current[t] \notin missing)
        /\ \A t \in Threads : \A e \in todo[t], d \in missing :
              Group[e] = Group[d] /\ ~Earlier(e, d) => d \in todo[t]

LInv == LoaderTypeOK /\ Loads /\ Undisturbed /\ NullsExplained

\* What a creation relies on from one state of the loader to the next.
Onward == missing' = missing /\ (disturbed => disturbed') /\ (opens > 0 => opens' > 0)

LEMMA LoaderStarts == LoaderInit => LInv
<1> SUFFICES ASSUME LoaderInit PROVE LInv
  OBVIOUS
<1> USE DEF LoaderInit
<1>1. LoaderTypeOK
  BY DEF LoaderTypeOK
<1>2. \A t \in Threads : ~Loading(t)
  BY DEF Loading
<1>3. Loads /\ Undisturbed /\ NullsExplained
  BY <1>2 DEF Loads, Undisturbed, NullsExplained
<1> QED
  BY <1>1, <1>3 DEF LInv

\* Steps that neither open the library nor change an entry.
LEMMA PassingKept ==
  ASSUME LInv, NEW t \in Threads,
         \/ Check(t) \/ PathFails(t) \/ OpenFails(t)
         \/ phase[t] \in {"ok", "err"} /\ Leave(t)
  PROVE  LInv' /\ Onward
<1>1. /\ ~Loading(t) /\ ~Loading(t)' /\ phase'[t] \in {"out", "open", "ok", "err"}
      /\ \A u \in Threads \ {t} : phase'[u] = phase[u]
      /\ UNCHANGED <<missing, opens, table, todo, current, found>>
      /\ phase' \in [Threads -> {"out", "open", "load", "store", "ok", "err"}]
  BY DEF LInv, LoaderTypeOK, Loading, Check, PathFails, OpenFails, Leave, Phase
<1>2. \A u \in Threads : Loading(u)' <=> Loading(u)
  BY <1>1 DEF Loading
<1>3. /\ disturbed => disturbed'
      /\ handle' => handle
      /\ ~disturbed' => ~disturbed /\ (handle' = handle \/ \A u \in Threads : ~Loading(u))
      /\ phase'[t] = "ok" => handle \/ phase[t] = "ok"
      /\ handle' \in BOOLEAN /\ disturbed' \in BOOLEAN
  <2>1. CASE OpenFails(t)
    <3>1. /\ handle' = FALSE /\ phase'[t] = "err"
          /\ disturbed' = (disturbed \/ \E u \in Threads : Loading(u))
      BY <2>1 DEF OpenFails, Phase, LInv, LoaderTypeOK
    <3> QED
      BY <3>1
  <2>2. CASE Check(t)
    BY <2>2 DEF LInv, LoaderTypeOK, Check, Phase
  <2>3. CASE PathFails(t) \/ Leave(t)
    BY <2>3 DEF LInv, LoaderTypeOK, PathFails, Leave, Phase
  <2> QED
    BY <2>1, <2>2, <2>3
<1>4. LoaderTypeOK'
  BY <1>1, <1>3 DEF LInv, LoaderTypeOK
<1>5. Loads'
  BY <1>1, <1>2, <1>3 DEF LInv, Loads, Earliest
<1>6. Undisturbed'
  BY <1>1, <1>2, <1>3 DEF LInv, Undisturbed, Loading
<1>7. NullsExplained'
  BY <1>1, <1>3 DEF LInv, NullsExplained, Withheld
<1> QED
  BY <1>1, <1>3, <1>4, <1>5, <1>6, <1>7 DEF LInv, Onward

\* The library is open: everything is to be loaded.
LEMMA OpenKept ==
  ASSUME LInv, NEW t \in Threads, Open(t)
  PROVE  LInv' /\ Onward
<1> USE DEF Open, Phase
<1>1. /\ ~Loading(t) /\ Loading(t)' /\ todo'[t] = Followed /\ phase'[t] = "load"
      /\ \A u \in Threads \ {t} : /\ phase'[u] = phase[u] /\ todo'[u] = todo[u]
                                  /\ Loading(u)' <=> Loading(u)
      /\ handle' /\ opens' \in Nat /\ opens' > 0
      /\ UNCHANGED <<missing, table, current, found, disturbed>>
  BY DEF LInv, LoaderTypeOK, Loading
<1>2. LoaderTypeOK'
  BY DEF LInv, LoaderTypeOK
<1>3. Loads'
  BY <1>1 DEF LInv, Loads, Earliest
<1>4. Undisturbed'
  BY <1>1 DEF LInv, LoaderTypeOK, Undisturbed
<1>5. NullsExplained'
  <2>1. ASSUME ~disturbed, NEW f \in table PROVE ~Withheld(f)
    <3>1. opens > 0
      BY DEF LInv, LoaderTypeOK, Loads
    <3>2. table \subseteq Followed
      BY DEF LInv, LoaderTypeOK
    <3> QED
      BY <2>1, <3>1, <3>2 DEF LInv, NullsExplained
  <2> QED
    BY <1>1, <2>1 DEF LInv, LoaderTypeOK, NullsExplained, Withheld
<1> QED
  BY <1>1, <1>2, <1>3, <1>4, <1>5 DEF LInv, Onward

\* dlsym is asked for the first entry that is left.
LEMMA LookupKept ==
  ASSUME LInv, NEW t \in Threads, NEW f \in Followed, Lookup(t, f)
  PROVE  LInv' /\ Onward
<1> USE DEF Lookup, Phase
<1>1. /\ Loading(t) /\ Loading(t)' /\ phase'[t] = "store" /\ current'[t] = f
      /\ \A u \in Threads \ {t} : /\ phase'[u] = phase[u] /\ current'[u] = current[u]
                                  /\ found'[u] = found[u] /\ (Loading(u)' <=> Loading(u))
      /\ f \in Earliest(todo[t])
      /\ handle => (found'[t] <=> f \notin missing)
      /\ UNCHANGED <<missing, handle, opens, table, todo, disturbed>>
  BY DEF LInv, LoaderTypeOK, Loading, Finds
<1>2. LoaderTypeOK'
  <2>1. Finds(f) \in BOOLEAN
    BY DEF Finds
  <2>2. found' \in [Threads -> BOOLEAN]
    BY <2>1 DEF LInv, LoaderTypeOK
  <2> QED
    BY <2>2 DEF LInv, LoaderTypeOK
<1>3. Loads'
  BY <1>1 DEF LInv, Loads, Earliest
<1>4. Undisturbed'
  BY <1>1 DEF LInv, LoaderTypeOK, Undisturbed
<1>5. NullsExplained'
  BY <1>1 DEF LInv, NullsExplained, Withheld
<1> QED
  BY <1>1, <1>2, <1>3, <1>4, <1>5 DEF LInv, Onward

\* An entry that was found is kept; one that was not takes the rest of its group with it.
LEMMA StoreKept ==
  ASSUME LInv, NEW t \in Threads, Store(t)
  PROVE  LInv' /\ Onward
<1> DEFINE c == current[t]
<1> USE DEF Store, Phase
<1>1. /\ Loading(t) /\ c \in Followed /\ c \in todo[t] /\ opens > 0 /\ todo[t] \subseteq Followed
      /\ \A e \in todo[t] : ~Earlier(e, c)
  BY DEF LInv, LoaderTypeOK, Loads, Loading, Earliest
<1>2. /\ todo'[t] = IF found[t] THEN todo[t] \ {c} ELSE {e \in todo[t] : Group[e] # Group[c]}
      /\ phase'[t] = (IF todo'[t] = {} THEN "ok" ELSE "load")
      /\ \A u \in Threads \ {t} : /\ todo'[u] = todo[u] /\ phase'[u] = phase[u]
                                  /\ current'[u] = current[u] /\ found'[u] = found[u]
                                  /\ Loading(u)' <=> Loading(u)
      /\ UNCHANGED <<missing, handle, opens, disturbed>>
  BY DEF LInv, LoaderTypeOK, Rest, Loading
<1>3. todo'[t] \subseteq todo[t] /\ (Loading(t)' <=> todo'[t] # {})
  BY <1>2 DEF Loading
<1>4. LoaderTypeOK'
  <2>1. todo' \in [Threads -> SUBSET Followed]
    BY <1>1, <1>3 DEF LInv, LoaderTypeOK
  <2>2. phase' \in [Threads -> {"out", "open", "load", "store", "ok", "err"}]
    BY DEF LInv, LoaderTypeOK
  <2>3. current' \in [Threads -> Followed \cup {"none"}] /\ found' \in [Threads -> BOOLEAN]
    BY DEF LInv, LoaderTypeOK
  <2>4. table' \in SUBSET Followed
    BY <1>1 DEF LInv, LoaderTypeOK
  <2> QED
    BY <1>2, <2>1, <2>2, <2>3, <2>4 DEF LInv, LoaderTypeOK
<1>5. Loads'
  BY <1>1, <1>2, <1>3 DEF LInv, Loads, Earliest
<1>6. ASSUME ~disturbed
      PROVE  /\ found[t] <=> c \notin missing
             /\ \A e \in todo[t], d \in missing :
                   Group[e] = Group[d] /\ ~Earlier(e, d) => d \in todo[t]
  BY <1>6 DEF LInv, Undisturbed
<1>7. Undisturbed'
  <2> SUFFICES ASSUME ~disturbed PROVE Undisturbed'
    BY <1>2 DEF Undisturbed
  <2>1. \A u \in Threads : Loading(u)' => handle'
    BY <1>1, <1>2 DEF LInv, Undisturbed
  <2>2. \A u \in Threads : phase'[u] = "store" => (found'[u] <=> current'[u] \notin missing')
    BY <1>2 DEF LInv, Undisturbed
  <2>3. ASSUME NEW e \in todo'[t], NEW d \in missing, Group[e] = Group[d], ~Earlier(e, d)
        PROVE  d \in todo'[t]
    BY <1>2, <1>3, <1>6, <2>3
  <2>4. \A u \in Threads : \A e \in todo'[u], d \in missing' :
          Group[e] = Group[d] /\ ~Earlier(e, d) => d \in todo'[u]
    BY <1>2, <2>3 DEF LInv, Undisturbed
  <2> QED
    BY <2>1, <2>2, <2>4 DEF Undisturbed
<1>8. NullsExplained'
  <2> SUFFICES ASSUME ~disturbed, NEW f \in Followed
               PROVE  /\ f \in table' => ~Withheld(f)
                      /\ f \notin table' => Withheld(f) \/ \E u \in Threads : f \in todo'[u]
    BY <1>2 DEF NullsExplained, Withheld
  <2>1. /\ f \in table => ~Withheld(f)
        /\ f \notin table => Withheld(f) \/ \E u \in Threads : f \in todo[u]
    BY <1>1 DEF LInv, NullsExplained
  <2>2. CASE found[t]
    <3>1. ~Withheld(c)
      <4> SUFFICES ASSUME NEW d \in missing, Group[d] = Group[c], ~Earlier(c, d) PROVE FALSE
        BY DEF Withheld
      <4>1. d \in todo[t]
        BY <1>1, <1>6
      <4>2. d \in Functions /\ c \in Functions /\ ~Earlier(d, c)
        BY <1>1, <4>1, LoaderConstantsOK
      <4> QED
        BY <1>6, <2>2, <4>2, EarlierTotal
    <3>2. table' = table \cup {c}
      BY <2>2
    <3>3. ASSUME f \notin table', NEW u \in Threads, f \in todo[u] PROVE f \in todo'[u]
      <4>1. CASE u = t
        <5>1. todo'[t] = todo[t] \ {c}
          BY <1>2, <2>2
        <5> QED
          BY <3>2, <3>3, <4>1, <5>1
      <4>2. CASE u # t
        BY <1>2, <3>3, <4>2
      <4> QED
        BY <4>1, <4>2
    <3>4. f \in table' => ~Withheld(f)
      BY <2>1, <3>1, <3>2
    <3>5. f \notin table' => Withheld(f) \/ \E u \in Threads : f \in todo[u]
      BY <2>1, <3>2
    <3> QED
      BY <3>3, <3>4, <3>5
  <2>3. CASE ~found[t]
    <3>1. c \in missing /\ table' = table \ {c}
      BY <1>6, <2>3
    <3>2. \A e \in todo[t] : e \in todo'[t] \/ Withheld(e)
      BY <1>1, <1>2, <2>3, <3>1 DEF Withheld
    <3>3. Withheld(c)
      BY <1>1, <3>1 DEF Withheld
    <3> QED
      BY <1>2, <2>1, <3>1, <3>2, <3>3
  <2> QED
    BY <2>2, <2>3
<1> QED
  BY <1>1, <1>2, <1>4, <1>5, <1>7, <1>8 DEF LInv, Onward

\* Any step of the loader.
LEMMA LoaderKept ==
  ASSUME LInv, NEW t \in Threads,
         InitOckRpcDl(t) \/ (phase[t] \in {"ok", "err"} /\ Leave(t)) \/ UNCHANGED loaderVars
  PROVE  LInv' /\ Onward
<1>1. CASE UNCHANGED loaderVars
  BY <1>1 DEF loaderVars, LInv, LoaderTypeOK, Loads, Undisturbed, NullsExplained, Withheld,
     Loading, Earliest, Onward
<1> QED
  BY <1>1, PassingKept, OpenKept, LookupKept, StoreKept DEF InitOckRpcDl
-----------------------------------------------------------------------------
(***************************************************************************)
(* The logger.                                                             *)
(***************************************************************************)
\* The mutex is held by whoever makes the object, and nobody has an object that is not there.
Making ==
    /\ \A t \in Threads : holder = t <=> logging[t] \in {"make", "level"}
    /\ made = IF object = "none" THEN 0 ELSE 1
    /\ object = "none" => /\ mLogFunc = NoHandler
                          /\ \A t \in Threads : logging[t] \notin {"have", "setGlobal"}

\* The two places of the handler agree, but while it is being set; what libhcom has been
\* given comes from them.
Agreeing ==
    /\ clean # {} => Setting = {}
    /\ ~torn => /\ object = "raw" => mLogFunc = NoHandler
                /\ \A t \in Setting : Setting = {t} /\ chosen[t] = mLogFunc
                /\ Setting = {} => gLogFunc \in {mLogFunc, HcomLog}
                /\ settled => hcomLogger \in {mLogFunc, HcomLog}

GInv == LoggerTypeOK /\ Making /\ Agreeing /\ MadeOnce

LEMMA LoggerStarts == LoggerInit => GInv
<1> SUFFICES ASSUME LoggerInit PROVE GInv
  OBVIOUS
<1> USE DEF LoggerInit
<1>1. LoggerTypeOK
  BY DEF LoggerTypeOK
<1>2. MadeOnce
  BY DEF MadeOnce
<1>3. Making
  BY LoggerConstantsOK DEF Making
<1>4. Setting = {}
  BY DEF Setting
<1>5. Agreeing
  BY <1>4 DEF Agreeing
<1> QED
  BY <1>1, <1>2, <1>3, <1>5 DEF GInv

\* Nothing about handlers changes on the way to the object, or in a log message.
LEMMA InstanceKept ==
  ASSUME GInv, NEW t \in Threads, InstanceStep(t) \/ Log(t)
  PROVE  GInv'
<1> USE DEF At, Go
<1>1. /\ UNCHANGED <<mLogFunc, gLogFunc, hcomLogger, chosen, torn, clean, settled>>
      /\ logging[t] # "setGlobal" /\ logging'[t] # "setGlobal"
      /\ \A u \in Threads \ {t} : logging'[u] = logging[u]
      /\ logging' \in [Threads -> {"out", "lock", "make", "level", "null", "have",
                                   "setGlobal", "default", "pass"}]
  BY DEF InstanceStep, Instance, LockMutex, Make, SetLogLevel, ReadAgain, Log, GInv, LoggerTypeOK
<1>2. Setting' = Setting
  BY <1>1 DEF Setting
<1>3. CASE Instance(t)
  <2>1. /\ logging[t] = "out" /\ logging'[t] = (IF object = "none" THEN "lock" ELSE "have")
        /\ UNCHANGED <<object, made, holder, level>>
    BY <1>3 DEF Instance, GInv, LoggerTypeOK
  <2> QED
    BY <1>1, <1>2, <2>1 DEF GInv, LoggerTypeOK, Making, Agreeing, MadeOnce
<1>4. CASE LockMutex(t)
  <2>1. /\ logging[t] = "lock" /\ logging'[t] = "make" /\ holder = NoThread /\ holder' = t
        /\ UNCHANGED <<object, made, level>>
    BY <1>4 DEF LockMutex, GInv, LoggerTypeOK
  <2>2. \A u \in Threads : holder # u
    BY <2>1, LoggerConstantsOK
  <2> QED
    BY <1>1, <1>2, <2>1, <2>2 DEF GInv, LoggerTypeOK, Making, Agreeing, MadeOnce
<1>5. CASE Make(t)
  <2>1. holder = t /\ logging[t] = "make" /\ level' = level
    BY <1>5 DEF Make, GInv, Making
  <2>2. CASE object = "none"
    <3>1. /\ logging'[t] = "level" /\ holder' = holder
          /\ \/ object' \in {"raw", "ready"} /\ made' = 1
             \/ UNCHANGED <<object, made>>
      BY <1>5, <2>2 DEF Make, GInv, LoggerTypeOK, Making
    <3> QED
      BY <1>1, <1>2, <2>1, <2>2, <3>1 DEF GInv, LoggerTypeOK, Making, Agreeing, MadeOnce
  <2>3. CASE object # "none"
    <3>1. /\ holder' = NoThread /\ logging'[t] = "have" /\ UNCHANGED <<object, made>>
      BY <1>5, <2>3 DEF Make, GInv, LoggerTypeOK, Making
    <3> QED
      BY <1>1, <1>2, <2>1, <2>3, <3>1, LoggerConstantsOK
         DEF GInv, LoggerTypeOK, Making, Agreeing, MadeOnce
  <2> QED
    BY <2>2, <2>3
<1>6. CASE SetLogLevel(t)
  <2>1. /\ logging[t] = "level" /\ holder' = NoThread
        /\ logging'[t] = (IF object = "none" THEN "null" ELSE "have")
        /\ level' = "environment" /\ UNCHANGED <<object, made>> /\ object # "raw"
    BY <1>6 DEF SetLogLevel, GInv, LoggerTypeOK
  <2>2. holder = t
    BY <2>1 DEF GInv, Making
  <2> QED
    BY <1>1, <1>2, <2>1, <2>2, LoggerConstantsOK
       DEF GInv, LoggerTypeOK, Making, Agreeing, MadeOnce
<1>7. CASE Log(t)
  <2>1. /\ logging[t] \in {"have", "null"} /\ logging'[t] = "out"
        /\ UNCHANGED <<object, made, holder, level>>
    BY <1>7 DEF Log, GInv, LoggerTypeOK
  <2> QED
    BY <1>1, <1>2, <2>1 DEF GInv, LoggerTypeOK, Making, Agreeing, MadeOnce
<1>8. CASE ReadAgain(t)
  <2>1. /\ logging[t] = "null" /\ logging'[t] = "have" /\ object # "none"
        /\ UNCHANGED <<object, made, holder, level>>
    BY <1>8 DEF ReadAgain, GInv, LoggerTypeOK
  <2> QED
    BY <1>1, <1>2, <2>1 DEF GInv, LoggerTypeOK, Making, Agreeing, MadeOnce
<1> QED
  BY <1>3, <1>4, <1>5, <1>6, <1>7, <1>8 DEF InstanceStep

\* A handler is set in two steps; a second thread that sets one meanwhile is noticed.
LEMMA SetHandlerKept ==
  ASSUME GInv, NEW t \in Threads, NEW h \in Handlers \cup {NoHandler},
         SetExternalLogFunction(t, h) \/ SetGlobal(t)
  PROVE  GInv'
<1> USE DEF At, Go
<1>1. /\ UNCHANGED <<object, made, holder, level, hcomLogger>>
      /\ logging[t] \in {"have", "setGlobal"} /\ logging'[t] \in {"out", "setGlobal"}
      /\ \A u \in Threads \ {t} : logging'[u] = logging[u] /\ chosen'[u] = chosen[u]
      /\ object # "none"
  BY DEF SetExternalLogFunction, SetGlobal, GInv, LoggerTypeOK, Making
<1>2. Making' /\ MadeOnce'
  BY <1>1 DEF GInv, Making, MadeOnce
<1>3. LoggerTypeOK'
  <2>1. CASE SetExternalLogFunction(t, h)
    BY <2>1 DEF SetExternalLogFunction, GInv, LoggerTypeOK
  <2>2. CASE SetGlobal(t)
    BY <2>2 DEF SetGlobal, GInv, LoggerTypeOK
  <2> QED
    BY <2>1, <2>2
<1>4. CASE SetExternalLogFunction(t, h)
  <2>1. /\ mLogFunc' = h /\ chosen'[t] = h /\ clean' = {} /\ settled' = FALSE
        /\ torn' = (object = "raw" \/ Setting # {})
    BY <1>4 DEF SetExternalLogFunction, GInv, LoggerTypeOK
  <2>2. Setting' = Setting \cup {t}
    BY <1>1, <1>4 DEF Setting, SetExternalLogFunction, GInv, LoggerTypeOK
  <2>3. Agreeing'
    BY <1>1, <2>1, <2>2 DEF Agreeing
  <2> QED
    BY <1>2, <1>3, <2>3 DEF GInv
<1>5. CASE SetGlobal(t)
  <2>1. /\ gLogFunc' = chosen[t] /\ UNCHANGED <<mLogFunc, torn, clean, settled>>
        /\ t \in Setting
    BY <1>5 DEF SetGlobal, Setting
  <2>2. Setting' = Setting \ {t}
    BY <1>1, <1>5 DEF Setting, SetGlobal, GInv, LoggerTypeOK
  <2>3. Agreeing'
    BY <1>1, <2>1, <2>2 DEF GInv, Agreeing
  <2> QED
    BY <1>2, <1>3, <2>3 DEF GInv
<1> QED
  BY <1>4, <1>5

\* The logger's part of a creation.
LEMMA HandLoggerKept ==
  ASSUME GInv, NEW t \in Threads, NEW reached \in BOOLEAN,
         TestGlobal(t) \/ DefaultGlobal(t) \/ PassGlobal(t, reached)
  PROVE  GInv'
<1> USE DEF At, Go
<1>1. /\ UNCHANGED <<object, made, holder, level, mLogFunc, chosen, torn>>
      /\ logging[t] \in {"out", "default", "pass"} /\ logging'[t] \in {"out", "default", "pass"}
      /\ \A u \in Threads \ {t} : logging'[u] = logging[u]
      /\ logging' \in [Threads -> {"out", "lock", "make", "level", "null", "have", "setGlobal",
                                   "default", "pass"}]
  BY DEF TestGlobal, DefaultGlobal, PassGlobal, GInv, LoggerTypeOK
<1>2. Making' /\ MadeOnce'
  BY <1>1 DEF GInv, Making, MadeOnce
<1>3. Setting' = Setting
  BY <1>1 DEF Setting
<1>4. CASE TestGlobal(t)
  <2>1. /\ clean' = (IF Setting = {} THEN clean \cup {t} ELSE clean \ {t})
        /\ UNCHANGED <<gLogFunc, hcomLogger, settled>>
    BY <1>4 DEF TestGlobal
  <2> QED
    BY <1>1, <1>2, <1>3, <2>1 DEF GInv, LoggerTypeOK, Agreeing
<1>5. CASE DefaultGlobal(t)
  <2>1. gLogFunc' = HcomLog /\ UNCHANGED <<hcomLogger, clean, settled>>
    BY <1>5 DEF DefaultGlobal
  <2> QED
    BY <1>1, <1>2, <1>3, <2>1 DEF GInv, LoggerTypeOK, Agreeing
<1>6. CASE PassGlobal(t, reached)
  <2>1. /\ hcomLogger' = (IF reached THEN gLogFunc ELSE hcomLogger)
        /\ settled' = (IF reached THEN t \in clean ELSE settled)
        /\ clean' = clean \ {t} /\ gLogFunc' = gLogFunc
    BY <1>6 DEF PassGlobal
  <2>2. LoggerTypeOK'
    <3>1. CASE reached
      <4>1. hcomLogger' = gLogFunc /\ settled' = (t \in clean)
        BY <2>1, <3>1
      <4>2. settled' \in BOOLEAN
        BY <4>1
      <4> QED
        BY <1>1, <2>1, <4>1, <4>2 DEF GInv, LoggerTypeOK
    <3>2. CASE ~reached
      BY <1>1, <2>1, <3>2 DEF GInv, LoggerTypeOK
    <3> QED
      BY <3>1, <3>2
  <2>3. Agreeing'
    <3>1. CASE reached
      BY <1>1, <1>3, <2>1, <3>1 DEF GInv, Agreeing
    <3>2. CASE ~reached
      BY <1>1, <1>3, <2>1, <3>2 DEF GInv, Agreeing
    <3> QED
      BY <3>1, <3>2
  <2> QED
    BY <1>2, <2>2, <2>3 DEF GInv
<1> QED
  BY <1>4, <1>5, <1>6

\* The object arrives where another thread has already set its handler, or with none.
LEMMA ConstructKept == GInv /\ Construct => GInv'
<1> SUFFICES ASSUME GInv, Construct PROVE GInv'
  OBVIOUS
<1>1. Setting' = Setting
  BY DEF Construct, Setting
<1> QED
  BY <1>1 DEF Construct, GInv, LoggerTypeOK, Making, Agreeing, MadeOnce

LEMMA LoggerStutters == GInv /\ UNCHANGED loggerVars => GInv'
  BY DEF loggerVars, GInv, LoggerTypeOK, Making, Agreeing, MadeOnce, Setting

\* What Agreeing is for.
LEMMA TargetAgrees == GInv => LibhcomLogsToUser
<1> SUFFICES ASSUME GInv, settled, ~torn PROVE Target = mLogFunc
  BY DEF LibhcomLogsToUser
<1>1. hcomLogger \in {mLogFunc, HcomLog}
  BY DEF GInv, Agreeing
<1> QED
  BY <1>1 DEF Target
-----------------------------------------------------------------------------
(***************************************************************************)
(* Creations.                                                              *)
(***************************************************************************)
\* The wrapper of Service_Create answers a null entry with an error.
LEMMA CreationNeedsService == Answer["serviceCreate"] = "error"
<1> DEFINE f == "serviceCreate"
<1>1. f \in Functions /\ f \in DOMAIN ServiceInitAnswers
  <2>1. ServiceInitFunc[2] = f /\ 2 \in 1..Len(ServiceInitFunc)
    BY DEF ServiceInitFunc
  <2>2. f \in Elements(ServiceInitFunc)
    BY <2>1 DEF Elements
  <2>3. Groups[8] = ServiceInitFunc
    BY DEF Groups
  <2> QED
    BY <2>2, <2>3 DEF ServiceInitAnswers, Answers, Functions
<1>2. f \notin DOMAIN ServiceHandlerAnswers
  BY DEF ServiceHandlerAnswers, Answers, Elements, ServiceHandlerFunc
<1>3. f \notin DOMAIN ServiceRndvHandlerAnswers
  BY DEF ServiceRndvHandlerAnswers, Answers, Elements, ServiceRndvHandlerFunc
<1>4. f \notin DOMAIN RndvAnswers
  BY DEF RndvAnswers, Answers, Elements, RndvFunc
<1>5. f \notin DOMAIN SendAnswers
  BY DEF SendAnswers, Answers, Elements, SendFunc
<1>6. f \notin DOMAIN CallAnswers
  BY DEF CallAnswers, Answers, Elements, CallFunc
<1>7. f \notin DOMAIN MemoryRegionAnswers
  BY DEF MemoryRegionAnswers, Answers, Elements, MemoryRegionFunc
<1>8. f \notin DOMAIN OnesideAnswers
  BY DEF OnesideAnswers, Answers
<1>9. f \notin DOMAIN ChannelHandleAnswers
  BY DEF ChannelHandleAnswers, Elements, ChannelHandleFunc
<1>10. f \notin DOMAIN CreateRegisterAnswers
  BY DEF CreateRegisterAnswers, Elements, CreateRegisterFunc
<1>11. f \notin DOMAIN AllocatorAnswers
  BY DEF AllocatorAnswers, Answers, Elements, AllocatorFunc
<1>12. \A answers \in Wrappers : f \in DOMAIN answers => answers = ServiceInitAnswers
  BY <1>2, <1>3, <1>4, <1>5, <1>6, <1>7, <1>8, <1>9, <1>10, <1>11 DEF Wrappers
<1>13. ServiceInitAnswers \in Wrappers
  BY DEF Wrappers
<1>14. (CHOOSE answers \in Wrappers : f \in DOMAIN answers) = ServiceInitAnswers
  BY <1>1, <1>12, <1>13
<1>15. ServiceInitAnswers[f] = "error"
  BY <1>1 DEF ServiceInitAnswers, Answers
<1> QED
  BY <1>1, <1>14, <1>15 DEF Answer

OwnTypeOK ==
    /\ doing \in [Threads -> {"nothing", "creating", "setting"}]
    /\ next \in [Threads -> 0..6]
    /\ result \in [Threads -> {"none", "ok", "err"}]
    /\ gaps \in [Threads -> SUBSET Followed]
    /\ raced \in [Threads -> BOOLEAN]

\* A creation past its first step has left the loader and found the library open.
Stages ==
    \A t \in Threads :
        /\ doing[t] # "creating" => next[t] = 0
        /\ next[t] # 0 \/ doing[t] # "creating" => phase[t] = "out"
        /\ next[t] # 0 \/ result[t] = "ok" => opens > 0

\* What a creation has skipped, at every moment of it and afterwards.
GapsExplained ==
    \A t \in Threads : /\ "serviceCreate" \notin gaps[t]
                       /\ ~raced[t] /\ ~disturbed => \A f \in gaps[t] : Withheld(f)

SInv == OwnTypeOK /\ LInv /\ GInv /\ Stages /\ GapsExplained

LEMMA CallsFollowed == Len(Calls) = 5 /\ \A n \in 1..5 : Calls[n] \in Followed
<1>1. Len(Calls) = 5
  BY DEF Calls
<1> QED
  BY <1>1, StartupConstantsOK DEF Elements

LEMMA TypesTogether == SInv => TypeOK
<1>1. Len(Calls) + 1 = 6
  BY CallsFollowed
<1> QED
  BY <1>1 DEF SInv, OwnTypeOK, LInv, GInv, TypeOK

\* Who enters or leaves the loader is the only one to move there.
LEMMA LoaderMoves ==
  ASSUME SInv, NEW t \in Threads, InitOckRpcDl(t) \/ Leave(t)
  PROVE  /\ \A u \in Threads \ {t} : phase'[u] = phase[u]
         /\ Leave(t) => phase'[t] = "out"
  BY DEF SInv, LInv, LoaderTypeOK, InitOckRpcDl, Check, PathFails, Open, OpenFails, Lookup,
     Store, Leave, Phase

LEMMA GapsStay ==
  ASSUME SInv, Onward, LInv', UNCHANGED <<gaps, raced>>
  PROVE  GapsExplained'
  BY DEF SInv, GapsExplained, Onward, Withheld, LInv, LoaderTypeOK

\* A call through the table, by a thread that is past the loader.
LEMMA LooksKept ==
  ASSUME SInv, NEW t \in Threads, NEW f \in Followed, Looks(t, f), UNCHANGED loaderVars,
         phase[t] = "out", opens > 0
  PROVE  /\ GapsExplained'
         /\ gaps' \in [Threads -> SUBSET Followed] /\ raced' \in [Threads -> BOOLEAN]
<1> DEFINE others == \E u \in Threads \ {t} : Loading(u)
<1>1. /\ gaps'[t] = (IF f \in table \/ Told(f) THEN gaps[t] ELSE gaps[t] \cup {f})
      /\ raced'[t] = (raced[t] \/ others)
      /\ \A u \in Threads \ {t} : gaps'[u] = gaps[u] /\ raced'[u] = raced[u]
      /\ gaps' \in [Threads -> SUBSET Followed]
  BY DEF SInv, OwnTypeOK, Looks
<1>2. raced' \in [Threads -> BOOLEAN]
  BY DEF SInv, OwnTypeOK, Looks
<1>3. missing' = missing /\ disturbed' = disturbed
  BY DEF loaderVars
<1>4. f = "serviceCreate" => f \in table \/ Told(f)
  BY CreationNeedsService DEF Told
<1>5. ASSUME ~others, ~disturbed, f \notin table PROVE Withheld(f)
  <2>1. \A u \in Threads : todo[u] = {}
    BY <1>5 DEF SInv, LInv, Loads, Loading
  <2> QED
    BY <1>5, <2>1 DEF SInv, LInv, NullsExplained
<1>6. "serviceCreate" \notin gaps'[t]
  BY <1>1, <1>4 DEF SInv, GapsExplained
<1>7. ASSUME ~raced'[t], ~disturbed, NEW e \in gaps'[t] PROVE Withheld(e)
  <2>1. ~raced[t] /\ ~others
    BY <1>1, <1>7
  <2>2. CASE e \in gaps[t]
    BY <1>7, <2>1, <2>2 DEF SInv, GapsExplained
  <2>3. CASE e \notin gaps[t]
    <3>1. e = f /\ f \notin table
      BY <1>1, <1>7, <2>3
    <3> QED
      BY <1>5, <1>7, <2>1, <3>1
  <2> QED
    BY <2>2, <2>3
<1>8. GapsExplained'
  BY <1>1, <1>3, <1>6, <1>7 DEF SInv, GapsExplained, Withheld
<1> QED
  BY <1>1, <1>2, <1>8

\* The beginning of a creation: the loader.
LEMMA LoadStepKept ==
  ASSUME SInv, NEW t \in Threads, Create(t) \/ Load(t) \/ CreateFails(t)
  PROVE  SInv'
<1>1. CASE Create(t)
  <2>1. LInv' /\ Onward /\ GInv'
    BY <1>1, LoaderKept, LoggerStutters DEF Create, SInv
  <2>2. OwnTypeOK' /\ phase' = phase /\ opens' = opens
    BY <1>1 DEF Create, loaderVars, SInv, OwnTypeOK
  <2>3. Stages'
    BY <1>1, <2>2 DEF Create, SInv, OwnTypeOK, Stages
  <2>4. gaps'[t] = {} /\ \A u \in Threads \ {t} : gaps'[u] = gaps[u] /\ raced'[u] = raced[u]
    BY <1>1 DEF Create, SInv, OwnTypeOK
  <2>5. GapsExplained'
    BY <2>1, <2>4 DEF SInv, GapsExplained, Onward, Withheld, LInv, LoaderTypeOK
  <2> QED
    BY <2>1, <2>2, <2>3, <2>5 DEF SInv
<1>2. CASE Load(t)
  <2>1. LInv' /\ Onward /\ GInv' /\ \A u \in Threads \ {t} : phase'[u] = phase[u]
    BY <1>2, LoaderKept, LoggerStutters, LoaderMoves DEF Load, SInv
  <2>2. doing[t] = "creating" /\ next[t] = 0 /\ UNCHANGED <<doing, next, result, gaps, raced>>
    BY <1>2 DEF Load, Creating
  <2>3. OwnTypeOK'
    BY <2>2 DEF SInv, OwnTypeOK
  <2>4. Stages'
    BY <2>1, <2>2 DEF SInv, Stages, Onward
  <2>5. GapsExplained'
    BY <2>1, <2>2, GapsStay
  <2> QED
    BY <2>1, <2>3, <2>4, <2>5 DEF SInv
<1>3. CASE CreateFails(t)
  <2>1. /\ LInv' /\ Onward /\ GInv' /\ phase'[t] = "out"
        /\ \A u \in Threads \ {t} : phase'[u] = phase[u]
    BY <1>3, LoaderKept, LoggerStutters, LoaderMoves DEF CreateFails, SInv
  <2>2. OwnTypeOK' /\ UNCHANGED <<gaps, raced>>
    BY <1>3 DEF CreateFails, Returns, SInv, OwnTypeOK
  <2>3. Stages'
    BY <1>3, <2>1 DEF CreateFails, Returns, SInv, OwnTypeOK, Stages, Onward
  <2>4. GapsExplained'
    BY <2>1, <2>2, GapsStay
  <2> QED
    BY <2>1, <2>2, <2>3, <2>4 DEF SInv
<1> QED
  BY <1>1, <1>2, <1>3

\* The logger is looked at, and handed to libhcom.
LEMMA LoggerStepKept ==
  ASSUME SInv, NEW t \in Threads, CheckLogger(t) \/ PassLogger(t)
  PROVE  SInv'
<1>1. CASE CheckLogger(t)
  <2>1. /\ LInv' /\ Onward /\ phase'[t] = "out" /\ opens > 0
        /\ \A u \in Threads \ {t} : phase'[u] = phase[u]
    BY <1>1, LoaderKept, LoaderMoves DEF CheckLogger, SInv, LInv, Loads
  <2>2. GInv'
    BY <1>1, HandLoggerKept DEF CheckLogger, SInv
  <2>3. OwnTypeOK' /\ UNCHANGED <<doing, result, gaps, raced>> /\ doing[t] = "creating"
    BY <1>1 DEF CheckLogger, Creating, Continues, SInv, OwnTypeOK
  <2>4. Stages'
    BY <1>1, <2>1, <2>3 DEF CheckLogger, Continues, SInv, OwnTypeOK, Stages, Onward
  <2>5. GapsExplained'
    BY <2>1, <2>3, GapsStay
  <2> QED
    BY <2>1, <2>2, <2>3, <2>4, <2>5 DEF SInv
<1>2. CASE PassLogger(t)
  <2>1. LInv' /\ Onward /\ UNCHANGED <<phase, opens, loaderVars>>
    BY <1>2, LoaderKept DEF PassLogger, SInv, loaderVars
  <2>2. next[t] = 1 /\ doing[t] = "creating" /\ phase[t] = "out" /\ opens > 0
    BY <1>2 DEF PassLogger, Creating, SInv, Stages
  <2>3. CASE DefaultGlobal(t) /\ UNCHANGED <<doing, next, result, gaps, raced>>
    <3>1. GInv'
      BY <2>3, HandLoggerKept DEF SInv
    <3>2. OwnTypeOK' /\ Stages'
      BY <2>1, <2>3 DEF SInv, OwnTypeOK, Stages
    <3> QED
      BY <2>1, <2>3, <3>1, <3>2, GapsStay DEF SInv
  <2>4. CASE PassGlobal(t, Calls[1] \in table) /\ Looks(t, Calls[1]) /\ Continues(t)
    <3>1. GInv'
      <4>1. (Calls[1] \in table) \in BOOLEAN
        OBVIOUS
      <4> QED
        BY <2>4, <4>1, HandLoggerKept DEF SInv
    <3>2. /\ GapsExplained'
          /\ gaps' \in [Threads -> SUBSET Followed] /\ raced' \in [Threads -> BOOLEAN]
      BY <2>1, <2>2, <2>4, LooksKept, CallsFollowed
    <3>3. next' \in [Threads -> 0..6] /\ UNCHANGED <<doing, result>>
          /\ \A u \in Threads \ {t} : next'[u] = next[u]
      BY <2>2, <2>4 DEF Continues, SInv, OwnTypeOK
    <3>4. OwnTypeOK'
      BY <3>2, <3>3 DEF SInv, OwnTypeOK
    <3>5. Stages'
      BY <2>1, <2>2, <3>3 DEF SInv, Stages
    <3> QED
      BY <2>1, <3>1, <3>2, <3>4, <3>5 DEF SInv
  <2> QED
    BY <1>2, <2>3, <2>4 DEF PassLogger
<1> QED
  BY <1>1, <1>2

\* The service is made and equipped.
LEMMA EquipStepKept ==
  ASSUME SInv, NEW t \in Threads, ServiceCreate(t) \/ Equip(t)
  PROVE  SInv'
<1>1. LInv' /\ Onward /\ GInv' /\ UNCHANGED <<phase, opens, loaderVars>>
  BY LoaderKept, LoggerStutters DEF ServiceCreate, Equip, SInv, loaderVars
<1>2. PICK n \in 2..5 : doing[t] = "creating" /\ next[t] = n /\ Looks(t, Calls[n])
  BY CallsFollowed DEF ServiceCreate, Equip, Creating
<1>3. phase[t] = "out" /\ opens > 0 /\ Calls[n] \in Followed
  BY <1>2, CallsFollowed DEF SInv, Stages
<1>4. /\ GapsExplained'
      /\ gaps' \in [Threads -> SUBSET Followed] /\ raced' \in [Threads -> BOOLEAN]
  BY <1>1, <1>2, <1>3, LooksKept
<1>5. CASE Continues(t)
  <2>1. next' \in [Threads -> 0..6] /\ UNCHANGED <<doing, result>>
        /\ \A u \in Threads \ {t} : next'[u] = next[u]
    BY <1>2, <1>5 DEF Continues, SInv, OwnTypeOK
  <2>2. OwnTypeOK'
    BY <1>4, <2>1 DEF SInv, OwnTypeOK
  <2>3. Stages'
    BY <1>1, <1>2, <1>3, <2>1 DEF SInv, Stages
  <2> QED
    BY <1>1, <1>4, <2>2, <2>3 DEF SInv
<1>6. CASE Returns(t, "err")
  <2>1. OwnTypeOK'
    BY <1>4, <1>6 DEF Returns, SInv, OwnTypeOK
  <2>2. Stages'
    BY <1>1, <1>3, <1>6 DEF Returns, SInv, OwnTypeOK, Stages
  <2> QED
    BY <1>1, <1>4, <2>1, <2>2 DEF SInv
<1> QED
  BY <1>5, <1>6 DEF ServiceCreate, Equip

\* A creation ends with a message; its user goes on to use the server.
LEMMA UseStepKept ==
  ASSUME SInv, NEW t \in Threads, Created(t) \/ \E r \in Used : Use(t, r)
  PROVE  SInv'
<1>1. LInv' /\ Onward /\ UNCHANGED <<phase, opens, loaderVars>>
  BY LoaderKept DEF Created, Use, SInv, loaderVars
<1>2. CASE Created(t)
  <2>1. GInv'
    BY <1>2, InstanceKept DEF Created, SInv
  <2>2. phase[t] = "out" /\ opens > 0
    BY <1>2, CallsFollowed DEF Created, Creating, SInv, Stages
  <2>3. GapsExplained'
    BY <1>1, <1>2, GapsStay DEF Created
  <2>4. CASE UNCHANGED <<doing, next, result>>
    BY <1>1, <1>2, <2>1, <2>3, <2>4 DEF Created, SInv, OwnTypeOK, Stages
  <2>5. CASE Returns(t, "ok")
    <3>1. OwnTypeOK'
      BY <1>2, <2>5 DEF Created, Returns, SInv, OwnTypeOK
    <3>2. Stages'
      BY <1>1, <2>2, <2>5 DEF Returns, SInv, OwnTypeOK, Stages
    <3> QED
      BY <1>1, <2>1, <2>3, <3>1, <3>2 DEF SInv
  <2> QED
    BY <1>2, <2>4, <2>5 DEF Created
<1>3. ASSUME NEW r \in Used, Use(t, r) PROVE SInv'
  <2>1. GInv' /\ UNCHANGED <<doing, next, result>>
    BY <1>3, LoggerStutters DEF Use, SInv
  <2>2. phase[t] = "out" /\ opens > 0 /\ Forwards[r] \in Followed
    BY <1>3, StartupConstantsOK DEF Use, SInv, Stages
  <2>3. /\ GapsExplained'
        /\ gaps' \in [Threads -> SUBSET Followed] /\ raced' \in [Threads -> BOOLEAN]
    BY <1>1, <1>3, <2>2, LooksKept DEF Use
  <2> QED
    BY <1>1, <2>1, <2>3 DEF SInv, OwnTypeOK, Stages
<1> QED
  BY <1>2, <1>3

\* A handler is set.
LEMMA SettingStepKept ==
  ASSUME SInv, NEW t \in Threads, OckRpcSetExternalLogger(t)
  PROVE  SInv'
<1>1. LInv' /\ Onward /\ UNCHANGED <<phase, opens, next, result, gaps, raced>>
  BY LoaderKept DEF OckRpcSetExternalLogger, SInv, loaderVars
<1>2. GInv'
  BY LoggerStutters, InstanceKept, SetHandlerKept, LoggerConstantsOK
     DEF OckRpcSetExternalLogger, SInv
<1>3. /\ doing[t] # "creating" /\ doing'[t] # "creating"
      /\ \A u \in Threads \ {t} : doing'[u] = doing[u]
      /\ doing' \in [Threads -> {"nothing", "creating", "setting"}]
  BY DEF OckRpcSetExternalLogger, SInv, OwnTypeOK
<1>4. OwnTypeOK' /\ Stages'
  BY <1>1, <1>3 DEF SInv, OwnTypeOK, Stages
<1> QED
  BY <1>1, <1>2, <1>4, GapsStay DEF SInv

-----------------------------------------------------------------------------
\* What holds of the loader, the logger and every creation holds after every step.
THEOREM Invariance == Spec => []SInv
<1>1. Init => SInv
  <2> SUFFICES ASSUME Init PROVE SInv
    OBVIOUS
  <2>1. LInv /\ GInv
    BY LoaderStarts, LoggerStarts DEF Init
  <2>2. OwnTypeOK /\ GapsExplained
    BY DEF Init, OwnTypeOK, GapsExplained
  <2>3. Stages
    BY DEF Init, LoaderInit, Stages
  <2> QED
    BY <2>1, <2>2, <2>3 DEF SInv
<1>2. SInv /\ [Next]_vars => SInv'
  <2> SUFFICES ASSUME SInv, [Next]_vars PROVE SInv'
    OBVIOUS
  <2>1. CASE UNCHANGED vars
    <3>1. LInv' /\ Onward /\ GInv'
      BY <2>1, LoaderKept, LoggerStutters, ThreadsExist DEF vars, SInv
    <3>2. OwnTypeOK' /\ Stages'
      BY <2>1 DEF vars, loaderVars, SInv, OwnTypeOK, Stages
    <3> QED
      BY <2>1, <3>1, <3>2, GapsStay DEF vars, SInv
  <2>2. CASE ConstructArrives
    <3>1. LInv' /\ Onward /\ GInv'
      BY <2>2, LoaderKept, ConstructKept, ThreadsExist DEF ConstructArrives, SInv
    <3>2. OwnTypeOK' /\ Stages'
      BY <2>2 DEF ConstructArrives, loaderVars, SInv, OwnTypeOK, Stages
    <3> QED
      BY <2>2, <3>1, <3>2, GapsStay DEF ConstructArrives, SInv
  <2> QED
    BY <2>1, <2>2, LoadStepKept, LoggerStepKept, EquipStepKept, UseStepKept, SettingStepKept
       DEF Next, CreateStep
<1> QED
  BY <1>1, <1>2, PTL DEF Spec

\* Types; the table never has an entry that is not followed, and no call of a creation is
\* skipped or repeated.
THEOREM TypeCorrect == Spec => []TypeOK
<1>1. SInv => TypeOK
  BY TypesTogether
<1> QED
  BY <1>1, Invariance, PTL

\* For any library and any number of threads that load it at once: HcomDlsym leaves null what
\* the library withholds and nothing else, and a second load takes nothing away.
THEOREM OnlyWithheldIsNull == Spec => []NullsExplained
<1>1. SInv => NullsExplained
  BY DEF SInv, LInv
<1> QED
  BY <1>1, Invariance, PTL

\* The double-checked creation in Hcom4dbLog::Instance makes one object.
THEOREM OneLogger == Spec => []MadeOnce
<1>1. SInv => MadeOnce
  BY DEF SInv, GInv
<1> QED
  BY <1>1, Invariance, PTL

\* The handler that OckRpcSetExternalLogger was given is where libhcom's messages go, through
\* g_logFunc or through HcomLog and mLogFunc.
THEOREM HandlerReachesLibhcom == Spec => []LibhcomLogsToUser
<1>1. SInv => LibhcomLogsToUser
  BY TargetAgrees DEF SInv
<1> QED
  BY <1>1, Invariance, PTL

\* OckRpcServerCreateWithCfg looks at the result of Service_Create alone, and yet whoever has
\* a server was refused nothing silently that the library has, unless somebody was loading.
THEOREM CreationsWhole == Spec => []CreatedWhole
<1>1. SInv => CreatedWhole
  BY DEF SInv, GapsExplained, CreatedWhole
<1> QED
  BY <1>1, Invariance, PTL
=============================================================================
