------------------------------- MODULE Logger -------------------------------
(***************************************************************************)
(* The logger of the process: the object behind Hcom4dbLog::Instance(),    *)
(* made by whoever logs first, and the handler the user sets with          *)
(* OckRpcSetExternalLogger.  The handler is kept twice, as mLogFunc in the *)
(* object and as g_logFunc, which creations of servers hand to libhcom;    *)
(* libhcom keeps what it is given.  If there is no handler, libhcom is     *)
(* given HcomLog, which forwards to the object.                            *)
(*                                                                         *)
(* Only the making of the object is under a mutex.  A thread that does not *)
(* take it may see the pointer before it sees the object ("raw"), as       *)
(* nothing orders the two stores for it.  The allocation of the object may *)
(* fail: nobody looks at the null pointer that Instance then returns, and  *)
(* whoever uses it ends the process, which is a state without steps.       *)
(***************************************************************************)
EXTENDS Naturals

CONSTANTS Threads,      \* of the process: all of them may log, set handlers and create servers
          Handlers,
          NoHandler,    \* a null handler: the object then writes to standard output
          HcomLog, NoThread

ASSUME ThreadsExist == Threads # {}

ASSUME LoggerConstantsOK == /\ NoThread \notin Threads
                            /\ NoHandler \notin Handlers /\ HcomLog \notin Handlers
                            /\ HcomLog # NoHandler

VARIABLES
    object,     \* gLogger: not there, published but not constructed, or ready
    made,       \* how often an object has been made
    holder,     \* gMutex
    level,      \* logLevel: the initial one, or the environment's
    mLogFunc, gLogFunc,
    hcomLogger, \* the handler libhcom has
    logging,    \* where each thread is; "null" is behind an allocation that has failed
    chosen,     \* the handler a thread is setting
    torn,       \* history: the last setting met another one, or an object not constructed
    clean,      \* history: the creations that no setting has met so far
    settled     \* history: libhcom's handler comes from such a creation, and none was set since

loggerVars == <<object, made, holder, level, mLogFunc, gLogFunc, hcomLogger, logging, chosen,
                torn, clean, settled>>

LoggerTypeOK ==
    /\ object \in {"none", "raw", "ready"} /\ made \in Nat
    /\ holder \in Threads \cup {NoThread}
    /\ level \in {"initial", "environment"}
    /\ mLogFunc \in Handlers \cup {NoHandler}
    /\ gLogFunc \in Handlers \cup {NoHandler, HcomLog}
    /\ hcomLogger \in Handlers \cup {NoHandler, HcomLog}
    /\ logging \in [Threads -> {"out", "lock", "make", "level", "null", "have",
                                "setGlobal", "default", "pass"}]
    /\ chosen \in [Threads -> Handlers \cup {NoHandler}]
    /\ torn \in BOOLEAN /\ settled \in BOOLEAN
    /\ clean \in SUBSET Threads

LoggerInit ==
    /\ object = "none" /\ made = 0 /\ holder = NoThread /\ level = "initial"
    /\ mLogFunc = NoHandler /\ gLogFunc = NoHandler /\ hcomLogger = NoHandler
    /\ logging = [t \in Threads |-> "out"]
    /\ chosen = [t \in Threads |-> NoHandler]
    /\ torn = FALSE /\ clean = {} /\ settled = FALSE

At(t, a)  == logging[t] = a
Go(t, a)  == logging' = [logging EXCEPT ![t] = a]
Setting   == {t \in Threads : logging[t] = "setGlobal"}
-----------------------------------------------------------------------------
(***************************************************************************)
(* Hcom4dbLog::Instance.                                                   *)
(***************************************************************************)
Instance(t) ==
    /\ At(t, "out")
    /\ Go(t, IF object = "none" THEN "lock" ELSE "have")
    /\ UNCHANGED <<object, made, holder, level, mLogFunc, gLogFunc, hcomLogger, chosen, torn,
                   clean, settled>>

LockMutex(t) ==
    /\ At(t, "lock") /\ holder = NoThread
    /\ holder' = t
    /\ Go(t, "make")
    /\ UNCHANGED <<object, made, level, mLogFunc, gLogFunc, hcomLogger, chosen, torn, clean,
                   settled>>

\* Variant: the pointer is not tested again under the mutex.
Make_untested(t) ==
    /\ At(t, "make")
    /\ object' \in {"raw", "ready"}
    /\ made' = made + 1 /\ mLogFunc' = NoHandler
    /\ Go(t, "level")
    /\ UNCHANGED <<holder, level, gLogFunc, hcomLogger, chosen, torn, clean, settled>>

\* The second test; the new object may become visible after the pointer to it, or there is no
\* memory for it.
Make(t) ==
    /\ At(t, "make")
    /\ \/ /\ object = "none"
          /\ \/ object' \in {"raw", "ready"} /\ made' = made + 1
             \/ UNCHANGED <<object, made>>
          /\ Go(t, "level") /\ UNCHANGED holder
       \/ /\ object # "none"
          /\ holder' = NoThread
          /\ Go(t, "have") /\ UNCHANGED <<object, made>>
    /\ UNCHANGED <<level, mLogFunc, gLogFunc, hcomLogger, chosen, torn, clean, settled>>

\* The initialisation of the object arrives.
Construct ==
    /\ object = "raw"
    /\ object' = "ready"
    /\ mLogFunc' = NoHandler
    /\ UNCHANGED <<made, holder, level, gLogFunc, hcomLogger, logging, chosen, torn, clean,
                   settled>>

\* SetLogLevel, after the pointer was published or without an object; the unlock makes all of
\* it visible.
SetLogLevel(t) ==
    /\ At(t, "level") /\ object # "raw"
    /\ level' = "environment"
    /\ holder' = NoThread
    /\ Go(t, IF object = "none" THEN "null" ELSE "have")
    /\ UNCHANGED <<object, made, mLogFunc, gLogFunc, hcomLogger, chosen, torn, clean, settled>>

\* Instance reads gLogger once more to return it; another thread may have made the object.
ReadAgain(t) ==
    /\ At(t, "null") /\ object # "none"
    /\ Go(t, "have")
    /\ UNCHANGED <<object, made, holder, level, mLogFunc, gLogFunc, hcomLogger, chosen, torn,
                   clean, settled>>

\* A message is filtered by logLevel, which needs no object, and written by mLogFunc.
Log(t) ==
    /\ At(t, "have") \/ At(t, "null")
    /\ Go(t, "out")
    /\ UNCHANGED <<object, made, holder, level, mLogFunc, gLogFunc, hcomLogger, chosen, torn,
                   clean, settled>>
-----------------------------------------------------------------------------
(***************************************************************************)
(* OckRpcSetExternalLogger, once it has the object.                        *)
(***************************************************************************)
SetExternalLogFunction(t, h) ==
    /\ At(t, "have")
    /\ mLogFunc' = h
    /\ chosen' = [chosen EXCEPT ![t] = h]
    /\ torn' = (object = "raw" \/ Setting # {})
    /\ clean' = {} /\ settled' = FALSE
    /\ Go(t, "setGlobal")
    /\ UNCHANGED <<object, made, holder, level, gLogFunc, hcomLogger>>

\* Variant: only the first handler reaches g_logFunc.
SetGlobal_first(t) ==
    /\ At(t, "setGlobal")
    /\ gLogFunc' = IF gLogFunc = NoHandler THEN chosen[t] ELSE gLogFunc
    /\ chosen' = [chosen EXCEPT ![t] = NoHandler]
    /\ Go(t, "out")
    /\ UNCHANGED <<object, made, holder, level, mLogFunc, hcomLogger, torn, clean, settled>>

SetGlobal(t) ==
    /\ At(t, "setGlobal")
    /\ gLogFunc' = chosen[t]
    /\ chosen' = [chosen EXCEPT ![t] = NoHandler]
    /\ Go(t, "out")
    /\ UNCHANGED <<object, made, holder, level, mLogFunc, hcomLogger, torn, clean, settled>>
-----------------------------------------------------------------------------
(***************************************************************************)
(* The part of OckRpcServerCreateWithCfg that concerns the logger.         *)
(***************************************************************************)
TestGlobal(t) ==
    /\ At(t, "out")
    /\ Go(t, IF gLogFunc = NoHandler THEN "default" ELSE "pass")
    /\ clean' = IF Setting = {} THEN clean \cup {t} ELSE clean \ {t}
    /\ UNCHANGED <<object, made, holder, level, mLogFunc, gLogFunc, hcomLogger, chosen, torn,
                   settled>>

\* Variant: the object is given HcomLog as well, which would then call itself.
DefaultGlobal_both(t) ==
    /\ At(t, "default")
    /\ gLogFunc' = HcomLog /\ mLogFunc' = HcomLog
    /\ Go(t, "pass")
    /\ UNCHANGED <<object, made, holder, level, hcomLogger, chosen, torn, clean, settled>>

\* A handler set since the test is overwritten.
DefaultGlobal(t) ==
    /\ At(t, "default")
    /\ gLogFunc' = HcomLog
    /\ Go(t, "pass")
    /\ UNCHANGED <<object, made, holder, level, mLogFunc, hcomLogger, chosen, torn, clean,
                   settled>>

\* Service_SetExternalLogger(g_logFunc), if the entry is there to be called.
PassGlobal(t, reached) ==
    /\ At(t, "pass")
    /\ hcomLogger' = IF reached THEN gLogFunc ELSE hcomLogger
    /\ settled' = IF reached THEN t \in clean ELSE settled
    /\ clean' = clean \ {t}
    /\ Go(t, "out")
    /\ UNCHANGED <<object, made, holder, level, mLogFunc, gLogFunc, chosen, torn>>
-----------------------------------------------------------------------------
InstanceStep(t) == Instance(t) \/ LockMutex(t) \/ Make(t) \/ SetLogLevel(t) \/ ReadAgain(t)

\* The object is made once, however many threads log first and however often there was no
\* memory for it; messages are filtered by the initial level only while its maker has not
\* come to SetLogLevel.
MadeOnce ==
    /\ made <= 1
    /\ object # "none" /\ level = "initial" => \E t \in Threads : logging[t] = "level"

\* Where libhcom's messages go.
Target == IF hcomLogger = HcomLog THEN mLogFunc ELSE hcomLogger

\* After a creation that no setting of a handler has met, libhcom logs to the handler of the
\* user, although the handler is kept in two places that are neither read nor written
\* together; it stays so until the next setting.
LibhcomLogsToUser == settled /\ ~torn => Target = mLogFunc
=============================================================================
