------------------------------ MODULE Timeouts ------------------------------
(***************************************************************************)
(* OckRpcClientSetTimeout: the user gives milliseconds for one channel;    *)
(* the code keeps seconds, in one g_timeoutTime for the process, and hands *)
(* what it finds there to libhcom, once for the one-sided and once for the *)
(* two-sided operations of the channel.  Calls carry g_timeoutTime again,  *)
(* in a field of 16 bits.                                                  *)
(*                                                                         *)
(* A step is one access to g_timeoutTime, or a call's effect in libhcom on *)
(* what was found there.  The widths are parameters: the code has          *)
(* PerSecond = 1000, Width = 2^32 and ShortWidth = 2^16.                   *)
(***************************************************************************)
EXTENDS Integers

CONSTANTS Setters,               \* the threads that call OckRpcClientSetTimeout
          Channels,
          Milliseconds,          \* the arguments users give
          PerSecond,             \* MILLOSECOND_PER_SECOND
          Width, ShortWidth,     \* the number of values of int32_t and of int16_t
          DefaultTimeout,        \* DEFAULT_TIMEOUT_TIME, in seconds
          NoChannel, NotAsked

ASSUME TimeoutConstantsOK ==
    /\ Milliseconds \subseteq Int /\ NotAsked \notin Int /\ NoChannel \notin Channels
    /\ PerSecond \in Nat \ {0} /\ DefaultTimeout \in Int
    /\ Width \in Nat \ {0} /\ Width % 2 = 0
    /\ ShortWidth \in 1..Width /\ ShortWidth % 2 = 0
    /\ -(Width \div 2) <= DefaultTimeout /\ DefaultTimeout < Width \div 2

VARIABLES
    gTimeout,         \* g_timeoutTime
    oneSide, twoSide, \* the timeouts libhcom has for each channel
    step, channel,    \* where a thread is in OckRpcClientSetTimeout, for which channel,
    carried,          \* and what it has found in g_timeoutTime and not handed over yet
    asked,            \* history: what was last asked for a channel,
    last,             \* for which channel g_timeoutTime was last written,
    crossed           \* and the channels whose last setting has met another one

timeoutVars == <<gTimeout, oneSide, twoSide, step, channel, carried, asked, last, crossed>>

\* The signed integers of w values, whether n is one, and what a conversion to them makes of n.
SignedInts(w) == -(w \div 2)..(w \div 2) - 1
Fits(n, w)   == n \in SignedInts(w)
Signed(n, w) == ((n + (w \div 2)) % w) - (w \div 2)

TimeoutsTypeOK ==
    /\ gTimeout \in SignedInts(Width)
    /\ oneSide \in [Channels -> SignedInts(Width)] /\ twoSide \in [Channels -> SignedInts(Width)]
    /\ step \in [Setters -> {"out", "one", "oneHeld", "two", "twoHeld"}]
    /\ channel \in [Setters -> Channels \cup {NoChannel}]
    /\ carried \in [Setters -> SignedInts(Width)]
    /\ asked \in [Channels -> Milliseconds \cup {NotAsked}]
    /\ last \in Channels \cup {NoChannel}
    /\ crossed \in SUBSET Channels

TimeoutsInit ==
    /\ gTimeout = DefaultTimeout
    /\ oneSide = [c \in Channels |-> -1] /\ twoSide = [c \in Channels |-> -1]
    /\ step = [t \in Setters |-> "out"] /\ channel = [t \in Setters |-> NoChannel]
    /\ carried = [t \in Setters |-> 0]
    /\ asked = [c \in Channels |-> NotAsked]
    /\ last = NoChannel /\ crossed = {}

\* The channels that these threads are setting.
BeingSet(threads) == {channel[t] : t \in threads} \ {NoChannel}
-----------------------------------------------------------------------------
\* Variant: the milliseconds are converted before they are divided.
Seconds_late(ms) == IF ms < 0 THEN Signed(ms, Width) ELSE Signed(ms, Width) \div PerSecond

\* A negative argument is kept as it is; both are converted to 32 bits.
Seconds(ms) == Signed(IF ms < 0 THEN ms ELSE ms \div PerSecond, Width)

SetTimeout(t, c, ms) ==
    /\ step[t] = "out"
    /\ gTimeout' = Seconds(ms)
    /\ step' = [step EXCEPT ![t] = "one"]
    /\ channel' = [channel EXCEPT ![t] = c]
    /\ asked' = [asked EXCEPT ![c] = ms]
    /\ last' = c
    /\ crossed' = (crossed \ {c}) \cup BeingSet(Setters \ {t})
    /\ UNCHANGED <<oneSide, twoSide, carried>>

\* The argument of the next call is read from g_timeoutTime.
LoadTimeout(t) ==
    /\ step[t] \in {"one", "two"}
    /\ step' = [step EXCEPT ![t] = IF @ = "one" THEN "oneHeld" ELSE "twoHeld"]
    /\ carried' = [carried EXCEPT ![t] = gTimeout]
    /\ UNCHANGED <<gTimeout, oneSide, twoSide, channel, asked, last, crossed>>

SetOneSideTimeout(t) ==
    /\ step[t] = "oneHeld"
    /\ oneSide' = [oneSide EXCEPT ![channel[t]] = carried[t]]
    /\ step' = [step EXCEPT ![t] = "two"]
    /\ carried' = [carried EXCEPT ![t] = 0]
    /\ UNCHANGED <<gTimeout, twoSide, channel, asked, last, crossed>>

SetTwoSideTimeout(t) ==
    /\ step[t] = "twoHeld"
    /\ twoSide' = [twoSide EXCEPT ![channel[t]] = carried[t]]
    /\ step' = [step EXCEPT ![t] = "out"]
    /\ channel' = [channel EXCEPT ![t] = NoChannel]
    /\ carried' = [carried EXCEPT ![t] = 0]
    /\ UNCHANGED <<gTimeout, oneSide, asked, last, crossed>>

\* The timeout that a call on any channel carries in its Service_OpInfo.
CallTimeout == Signed(gTimeout, ShortWidth)

TimeoutsNext ==
    \E t \in Setters : \/ \E c \in Channels, ms \in Milliseconds : SetTimeout(t, c, ms)
                       \/ LoadTimeout(t) \/ SetOneSideTimeout(t) \/ SetTwoSideTimeout(t)

TimeoutsSpec == TimeoutsInit /\ [][TimeoutsNext]_timeoutVars
-----------------------------------------------------------------------------
\* The channels whose last setting is over and has met no other: nobody else was setting the
\* same channel when it began, and no setting of any channel began before it was over.
Settled == {c \in Channels : asked[c] # NotAsked /\ c \notin BeingSet(Setters) \cup crossed}

\* What a timeout of s seconds is to one who has asked for ms milliseconds: for ever stays
\* for ever, and the rest is rounded down to seconds, if what is kept fits in 32 bits.
Honours(s, ms) == IF ms < 0 THEN Fits(ms, Width) => s < 0
                  ELSE Fits(ms \div PerSecond, Width) =>
                          s * PerSecond <= ms /\ ms < (s + 1) * PerSecond

\* A channel has, for both kinds of operations, the timeout that was last asked for it, also
\* when others were being set as its setting began or are set once it is over, although all
\* go through one variable; the calls agree with the channel that was set last, up to the 16
\* bits they have for it.  Settings that meet, of one channel or of two, are promised nothing:
\* they can leave a channel with different timeouts for the two kinds, or with another's.
TimeoutKept ==
    \A c \in Settled : /\ Honours(oneSide[c], asked[c]) /\ twoSide[c] = oneSide[c]
                       /\ c = last /\ Fits(twoSide[c], ShortWidth) => CallTimeout = twoSide[c]
=============================================================================
