---------------------------- MODULE MemorySizing ----------------------------
(***************************************************************************)
(* The memory that a connecting client asks for: OckRpcSetAllocatorOption  *)
(* reads a segment size and a count from the configuration and makes the   *)
(* options of an allocator of them, in unsigned arithmetic of 32 bits.     *)
(* ClientMemory has what is done with them: an error ends the Connect with *)
(* the connection left up ("half" there), a product of 0 connects without  *)
(* memory ("plain"), and otherwise a buffer of this size is registered.    *)
(*                                                                         *)
(* The limits are parameters: the code has Width = 2^32, MinSize = 4096,   *)
(* MaxSegSize = 943718400 and MaxSegCount = 65535.  A setting that is      *)
(* absent means the code's own defaults, 65536 bytes and 1024 of them, and *)
(* not the documented ones, 16384 for both (hcom4db.h:94 and :102).        *)
(***************************************************************************)
EXTENDS Integers

CONSTANTS Clients, Sizes, Counts, \* the clients, and what their configurations say
          NotGiven, NotNumber,    \* a key that is absent, a text that is not a number
          DefaultSize, DefaultCount, MinSize, MaxSegSize, MaxSegCount, Width32

Settings == [size : Sizes, count : Counts]
Absence  == [size |-> NotGiven, count |-> NotGiven]
Without(how) == [how |-> how, size |-> 0, tiers |-> 0]

ASSUME SizingConstantsOK ==
    /\ Width32 \in Nat \ {0}
    /\ Sizes \cup Counts \subseteq Int \cup {NotGiven, NotNumber}
    /\ {DefaultSize, DefaultCount, MinSize} \subseteq 1..Width32 - 1
    /\ MaxSegSize \in 1..Width32 - 1 /\ MaxSegCount \in 1..Width32 - 1

VARIABLES
    setting,  \* the configuration of each connected client
    option    \* its allocator options; how says what has become of it

sizingVars == <<setting, option>>

SizingInit == /\ setting = [c \in Clients |-> Absence]
              /\ option = [c \in Clients |-> Without("none")]
-----------------------------------------------------------------------------
\* OckRpcString2Num: std::stoi into an unsigned variable that holds the default.
IsNumber(text)   == text \in Int /\ -(Width32 \div 2) <= text /\ text < Width32 \div 2
Readable(text)   == text = NotGiven \/ IsNumber(text)
Number(text, d)  == IF text = NotGiven THEN d ELSE text % Width32

\* How often n can be shifted to the right before nothing is left of it.
Shifts[n \in Nat] == IF n = 0 THEN 0 ELSE 1 + Shifts[n \div 2]

\* Variant: the last bit is not counted.
Calculate2PowerTimes_short(powerNum) == IF powerNum = 0 THEN 0 ELSE Shifts[powerNum \div 2]

Calculate2PowerTimes(powerNum) == Shifts[powerNum]

\* The product wraps before it is widened.
OckRpcSetAllocatorOption(s) ==
    LET size    == Number(s.size, DefaultSize)
        count   == Number(s.count, DefaultCount)
        product == (size * count) % Width32
    IN  IF \/ ~Readable(s.size) \/ ~Readable(s.count)
           \/ size > MaxSegSize \/ count > MaxSegCount
        THEN Without("half")
        ELSE IF product = 0 THEN Without("plain")
        ELSE [how |-> "memory",
              size |-> IF product < MinSize THEN MinSize ELSE product,
              tiers |-> Calculate2PowerTimes(size \div MinSize)]

PrepareMemAllocator(c, s) ==
    /\ option[c].how = "none"
    /\ setting' = [setting EXCEPT ![c] = s]
    /\ \/ option' = [option EXCEPT ![c] = OckRpcSetAllocatorOption(s)]
       \/ option' = [option EXCEPT ![c] = Without("half")]    \* malloc or a step after it fails

DisconnectSized(c) ==
    /\ option[c].how # "none"
    /\ setting' = [setting EXCEPT ![c] = Absence]
    /\ option' = [option EXCEPT ![c] = Without("none")]

SizingNext == \E c \in Clients : \/ \E s \in Settings : PrepareMemAllocator(c, s)
                                 \/ DisconnectSized(c)

SizingSpec == SizingInit /\ [][SizingNext]_sizingVars
-----------------------------------------------------------------------------
\* The segment size and the count that a setting means, and whether their product fits.
Wants(s)   == Number(s.size, DefaultSize) * Number(s.count, DefaultCount)
Holds(s)   == Wants(s) < Width32

\* With tiers by powers (C_TIER_POWER), the blocks of a tier are twice those of the one before.
Tier[n \in Nat] == IF n = 0 THEN MinSize ELSE 2 * Tier[n - 1]

\* The limits hold for whoever is connected; who has no memory has asked for none; a memory is
\* as large as what was asked for, and has the tiers up to the segment size and none beyond.
Fulfils(o, s) ==
    LET size == Number(s.size, DefaultSize)
    IN  o.how \in {"plain", "memory"} =>
          /\ size <= MaxSegSize /\ Number(s.count, DefaultCount) <= MaxSegCount
          /\ o.how = "plain" /\ Holds(s) => Wants(s) = 0
          /\ o.how = "memory" =>
                /\ Holds(s) => o.size >= Wants(s) /\ o.size >= size
                /\ o.size >= MinSize
                /\ Tier[o.tiers] > size
                /\ o.tiers > 0 => Tier[o.tiers - 1] <= size

\* A client with memory has as much as it has asked for, 4096 bytes at least, with tiers of
\* blocks up to the segment size and none beyond it; who is connected without memory has
\* asked for none.  All this as long as size times count fits in 32 bits; a setting beyond
\* the limits is never taken for a smaller one.  An absent setting asks for the default of
\* the code, whatever the documentation says of it.
MemoryAsAsked == \A c \in Clients : Fulfils(option[c], setting[c])
=============================================================================
