------------------------------ MODULE NamedWrite ------------------------------
(***************************************************************************)
(* Writing values of devices: write_named() turns a list of typed          *)
(* addresses with values into one command or refuses it (utils.py          *)
(* 622-826), write_typed() writes one value (465-521), the helpers of a    *)
(* run of values (1295-1381) and the client's own methods write several of *)
(* one address.  All end in a builder of the client (client.py 783-949).   *)
(* Afterwards the caller may read the same list by read_named(), which is  *)
(* ReadPlan.                                                               *)
(***************************************************************************)
EXTENDS ReadPlan

CONSTANTS
    TcLimit,              \* timers or counters that one command reaches (120)
    MaxCount              \* bound: values of one address

ASSUME WriteAssumption == TcLimit \in Nat \ {0} /\ MaxCount \in Nat

VARIABLES
    counts,               \* counts[i]: how many values entry i is given
    fits,                 \* whether each of them is a value of its dtype
    helper,               \* which helper, or method of the client, is called
    stage,                \* where the write is
    command               \* the one command it is compiled to

writeVars == <<counts, fits, helper, stage, command>>
callVars == <<vars, writeVars>>

WR_DEVICE_TYPES == DeviceTypes \ {"AT"}
WS_DEVICE_TYPES == {"T", "C", "CTH", "CTC"}
TimerFamilies == {"T", "TC", "TS", "C", "CC", "CS", "CTH", "CTC"}

(* The largest count of a WRS or WSS command.                              *)
WriteLimit(type, format) ==
    CASE type \in TimerFamilies -> TcLimit
      [] type = "Z" -> ZLimit
      [] OTHER -> IF format \in {"D", "L"} THEN CountLimit(type) \div 2
                                           ELSE CountLimit(type)

\* items are the values of the command in its format ("BIT": none is given); a
\* value is the sequence of its parts, the low word first.  formats: each of
\* them is one that the format can say.
NoCommand == [kind |-> "none", type |-> "none", number |-> 0, format |-> "none",
              items |-> <<>>, formats |-> FALSE]

First == entries[1]
Alone == Len(entries) = 1

CallInit ==
    /\ Init
    /\ \E count \in 0..MaxCount :
         counts = [i \in DOMAIN entries |-> IF i = Len(entries) THEN count ELSE 1]
    /\ fits \in BOOLEAN
    /\ helper = "none"
    /\ stage = "given"
    /\ command = NoCommand
-----------------------------------------------------------------------------
(* _snapshot_named_write_entries(): what a key may not say, a key that is  *)
(* said twice, count included, a count of none, and a value that is none   *)
(* of its dtype.                                                           *)
Refused ==
    \/ \E i \in DOMAIN entries :
         \/ ~Semantics(entries[i])
         \/ entries[i].dtype \in {"BIT_IN_WORD", "COMMENT"}
         \/ entries[i].type \notin WR_DEVICE_TYPES
         \/ counts[i] = 0
    \/ \E i, j \in DOMAIN entries :
         i # j /\ entries[i] = entries[j] /\ counts[i] = counts[j]
    \/ ~fits

(* How one value is written with others: the kind of the command, the      *)
(* distance to the next value, the format.                                 *)
BatchSpec(r) ==
    IF r.type \in {"T", "C"} THEN <<"set-value", 1, r.dtype>>
    ELSE IF r.type \in DIRECT_BIT_DEVICE_TYPES /\ r.dtype # "BIT"
      THEN <<"single", 1, r.dtype>>
    ELSE IF r.dtype = "BIT" THEN <<"bit", 1, "BIT">>
    ELSE IF \/ r.dtype \in {"U", "S", "H"}
            \/ r.type \in NATIVE_32BIT_DEVICE_TYPES /\ r.dtype \in {"D", "L"}
      THEN <<"consecutive", 1, r.dtype>>
    ELSE <<"packed", 2, "U">>
Kind(r) == BatchSpec(r)[1]
Step(r) == BatchSpec(r)[2]

BatchNumber(r) ==
    IF Kind(r) = "bit" THEN Place(r.type, r.number) ELSE r.number

(* The values in the order of the list: entry and position.                *)
Values ==
    IF Alone THEN [v \in 1..counts[1] |-> <<1, v>>]
             ELSE [i \in DOMAIN entries |-> <<i, 1>>]

(* Values of a format as the items of a command, or as pairs of words, the *)
(* low one first; a word is as many devices as its format takes.           *)
Items(type, format) ==
    [v \in DOMAIN Values |->
       [p \in 1..SpanWidth(type, format) |-> Append(Values[v], p)]]
Pairs ==
    LET width == SpanWidth(First.type, "U")
    IN [w \in 1..2 * Len(Values) |->
          [p \in 1..width |-> Append(Values[(w + 1) \div 2],
                                     IF w % 2 = 1 THEN p ELSE width + p)]]

(* A command of the values as they are, and one of words made of them.     *)
Direct(kind, format) ==
    [kind |-> kind, type |-> First.type, number |-> First.number,
     format |-> format, items |-> Items(First.type, format), formats |-> fits]
Packed(kind) ==
    [kind |-> kind, type |-> First.type, number |-> First.number,
     format |-> "U", items |-> Pairs, formats |-> TRUE]

(* _compile_named_write_range(): one address with a count.                 *)
RangeCommand ==
    IF First.type \in {"T", "C"} THEN Direct("set-value", First.dtype)
    ELSE IF First.dtype = "F" THEN Packed("consecutive")
    ELSE Direct("consecutive", First.dtype)

\* Mutant: the next value is expected one device further, however wide.
FitsOneNarrow ==
    IF Kind(First) = "single" THEN Alone
    ELSE \A i \in DOMAIN entries :
           /\ BatchSpec(entries[i]) = BatchSpec(First)
           /\ BatchNumber(entries[i]) = BatchNumber(First) + (i - 1)

(* Several addresses fit one command if each goes on where the one before  *)
(* it ends, in the same way.                                               *)
FitsOne ==
    IF Kind(First) = "single" THEN Alone
    ELSE \A i \in DOMAIN entries :
           /\ BatchSpec(entries[i]) = BatchSpec(First)
           /\ BatchNumber(entries[i]) = BatchNumber(First) + (i - 1) * Step(First)

BatchCommand ==
    IF Kind(First) = "packed" THEN Packed("packed")
                              ELSE Direct(Kind(First), BatchSpec(First)[3])
-----------------------------------------------------------------------------
(* The helpers.  None sends anything before the command is built.          *)
ListUnchanged == UNCHANGED <<vars, counts, fits>>

Refuses == stage' = "refused" /\ UNCHANGED command
Compiles(c) == stage' = "compiled" /\ command' = c

Call(name) ==
    /\ stage = "given"
    /\ helper' = name
    /\ ListUnchanged

WriteNamed ==
    /\ Call("write_named")
    /\ stage' = IF Refused THEN "refused" ELSE "snapshot"
    /\ UNCHANGED command

(* _compile_named_write_operation().                                       *)
CompileWrite ==
    /\ stage = "snapshot"
    /\ \/ Alone /\ counts[1] > 1 /\ Compiles(RangeCommand)
       \/ /\ ~(Alone /\ counts[1] > 1)
          /\ (\E i \in DOMAIN entries : counts[i] # 1) \/ ~FitsOne
          /\ Refuses
       \/ /\ \A i \in DOMAIN entries : counts[i] = 1
          /\ FitsOne
          /\ Compiles(BatchCommand)
    /\ UNCHANGED helper
    /\ ListUnchanged

(* write_typed(): one value, sent as it is by write(), but for a float.  A *)
(* dtype that is no format is refused there.                               *)
WriteTyped ==
    /\ Alone /\ counts[1] = 1
    /\ Call("write_typed")
    /\ IF \/ First.dtype \in {"BIT_IN_WORD", "COMMENT"}
          \/ First.dtype = "F" /\ First.type \notin FLOAT32_ELIGIBLE_DEVICE_TYPES
          \/ First.dtype \in {"F", "BIT"} /\ ~fits
         THEN Refuses
         ELSE Compiles(IF First.dtype = "F" THEN Packed("consecutive")
                                            ELSE Direct("single", First.dtype))

(* write_bits_single_request().                                            *)
WriteBits ==
    /\ Alone /\ First.dtype = "BIT"
    /\ Call("write_bits")
    /\ IF \/ First.type \notin DIRECT_BIT_DEVICE_TYPES \/ ~fits
          \/ counts[1] \notin 1..OrdinaryLimit
         THEN Refuses
         ELSE Compiles(Direct("consecutive", "BIT"))

(* write_words_single_request().                                           *)
WriteWords ==
    /\ Alone /\ First.dtype = "U"
    /\ Call("write_words")
    /\ IF ~fits THEN Refuses ELSE Compiles(Direct("consecutive", "U"))

(* write_dwords_single_request(): two words of each value, whatever the    *)
(* family is.                                                              *)
WriteDwords ==
    /\ Alone /\ First.dtype = "D"
    /\ Call("write_dwords")
    /\ IF ~fits THEN Refuses ELSE Compiles(Packed("consecutive"))

(* The methods of the client, with a format or, for "BIT", with none.      *)
HasFormat == First.dtype \in {"U", "S", "D", "L", "H", "BIT"}

(* write(): WR.                                                            *)
Write ==
    /\ Alone /\ counts[1] = 1 /\ HasFormat
    /\ Call("write")
    /\ Compiles(Direct("single", First.dtype))

(* write_consecutive() and write_consecutive_legacy(): WRS and WRE.        *)
WriteConsecutive ==
    /\ Alone /\ HasFormat
    /\ Call("write_consecutive")
    /\ Compiles(Direct("consecutive", First.dtype))

(* write_timer_counter_preset(), its run and their former names: WS, WSS.  *)
WritePreset ==
    /\ Alone /\ HasFormat
    /\ Call("write_timer_counter_preset")
    /\ Compiles(Direct("set-value", First.dtype))
-----------------------------------------------------------------------------
(* The builders of the client, before the turn is asked for.               *)

(* require_explicit_format(): only a bit needs no format.                  *)
ExplicitFormat(type, format) ==
    format = "BIT" => type \in DIRECT_BIT_DEVICE_TYPES

DeviceWithFormat(c) ==
    ValidNumber(c.type, c.number) /\ ExplicitFormat(c.type, c.format)

BuildWrite(c) ==
    /\ DeviceWithFormat(c)
    /\ c.type \in WR_DEVICE_TYPES
    /\ c.formats

BuildWriteConsecutive(c) ==
    /\ c.items # <<>>
    /\ DeviceWithFormat(c)
    /\ c.type \in WR_DEVICE_TYPES
    /\ Len(c.items) <= WriteLimit(c.type, c.format)
    /\ c.formats

EnsureTimerOrCounter(c) ==
    /\ c.type \in WS_DEVICE_TYPES
    /\ DeviceWithFormat(c)
    /\ Len(c.items) <= WriteLimit(c.type, c.format)

BuildWriteSetValue(c) ==
    /\ c.items # <<>>
    /\ EnsureTimerOrCounter(c)
    /\ c.formats

Builds(c) ==
    CASE c.kind = "single" -> BuildWrite(c)
      [] c.kind = "set-value" -> BuildWriteSetValue(c)
      [] OTHER -> BuildWriteConsecutive(c)

PreflightWrite ==
    /\ stage = "compiled"
    /\ stage' = IF Builds(command) THEN "sent" ELSE "refused"
    /\ UNCHANGED <<helper, command>>
    /\ ListUnchanged

WriteEnded == stage \in {"sent", "refused"}

(* A name with a count is none that read_named() knows.  Bound: a list is  *)
(* not read when a value was none, which reads do not depend on.           *)
ReadBack ==
    /\ WriteEnded
    /\ fits /\ \A i \in DOMAIN entries : counts[i] = 1
    /\ Next
    /\ UNCHANGED writeVars

Ended ==
    /\ WriteEnded
    /\ ~fits \/ \E i \in DOMAIN entries : counts[i] # 1
    /\ UNCHANGED callVars

CallNext ==
    \/ WriteNamed \/ CompileWrite \/ WriteTyped
    \/ WriteBits \/ WriteWords \/ WriteDwords
    \/ Write \/ WriteConsecutive \/ WritePreset
    \/ PreflightWrite
    \/ ReadBack \/ Ended

CallSpec == CallInit /\ [][CallNext]_callVars
-----------------------------------------------------------------------------
(* A timer or counter has a preset beside its current value: WS and WSS    *)
(* write the one, WR, WRS the other.  read_typed() and read_named() return *)
(* the preset of a T or C (utils.py 364-368).                              *)
CellOf(kind) == IF kind = "set-value" THEN "preset" ELSE "value"
ReadCell(type) == IF type \in {"T", "C"} THEN "preset" ELSE "value"

(* What the PLC does: the items go to the devices from the first one on,   *)
(* each to as many as its format takes.                                    *)
Written ==
    LET width == SpanWidth(command.type, command.format)
    IN {<<command.type, CellOf(command.kind),
          Place(command.type, command.number) + (v - 1) * width + p - 1,
          command.items[v][p]>> :
          v \in DOMAIN command.items, p \in 1..width}

\* The cells a call asks to be written: those that a read of the name returns,
\* but of a timer or counter the preset or the current value by the method that
\* was called.
Cell(r) ==
    CASE helper = "write_named" -> ReadCell(r.type)
      [] helper = "write_timer_counter_preset" -> "preset"
      [] OTHER -> "value"

\* The devices of one value: those that a read of it takes, but a dword of
\* write_dwords_single_request() has two words also where one device would
\* hold it.
Span(r) == IF helper = "write_dwords" THEN 2 * SpanWidth(r.type, "U") ELSE Devices(r)

\* Value v of entry i, device by device.
Asked(i, v) ==
    LET r == entries[i]
    IN {<<r.type, Cell(r), Place(r.type, r.number) + (v - 1) * Span(r) + p - 1,
          <<i, v, p>>>> : p \in 1..Span(r)}

OneFamily == \A i \in DOMAIN entries : entries[i].type = First.type

(* A write that is sent gives every value of the list, whole, unchanged    *)
(* and in the order of its words, to the very devices that hold it, and    *)
(* touches no other, in one command.  After write_named() these are what   *)
(* read_named() returns for its names (API_REFERENCE.md 142-153), presets  *)
(* included.  Two things differ by what was called: write_typed() and the  *)
(* WR and WRS methods set the current value of a T or C, not the preset    *)
(* that read_typed() returns, and write_dwords_single_request() takes two  *)
(* devices for each value also in families whose devices have 32 bits.     *)
(* Lists of several families are left to MixedFamiliesAreRejected.         *)
WriteIsExact ==
    stage = "sent" /\ OneFamily =>
        /\ fits
        /\ Written = UNION {UNION {Asked(i, v) : v \in 1..counts[i]} :
                               i \in DOMAIN entries}

(* "Mixed device families or dtypes, gaps, [...] are rejected before       *)
(* communication" (USAGE_GUIDE.md 324-330): a list that is sent is of one  *)
(* family, since a command names only one.                                 *)
MixedFamiliesAreRejected == stage = "sent" => OneFamily
=============================================================================
