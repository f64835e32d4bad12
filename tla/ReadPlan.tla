------------------------------- MODULE ReadPlan -------------------------------
(***************************************************************************)
(* read_named() and poll() (utils.py 559-619, 829-1238): a list of typed   *)
(* addresses is compiled into a plan of as few reads as possible, which is *)
(* executed once, or once per cycle, inside one turn of the client.  The   *)
(* PLC runs on between two reads.                                          *)
(***************************************************************************)
EXTENDS DeviceAddress, Sequences

CONSTANTS
    Addresses,            \* bound: the addresses a caller may list
    MaxEntries,           \* bound: the length of the list
    MaxCycles,            \* bound: cycles of poll()
    MaxClock              \* bound: changes of the PLC's memory

Dtypes == {"U", "S", "H", "D", "L", "F", "BIT", "BIT_IN_WORD", "COMMENT"}

ASSUME AddressAssumption ==
    Addresses \subseteq [type : DeviceTypes, number : Nat, dtype : Dtypes, bit : 0..15]
ASSUME BoundAssumption ==
    MaxEntries \in Nat /\ MaxCycles \in Nat /\ MaxClock \in Nat

VARIABLES
    entries,              \* the list of the caller
    phase,                \* where the call is
    todo,                 \* compiling: the entries not placed in the plan yet
    current,              \* compiling: the segment being built
    segments,             \* the plan: what is read in one command each
    next,                 \* executing: the next segment
    resolved,             \* resolved[i]: the value of entry i, or NoValue
    clock,                \* instants of the PLC's memory
    began,                \* when the present cycle began
    cycles                \* how many cycles have begun

vars == <<entries, phase, todo, current, segments, next, resolved, clock, began,
          cycles>>

NoValue == <<>>
Nothing == [i \in DOMAIN entries |-> NoValue]
NoSegment == [type |-> "none", start |-> 0, number |-> 0, count |-> 0,
              mode |-> "none", requests |-> <<>>]

Init ==
    /\ \E n \in 1..MaxEntries : entries \in [1..n -> Addresses]
    /\ phase = "parsing"
    /\ todo = DOMAIN entries
    /\ current = NoSegment
    /\ segments = <<>>
    /\ next = 1
    /\ resolved = Nothing
    /\ clock = 0 /\ began = 0 /\ cycles = 0
-----------------------------------------------------------------------------
(* Requests.                                                               *)

(* A value that is spelled twice, or that its family does not have.        *)
Semantics(r) ==
    /\ ValidNumber(r.type, r.number)
    /\ r.dtype = "BIT" => r.type \in DIRECT_BIT_DEVICE_TYPES
    /\ r.dtype = "F" => r.type \in FLOAT32_ELIGIBLE_DEVICE_TYPES
    /\ r.dtype = "COMMENT" => r.type \in RDC_DEVICE_TYPES
Duplicated == \E i, j \in DOMAIN entries : i # j /\ entries[i] = entries[j]

(* A request that is read alone, or one that may be read with others.      *)
Mode(r) ==
    IF r.dtype = "BIT" THEN "DIRECT_BITS"
    ELSE IF r.dtype = "COMMENT" THEN "COMMENT"
    ELSE IF \/ r.dtype = "H"
            \/ r.type \notin WORD_DEVICE_TYPES
            \/ r.dtype \in {"D", "L"} /\ r.type \in NATIVE_32BIT_DEVICE_TYPES
      THEN "SINGLE"
    ELSE "WORDS"
Mergeable(r) == Mode(r) \in {"WORDS", "DIRECT_BITS"}

Width(r) == IF Mode(r) = "WORDS" /\ r.dtype \in {"D", "L", "F"} THEN 2 ELSE 1

PlanNumber(r) ==
    IF Mode(r) = "DIRECT_BITS" THEN Place(r.type, r.number) ELSE r.number
PlanEnd(r) == PlanNumber(r) + Width(r)

\* Mutant: the limit of every family is the general one.
SegmentLimitOfAll(r) == OrdinaryLimit

SegmentLimit(r) == IF Mode(r) = "DIRECT_BITS" THEN OrdinaryLimit
                                              ELSE CountLimit(r.type)

(* The order in which requests are placed: by family in the order of first *)
(* occurrence, then by number, the wider one first, then as listed.        *)
FirstOf(type) == CHOOSE i \in DOMAIN entries :
                   /\ entries[i].type = type
                   /\ \A j \in DOMAIN entries : entries[j].type = type => i <= j
Precedes(i, j) ==
    LET r == entries[i]
        s == entries[j]
    IN IF r.type # s.type THEN FirstOf(r.type) < FirstOf(s.type)
       ELSE \/ PlanNumber(r) < PlanNumber(s)
            \/ PlanNumber(r) = PlanNumber(s) /\ Width(r) > Width(s)
            \/ PlanNumber(r) = PlanNumber(s) /\ Width(r) = Width(s) /\ i < j
-----------------------------------------------------------------------------
(* Compilation.                                                            *)
NotExecuting == UNCHANGED <<next, resolved, clock, began, cycles>>

(* Every address is looked at before anything is sent.                     *)
Parse ==
    /\ phase = "parsing"
    /\ phase' = IF Duplicated \/ \E i \in DOMAIN entries : ~Semantics(entries[i])
                  THEN "rejected" ELSE "compiling"
    /\ UNCHANGED <<entries, todo, current, segments>>
    /\ NotExecuting

CanAppend(r) ==
    /\ Mergeable(r)
    /\ current.mode = Mode(r) /\ current.type = r.type
    /\ PlanNumber(r) \in current.number .. current.number + current.count
    /\ PlanEnd(r) - current.number <= SegmentLimit(r)

Opened(i) ==
    LET r == entries[i]
    IN [type |-> r.type, start |-> r.number, number |-> PlanNumber(r),
        count |-> Width(r), mode |-> Mode(r), requests |-> <<i>>]

Extended(i) ==
    LET length == PlanEnd(entries[i]) - current.number
    IN [current EXCEPT !.count = IF length > @ THEN length ELSE @,
                       !.requests = Append(@, i)]

\* Mutant: a segment is flushed though there is none.
FlushedAlways == Append(segments, current)

Flushed == IF current = NoSegment THEN segments ELSE Append(segments, current)

(* The next request joins the current segment, or begins one.              *)
Arrange(i) ==
    /\ phase = "compiling"
    /\ i \in todo
    /\ \A j \in todo \ {i} : Precedes(i, j)
    /\ todo' = todo \ {i}
    /\ \/ /\ CanAppend(entries[i])
          /\ current' = Extended(i)
          /\ UNCHANGED segments
       \/ /\ ~CanAppend(entries[i]) /\ Mergeable(entries[i])
          /\ segments' = Flushed
          /\ current' = Opened(i)
       \/ /\ ~Mergeable(entries[i])
          /\ segments' = Append(Flushed, Opened(i))
          /\ current' = NoSegment
    /\ UNCHANGED <<entries, phase>>
    /\ NotExecuting

Compiled ==
    /\ phase = "compiling"
    /\ todo = {}
    /\ segments' = Flushed
    /\ current' = NoSegment
    /\ phase' = "preflight"
    /\ UNCHANGED <<entries, todo>>
    /\ NotExecuting

(* Every command is built before the turn is asked for; a merged read must *)
(* pass validate_device_count().                                           *)
CommandFits(s) == Len(s.requests) > 1 => s.count <= CountLimit(s.type)
Preflight ==
    /\ phase = "preflight"
    /\ phase' = IF \A k \in DOMAIN segments : CommandFits(segments[k])
                  THEN "ready" ELSE "refused"
    /\ UNCHANGED <<entries, todo, current, segments>>
    /\ NotExecuting
-----------------------------------------------------------------------------
(* Execution, inside one turn.                                             *)
PlanUnchanged == UNCHANGED <<entries, todo, current, segments>>

(* A cycle begins; that of read_named() is the only one.                   *)
Begin ==
    /\ phase \in {"ready", "delivered"}
    /\ cycles < MaxCycles
    /\ phase' = "reading"
    /\ next' = 1
    /\ resolved' = Nothing
    /\ began' = clock
    /\ cycles' = cycles + 1
    /\ UNCHANGED clock
    /\ PlanUnchanged

(* What the PLC answers: a value is told by its device and its instant.    *)
Token(s, k) == <<s.type, Place(s.type, s.start) + k, clock>>

\* The devices of an entry: a batch holds words or bits, a single read the
\* whole value of its format.
Devices(r) == IF Mergeable(r) THEN Width(r) ELSE SpanWidth(r.type,
                IF r.dtype = "BIT_IN_WORD" THEN "U" ELSE r.dtype)

\* Mutant: the offset counts the requests, not the devices.
OffsetOfRequest(s, i) == (CHOOSE k \in DOMAIN s.requests : s.requests[k] = i) - 1

Offset(s, i) == PlanNumber(entries[i]) - s.number

ResolvedFrom(s, i) ==
    IF Len(s.requests) = 1
      THEN [k \in 1..Devices(entries[i]) |-> Token(s, k - 1)]
      ELSE [k \in 1..Width(entries[i]) |-> Token(s, Offset(s, i) + k - 1)]

Members(s) == {s.requests[k] : k \in DOMAIN s.requests}

(* One command and its response, from which all its entries are resolved.  *)
ReadSegment ==
    /\ phase = "reading"
    /\ next <= Len(segments)
    /\ LET s == segments[next]
       IN resolved' = [i \in DOMAIN entries |->
                         IF i \in Members(s) THEN ResolvedFrom(s, i)
                                             ELSE resolved[i]]
    /\ next' = next + 1
    /\ UNCHANGED <<phase, clock, began, cycles>>
    /\ PlanUnchanged

(* A request fails: the exception leaves no dictionary.                    *)
ReadFails ==
    /\ phase = "reading"
    /\ next <= Len(segments)
    /\ phase' = "failed"
    /\ resolved' = Nothing
    /\ UNCHANGED <<next, clock, began, cycles>>
    /\ PlanUnchanged

Deliver ==
    /\ phase = "reading"
    /\ next > Len(segments)
    /\ phase' = IF \E i \in DOMAIN entries : resolved[i] = NoValue
                  THEN "unresolved" ELSE "delivered"
    /\ UNCHANGED <<next, resolved, clock, began, cycles>>
    /\ PlanUnchanged

(* The PLC's program and other connections change its memory.              *)
Tick ==
    /\ phase \in {"reading", "delivered"}
    /\ clock < MaxClock
    /\ clock' = clock + 1
    /\ UNCHANGED <<phase, next, resolved, began, cycles>>
    /\ PlanUnchanged

(* An exception was raised, or no further cycle is asked for.              *)
Done ==
    /\ phase \in {"rejected", "refused", "failed", "unresolved", "delivered"}
    /\ UNCHANGED vars

Next ==
    \/ Parse \/ (\E i \in DOMAIN entries : Arrange(i)) \/ Compiled \/ Preflight
    \/ Begin \/ ReadSegment \/ ReadFails \/ Deliver
    \/ Tick \/ Done

Spec == Init /\ [][Next]_vars
-----------------------------------------------------------------------------
Segment ==
    [type : DeviceTypes, start : Nat, number : Nat, count : Nat \ {0},
     mode : {"WORDS", "DIRECT_BITS", "SINGLE", "COMMENT"},
     requests : Seq(DOMAIN entries)]
Instant == DeviceTypes \X Nat \X Nat

TypeOK ==
    /\ entries \in Seq(Addresses)
    /\ phase \in {"parsing", "rejected", "compiling", "preflight", "refused",
                  "ready", "reading", "unresolved", "delivered", "failed"}
    /\ todo \subseteq DOMAIN entries
    /\ current \in Segment \cup {NoSegment}
    /\ segments \in Seq(Segment)
    /\ next \in 1..Len(segments) + 1
    /\ resolved \in [DOMAIN entries -> Seq(Instant)]
    /\ clock \in Nat /\ began \in Nat /\ cycles \in Nat

(* The segments of the plan, with the one being built.                     *)
Parts == {segments[k] : k \in DOMAIN segments} \cup ({current} \ {NoSegment})

(* A segment is one command that the PLC accepts, reads each of its        *)
(* entries as a whole, and reads nothing that nobody asked for.            *)
SegmentIsExact(s) ==
    /\ \A i \in Members(s) :
         /\ entries[i].type = s.type /\ Mode(entries[i]) = s.mode
         /\ s.number <= PlanNumber(entries[i])
         /\ PlanEnd(entries[i]) <= s.number + s.count
    /\ \A n \in s.number .. s.number + s.count - 1 :
         \E i \in Members(s) : n \in PlanNumber(entries[i]) .. PlanEnd(entries[i]) - 1
    /\ CommandFits(s)

(* Every entry is read by the plan exactly (API_REFERENCE.md 134-138), and *)
(* a plan that was compiled never fails the later check of its commands.   *)
PlanIsExact ==
    /\ \A s \in Parts : SegmentIsExact(s)
    /\ \A i \in DOMAIN entries : i \in todo \/ \E s \in Parts : i \in Members(s)
    /\ phase # "refused"

(* A value that is returned is the whole of its own entry as it was at one *)
(* instant of this cycle: it is no mixture of two reads, no neighbour's    *)
(* word and nothing of an earlier cycle; and none is missing.              *)
EntriesAreWhole ==
    /\ \A i \in DOMAIN entries :
         resolved[i] # NoValue =>
           \E t \in began..clock :
             resolved[i] = [k \in 1..Devices(entries[i]) |->
                 <<entries[i].type,
                   Place(entries[i].type, entries[i].number) + k - 1, t>>]
    /\ phase = "delivered" => \A i \in DOMAIN entries : resolved[i] # NoValue
    /\ phase # "unresolved"
=============================================================================
