--------------------------- MODULE ReadPlan_proofs ---------------------------
(***************************************************************************)
(* Theorems about ReadPlan, for every list of addresses and every limit.   *)
(***************************************************************************)
EXTENDS ReadPlan, TLAPS

(* Bit-bank numbers and logical numbers are each other's inverse, so that  *)
(* a batch that runs over the end of a bank neither skips nor repeats a    *)
(* bit (device.py 291-300).                                                *)
THEOREM BitBankInverse ==
  /\ \A n \in Nat : n % 100 <= 15 =>
       bit_bank_number_from_logical(bit_bank_logical_number(n)) = n
  /\ \A n \in Nat :
       /\ bit_bank_logical_number(bit_bank_number_from_logical(n)) = n
       /\ bit_bank_number_from_logical(n) % 100 <= 15
  BY SMTT(30) DEF bit_bank_number_from_logical, bit_bank_logical_number
-----------------------------------------------------------------------------
(* What a request is to the plan.  A mergeable request is placed where the *)
(* PLC has it, and takes as many devices there as its width says.          *)
LEMMA RequestFacts ==
  ASSUME NEW r \in Addresses
  PROVE  /\ r.type \in DeviceTypes /\ r.number \in Nat
         /\ Mode(r) \in {"WORDS", "DIRECT_BITS", "SINGLE", "COMMENT"}
         /\ Width(r) \in 1..2 /\ Devices(r) \in Nat \ {0}
         /\ PlanNumber(r) \in Nat /\ Place(r.type, r.number) \in Nat
         /\ PlanEnd(r) \in Nat /\ PlanEnd(r) = PlanNumber(r) + Width(r)
         /\ Mergeable(r) => /\ PlanNumber(r) = Place(r.type, r.number)
                            /\ Devices(r) = Width(r)
  <1>1. r \in [type : DeviceTypes, number : Nat, dtype : Dtypes, bit : 0..15]
    BY AddressAssumption
  <1>2. Place(r.type, r.number) \in Nat
    <2>1. r.number \div 100 \in Nat /\ r.number % 100 \in Nat
      BY <1>1
    <2> QED BY <1>1, <2>1 DEF Place, bit_bank_logical_number
  <1>3. Mode(r) \in {"WORDS", "DIRECT_BITS", "SINGLE", "COMMENT"}
    BY DEF Mode
  <1>4. Mode(r) = "WORDS" => r.type \notin BIT_BANK_DEVICE_TYPES
    BY DEF Mode, WORD_DEVICE_TYPES, BIT_BANK_DEVICE_TYPES
  <1>5. Width(r) \in 1..2
    BY DEF Width
  <1>6. Devices(r) \in Nat \ {0}
    BY <1>5 DEF Devices, SpanWidth
  <1>7. PlanNumber(r) \in Nat
    BY <1>1, <1>2 DEF PlanNumber
  <1>8. Mergeable(r) => PlanNumber(r) = Place(r.type, r.number)
    BY <1>4 DEF Mergeable, PlanNumber, Place
  <1> QED
    BY <1>1, <1>2, <1>3, <1>5, <1>6, <1>7, <1>8 DEF Devices, PlanEnd

(* A mergeable request fits into a command of its family, and the limit of *)
(* its segments is the limit of that command.                              *)
LEMMA LimitFacts ==
  ASSUME NEW r \in Addresses, Semantics(r), Mergeable(r)
  PROVE  /\ CountLimit(r.type) \in Nat /\ Width(r) <= CountLimit(r.type)
         /\ SegmentLimit(r) = CountLimit(r.type)
  <1>1. r \in [type : DeviceTypes, number : Nat, dtype : Dtypes, bit : 0..15]
    BY AddressAssumption
  <1>2. CountLimit(r.type) \in Nat \ {0}
    BY LimitAssumption DEF CountLimit
  <1>3. Width(r) = 1 \/ (Width(r) = 2 /\ r.type # "Z")
    BY <1>1 DEF Width, Semantics, Mergeable, Mode, FLOAT32_ELIGIBLE_DEVICE_TYPES,
            NATIVE_32BIT_DEVICE_TYPES
  <1>4. r.type # "Z" => CountLimit(r.type) >= 2
    BY LimitAssumption DEF CountLimit
  <1>5. Mode(r) = "DIRECT_BITS" => r.type \in DIRECT_BIT_DEVICE_TYPES
    BY <1>1 DEF Semantics, Mode
  <1>6. SegmentLimit(r) = CountLimit(r.type)
    BY <1>5 DEF SegmentLimit, CountLimit, DIRECT_BIT_DEVICE_TYPES,
            BIT_BANK_DEVICE_TYPES
  <1> QED BY <1>2, <1>3, <1>4, <1>6
-----------------------------------------------------------------------------
(* What is true of every segment, also of the one being built.             *)
SegmentInv(s) ==
  /\ s \in Segment
  /\ SegmentIsExact(s)
  /\ Len(s.requests) > 0
  /\ s.type = entries[s.requests[1]].type /\ s.start = entries[s.requests[1]].number
  /\ s.mode \in {"WORDS", "DIRECT_BITS"} =>
       s.number = Place(s.type, s.start) /\ s.count <= CountLimit(s.type)
  /\ s.mode \notin {"WORDS", "DIRECT_BITS"} => Len(s.requests) = 1

Whole(i) ==
  \E t \in began..clock :
    resolved[i] = [k \in 1..Devices(entries[i]) |->
        <<entries[i].type, Place(entries[i].type, entries[i].number) + k - 1, t>>]

InPlan(i) ==
  i \in Members(current) \/ \E k \in DOMAIN segments : i \in Members(segments[k])

PlanInv ==
  /\ \A k \in DOMAIN segments : SegmentInv(segments[k])
  /\ current # NoSegment => SegmentInv(current)
  /\ \A i \in DOMAIN entries : i \in todo \/ InPlan(i)
  /\ phase \notin {"parsing", "rejected"} =>
       \A i \in DOMAIN entries : Semantics(entries[i])
  /\ phase \notin {"parsing", "rejected", "compiling"} =>
       todo = {} /\ current = NoSegment
  /\ phase # "refused"

ReadInv ==
  /\ began <= clock
  /\ \A i \in DOMAIN entries : resolved[i] # NoValue => Whole(i)
  /\ phase = "reading" =>
       \A k \in 1..next - 1 : \A i \in Members(segments[k]) : resolved[i] # NoValue
  /\ phase = "delivered" => \A i \in DOMAIN entries : resolved[i] # NoValue
  /\ phase # "unresolved"

IInv == TypeOK /\ PlanInv /\ ReadInv

(* A plan that is not made yet covers nothing.                             *)
LEMMA InitInv == Init => IInv
  <1> SUFFICES ASSUME Init PROVE IInv
    OBVIOUS
  <1>1. PICK n \in 1..MaxEntries : entries \in [1..n -> Addresses]
    BY DEF Init
  <1>2. n \in Nat /\ entries \in Seq(Addresses) /\ DOMAIN entries = 1..n
    BY <1>1, BoundAssumption
  <1>3. resolved = [i \in DOMAIN entries |-> <<>>] /\ <<>> \in Seq(Instant)
    BY DEF Init, Nothing, NoValue
  <1>4. TypeOK
    <2>1. next \in 1..Len(segments) + 1 /\ segments \in Seq(Segment)
      BY DEF Init
    <2> QED BY <1>2, <1>3, <2>1 DEF Init, TypeOK
  <1>5. PlanInv
    <2>1. DOMAIN segments = {}
      BY DEF Init
    <2> QED BY <2>1 DEF Init, PlanInv
  <1>6. ReadInv
    BY <1>3 DEF Init, ReadInv, NoValue
  <1> QED BY <1>4, <1>5, <1>6 DEF IInv
-----------------------------------------------------------------------------
(* The entry of a request is one of the addresses.                         *)
LEMMA EntryIsAddress ==
  ASSUME TypeOK, NEW i \in DOMAIN entries
  PROVE  entries[i] \in Addresses
  BY DEF TypeOK

(* A segment opened for one entry covers that entry exactly.               *)
LEMMA OpenedInv ==
  ASSUME TypeOK, NEW i \in DOMAIN entries, Semantics(entries[i])
  PROVE  SegmentInv(Opened(i)) /\ Members(Opened(i)) = {i}
  <1> DEFINE r == entries[i]
             s == Opened(i)
  <1>1. r \in Addresses
    BY EntryIsAddress
  <1>2. /\ s.type = r.type /\ s.start = r.number /\ s.number = PlanNumber(r)
        /\ s.count = Width(r) /\ s.mode = Mode(r) /\ s.requests = <<i>>
    BY DEF Opened
  <1>3. s \in Segment
    BY <1>1, RequestFacts DEF Opened, Segment
  <1>4. Len(s.requests) = 1 /\ s.requests[1] = i /\ Members(s) = {i}
    BY <1>2 DEF Members
  <1>5. SegmentIsExact(s)
    BY <1>1, <1>2, <1>4, RequestFacts DEF SegmentIsExact, CommandFits
  <1>6. Mode(r) \in {"WORDS", "DIRECT_BITS"} =>
          s.number = Place(s.type, s.start) /\ s.count <= CountLimit(s.type)
    BY <1>1, <1>2, RequestFacts, LimitFacts DEF Mergeable
  <1> QED BY <1>2, <1>3, <1>4, <1>5, <1>6 DEF SegmentInv

(* Appending an entry adds it to the members of a segment, and nothing     *)
(* else.                                                                   *)
LEMMA AppendMembers ==
  ASSUME NEW S, NEW q \in Seq(S), NEW i
  PROVE  {Append(q, i)[k] : k \in DOMAIN Append(q, i)}
           = {q[k] : k \in DOMAIN q} \cup {i}
  <1>1. /\ DOMAIN Append(q, i) = 1..Len(q) + 1 /\ DOMAIN q = 1..Len(q)
        /\ Len(q) \in Nat /\ Append(q, i)[Len(q) + 1] = i
        /\ \A k \in 1..Len(q) : Append(q, i)[k] = q[k]
    OBVIOUS
  <1>2. 1..Len(q) + 1 = (1..Len(q)) \cup {Len(q) + 1}
    BY <1>1
  <1> QED BY <1>1, <1>2

(* A segment extended by a mergeable entry covers that entry too.          *)
LEMMA ExtendedInv ==
  ASSUME TypeOK, SegmentInv(current),
         NEW i \in DOMAIN entries, Semantics(entries[i]), CanAppend(entries[i])
  PROVE  /\ SegmentInv(Extended(i))
         /\ Members(Extended(i)) = Members(current) \cup {i}
  <1> DEFINE r == entries[i]
             s == Extended(i)
             length == PlanEnd(r) - current.number
  <1>1. r \in Addresses /\ current \in Segment /\ Mergeable(r)
    BY EntryIsAddress DEF SegmentInv, CanAppend
  <1>2. /\ PlanNumber(r) \in Nat /\ Width(r) \in 1..2
        /\ PlanEnd(r) = PlanNumber(r) + Width(r)
        /\ CountLimit(r.type) \in Nat /\ SegmentLimit(r) = CountLimit(r.type)
    BY <1>1, RequestFacts, LimitFacts
  <1>3. /\ current.number \in Nat /\ current.count \in Nat \ {0}
        /\ current.requests \in Seq(DOMAIN entries)
        /\ current.type = r.type /\ current.mode = Mode(r)
        /\ current.number <= PlanNumber(r)
        /\ PlanNumber(r) <= current.number + current.count
        /\ length <= CountLimit(r.type) /\ length \in Nat \ {0}
    BY <1>1, <1>2 DEF CanAppend, Segment
  <1>4. /\ s.type = current.type /\ s.start = current.start
        /\ s.number = current.number /\ s.mode = current.mode
        /\ s.count = IF length > current.count THEN length ELSE current.count
        /\ s.requests = Append(current.requests, i)
    BY <1>1 DEF Extended, Segment
  <1>5. s \in Segment
    <2>1. s.requests \in Seq(DOMAIN entries) /\ s.count \in Nat \ {0}
      BY <1>3, <1>4
    <2> QED BY <1>1, <2>1 DEF Extended, Segment
  <1>6. /\ Len(s.requests) = Len(current.requests) + 1
        /\ Members(s) = Members(current) \cup {i}
        /\ Members(current) \subseteq DOMAIN entries
    <2>1. Members(s) = Members(current) \cup {i}
      <3> DEFINE q == current.requests
      <3>1. q \in Seq(DOMAIN entries) /\ s.requests = Append(q, i)
        BY <1>3, <1>4
      <3>2. {Append(q, i)[k] : k \in DOMAIN Append(q, i)}
              = {q[k] : k \in DOMAIN q} \cup {i}
        BY <3>1, AppendMembers
      <3> HIDE DEF q
      <3> QED BY <3>1, <3>2 DEF Members, q
    <2>2. Members(current) \subseteq DOMAIN entries
      BY <1>3 DEF Members
    <2> QED BY <1>3, <1>4, <2>1, <2>2
  <1>7. s.requests[1] = current.requests[1] /\ Len(current.requests) > 0
    BY <1>3, <1>4 DEF SegmentInv
  <1>8. s.count <= CountLimit(s.type) /\ s.number = Place(s.type, s.start)
    BY <1>1, <1>2, <1>3, <1>4 DEF SegmentInv, Mergeable
  <1>9. SegmentIsExact(s)
    <2>1. ASSUME NEW j \in Members(s)
          PROVE  /\ entries[j].type = s.type /\ Mode(entries[j]) = s.mode
                 /\ s.number <= PlanNumber(entries[j])
                 /\ PlanEnd(entries[j]) <= s.number + s.count
      <3>1. CASE j = i
        BY <1>2, <1>3, <1>4, <3>1
      <3>2. CASE j # i
        <4>1. j \in Members(current) /\ j \in DOMAIN entries
          BY <1>6, <3>2
        <4>2. PlanEnd(entries[j]) \in Nat
          BY <4>1, EntryIsAddress, RequestFacts
        <4> QED
          BY <1>3, <1>4, <4>1, <4>2 DEF SegmentInv, SegmentIsExact
      <3> QED BY <3>1, <3>2
    <2>2. ASSUME NEW n \in s.number .. s.number + s.count - 1
          PROVE  \E j \in Members(s) :
                   n \in PlanNumber(entries[j]) .. PlanEnd(entries[j]) - 1
      <3>1. CASE n < current.number + current.count
        <4>1. n \in current.number .. current.number + current.count - 1
          BY <1>3, <1>4, <3>1
        <4>2. \E j \in Members(current) :
                n \in PlanNumber(entries[j]) .. PlanEnd(entries[j]) - 1
          BY <4>1 DEF SegmentInv, SegmentIsExact
        <4> QED BY <1>6, <4>2
      <3>2. CASE n >= current.number + current.count
        <4>1. /\ n \in Int /\ s.number = current.number
              /\ n <= s.number + s.count - 1
              /\ s.count = IF length > current.count THEN length ELSE current.count
          BY <1>3, <1>4
        <4>2. /\ current.number \in Nat /\ current.count \in Nat /\ length \in Nat
              /\ length = PlanEnd(r) - current.number /\ PlanEnd(r) \in Nat
              /\ PlanNumber(r) \in Nat
              /\ PlanNumber(r) <= current.number + current.count
          BY <1>2, <1>3
        <4> HIDE DEF length, s, r
        <4>3. n <= PlanEnd(r) - 1 /\ PlanNumber(r) <= n
          BY <3>2, <4>1, <4>2
        <4> QED BY <1>6, <4>1, <4>2, <4>3 DEF r, s
      <3> QED BY <1>3, <1>4, <3>1, <3>2
    <2> QED BY <1>8, <2>1, <2>2 DEF SegmentIsExact, CommandFits
  <1>10. s.mode \in {"WORDS", "DIRECT_BITS"}
    BY <1>1, <1>3, <1>4 DEF Mergeable
  <1>11. /\ s.type = entries[s.requests[1]].type
         /\ s.start = entries[s.requests[1]].number
    BY <1>4, <1>7 DEF SegmentInv
  <1>12. Len(s.requests) > 0
    BY <1>3, <1>6
  <1> QED
    BY <1>5, <1>6, <1>8, <1>9, <1>10, <1>11, <1>12 DEF SegmentInv

(* Moving the open segment to the plan loses no entry.                     *)
LEMMA FlushedInv ==
  ASSUME TypeOK, PlanInv
  PROVE  /\ Flushed \in Seq(Segment) /\ Len(Flushed) >= Len(segments)
         /\ \A k \in DOMAIN Flushed : SegmentInv(Flushed[k])
         /\ \A j \in DOMAIN entries :
              InPlan(j) => \E k \in DOMAIN Flushed : j \in Members(Flushed[k])
  <1>1. CASE current = NoSegment
    <2>1. Members(current) = {}
      BY <1>1 DEF Members, NoSegment
    <2> QED BY <1>1, <2>1 DEF Flushed, TypeOK, PlanInv, InPlan
  <1>2. CASE current # NoSegment
    <2>1. current \in Segment /\ segments \in Seq(Segment) /\ SegmentInv(current)
      BY <1>2 DEF TypeOK, PlanInv
    <2>2. Flushed = Append(segments, current)
      BY <1>2 DEF Flushed
    <2>3. /\ Flushed \in Seq(Segment) /\ Len(Flushed) = Len(segments) + 1
          /\ DOMAIN Flushed = 1..Len(segments) + 1
          /\ DOMAIN segments = 1..Len(segments)
          /\ Flushed[Len(segments) + 1] = current
          /\ \A k \in DOMAIN segments : Flushed[k] = segments[k]
      BY <2>1, <2>2
    <2> QED BY <2>1, <2>3 DEF PlanInv, InPlan
  <1> QED BY <1>1, <1>2
-----------------------------------------------------------------------------
(* Compilation keeps the invariant if the new plan is sound and complete.  *)
LEMMA PlanStep ==
  ASSUME IInv, entries' = entries, NotExecuting,
         phase \in {"compiling"}, phase' \in {"compiling", "preflight"},
         todo' \subseteq todo,
         segments' \in Seq(Segment), Len(segments') >= Len(segments),
         current' = NoSegment \/ SegmentInv(current'),
         phase' = "preflight" => todo' = {} /\ current' = NoSegment,
         \A k \in DOMAIN segments' : SegmentInv(segments'[k]),
         \A j \in DOMAIN entries :
           \/ j \in todo' \/ j \in Members(current')
           \/ \E k \in DOMAIN segments' : j \in Members(segments'[k])
  PROVE  IInv'
  <1>1. current' \in Segment \cup {NoSegment}
    BY DEF SegmentInv
  <1>2. next \in 1..Len(segments') + 1
    BY DEF IInv, TypeOK
  <1>3. TypeOK'
    BY <1>1, <1>2 DEF IInv, TypeOK, NotExecuting, Segment
  <1>4. PlanInv'
    <2>1. \A k \in DOMAIN segments' : SegmentInv(segments[k])'
      BY DEF SegmentInv, SegmentIsExact, Members, CommandFits, Segment
    <2>2. current' # NoSegment => SegmentInv(current)'
      BY DEF SegmentInv, SegmentIsExact, Members, CommandFits, Segment
    <2>3. \A j \in DOMAIN entries : j \in todo' \/ InPlan(j)'
      BY DEF InPlan, Members
    <2> QED
      BY <2>1, <2>2, <2>3 DEF IInv, PlanInv, NoSegment
  <1>5. ReadInv'
    BY DEF IInv, ReadInv, Whole, NotExecuting, NoValue
  <1> QED BY <1>3, <1>4, <1>5 DEF IInv

(* Taking the next entry into the plan.                                    *)
LEMMA ArrangeInv ==
  ASSUME IInv, NEW i \in DOMAIN entries, Arrange(i)
  PROVE  IInv'
  <1>1. /\ phase = "compiling" /\ phase' = phase /\ entries' = entries
        /\ NotExecuting /\ todo' = todo \ {i} /\ todo \subseteq DOMAIN entries
        /\ TypeOK /\ PlanInv /\ Semantics(entries[i]) /\ segments \in Seq(Segment)
    BY DEF Arrange, IInv, TypeOK, PlanInv
  <1>2. CASE CanAppend(entries[i]) /\ current' = Extended(i) /\ UNCHANGED segments
    <2>1. current # NoSegment
      <3>1. Mode(entries[i]) # "none"
        BY <1>1, EntryIsAddress, RequestFacts
      <3> QED BY <1>2, <3>1 DEF CanAppend, NoSegment
    <2>2. SegmentInv(current)
      BY <1>1, <2>1 DEF PlanInv
    <2>3. SegmentInv(current') /\ Members(current') = Members(current) \cup {i}
      BY <1>1, <1>2, <2>2, ExtendedInv
    <2>4. \A j \in DOMAIN entries :
            \/ j \in todo' \/ j \in Members(current')
            \/ \E k \in DOMAIN segments' : j \in Members(segments'[k])
      BY <1>1, <1>2, <2>3 DEF PlanInv, InPlan
    <2>5. \A k \in DOMAIN segments' : SegmentInv(segments'[k])
      BY <1>1, <1>2 DEF PlanInv
    <2>6. segments' \in Seq(Segment) /\ Len(segments') >= Len(segments)
      BY <1>1, <1>2
    <2> QED BY <1>1, <2>3, <2>4, <2>5, <2>6, PlanStep
  <1>3. CASE segments' = Flushed /\ current' = Opened(i)
    <2>1. SegmentInv(current') /\ Members(current') = {i}
      BY <1>1, <1>3, OpenedInv
    <2>2. /\ segments' \in Seq(Segment) /\ Len(segments') >= Len(segments)
          /\ \A k \in DOMAIN segments' : SegmentInv(segments'[k])
      BY <1>1, <1>3, FlushedInv
    <2>3. \A j \in DOMAIN entries :
            \/ j \in todo' \/ j \in Members(current')
            \/ \E k \in DOMAIN segments' : j \in Members(segments'[k])
      BY <1>1, <1>3, <2>1, FlushedInv DEF PlanInv
    <2> QED BY <1>1, <2>1, <2>2, <2>3, PlanStep
  <1>4. CASE segments' = Append(Flushed, Opened(i)) /\ current' = NoSegment
    <2>1. SegmentInv(Opened(i)) /\ Members(Opened(i)) = {i}
      BY <1>1, OpenedInv
    <2>2. Opened(i) \in Segment
      BY <2>1 DEF SegmentInv
    <2>3. Flushed \in Seq(Segment) /\ Len(Flushed) >= Len(segments)
      BY <1>1, FlushedInv
    <2>4. /\ segments' \in Seq(Segment) /\ Len(segments') >= Len(segments)
          /\ DOMAIN segments' = 1..Len(Flushed) + 1
          /\ DOMAIN Flushed = 1..Len(Flushed) /\ Len(Flushed) \in Nat
          /\ segments'[Len(Flushed) + 1] = Opened(i)
          /\ \A k \in DOMAIN Flushed : segments'[k] = Flushed[k]
      BY <1>1, <1>4, <2>2, <2>3
    <2>5. \A k \in DOMAIN segments' : SegmentInv(segments'[k])
      BY <1>1, <2>1, <2>4, FlushedInv
    <2>6. \A j \in DOMAIN entries :
            \/ j \in todo' \/ j \in Members(current')
            \/ \E k \in DOMAIN segments' : j \in Members(segments'[k])
      <3> TAKE j \in DOMAIN entries
      <3>1. CASE j = i
        BY <2>1, <2>4, <3>1
      <3>2. CASE j \in todo /\ j # i
        BY <1>1, <3>2
      <3>3. CASE InPlan(j)
        <4>1. PICK k \in DOMAIN Flushed : j \in Members(Flushed[k])
          BY <1>1, <3>3, FlushedInv
        <4>2. k \in DOMAIN segments' /\ segments'[k] = Flushed[k]
          BY <2>4
        <4> QED BY <4>1, <4>2
      <3> QED BY <1>1, <3>1, <3>2, <3>3 DEF PlanInv
    <2> QED BY <1>1, <1>4, <2>4, <2>5, <2>6, PlanStep
  <1> QED BY <1>2, <1>3, <1>4 DEF Arrange

(* The last segment is moved to the plan.                                  *)
LEMMA CompiledInv ==
  ASSUME IInv, Compiled
  PROVE  IInv'
  <1>1. /\ phase = "compiling" /\ phase' = "preflight" /\ entries' = entries
        /\ NotExecuting /\ todo = {} /\ todo' = {} /\ current' = NoSegment
        /\ segments' = Flushed /\ TypeOK /\ PlanInv
    BY DEF Compiled, IInv
  <1>2. /\ segments' \in Seq(Segment) /\ Len(segments') >= Len(segments)
        /\ \A k \in DOMAIN segments' : SegmentInv(segments'[k])
        /\ \A j \in DOMAIN entries :
             \E k \in DOMAIN segments' : j \in Members(segments'[k])
    BY <1>1, FlushedInv DEF PlanInv
  <1> QED BY <1>1, <1>2, PlanStep

(* What a step must keep that leaves the plan alone.                       *)
LEMMA TypeKept ==
  ASSUME TypeOK, PlanUnchanged,
         phase' \in {"rejected", "compiling", "ready", "reading", "delivered", "failed"},
         next' \in 1..Len(segments) + 1,
         resolved' \in [DOMAIN entries -> Seq(Instant)],
         clock' \in Nat, began' \in Nat, cycles' \in Nat
  PROVE  TypeOK'
  BY DEF TypeOK, PlanUnchanged, Segment

(* A step that leaves the plan alone keeps what is known of it.            *)
LEMMA PlanKept ==
  ASSUME PlanInv, PlanUnchanged, phase' # "refused",
         phase' \in {"parsing", "rejected"} \/
           \A i \in DOMAIN entries : Semantics(entries[i]),
         phase' \in {"parsing", "rejected", "compiling"} \/
           (todo = {} /\ current = NoSegment)
  PROVE  PlanInv'
  <1>1. ASSUME NEW k \in DOMAIN segments' PROVE SegmentInv(segments[k])'
    <2>1. entries' = entries /\ segments' = segments /\ SegmentInv(segments[k])
      BY DEF PlanUnchanged, PlanInv
    <2> QED BY <2>1 DEF SegmentInv, SegmentIsExact, Members, CommandFits, Segment
  <1>2. current' # NoSegment => SegmentInv(current)'
    BY DEF PlanUnchanged, PlanInv, SegmentInv, SegmentIsExact, Members,
           CommandFits, Segment
  <1>3. \A i \in DOMAIN entries : i \in todo' \/ InPlan(i)'
    BY DEF PlanUnchanged, PlanInv, InPlan, Members
  <1> QED BY <1>1, <1>2, <1>3 DEF PlanUnchanged, PlanInv

(* A step between the cycles keeps what is known of the values.            *)
LEMMA ValuesKept ==
  ASSUME ReadInv, entries' = entries, phase' \notin {"reading", "delivered", "unresolved"},
         UNCHANGED <<resolved, clock, began>>
  PROVE  ReadInv'
  BY DEF ReadInv, Whole, NoValue

(* The addresses are parsed, or one of them is rejected.                   *)
LEMMA ParseInv ==
  ASSUME IInv, Parse
  PROVE  IInv'
  <1>1. /\ UNCHANGED <<entries, todo, current, segments>> /\ NotExecuting
        /\ phase' \in {"rejected", "compiling"}
        /\ phase' = "compiling" => \A i \in DOMAIN entries : Semantics(entries[i])
    BY DEF Parse
  <1>2. PlanUnchanged /\ TypeOK /\ PlanInv /\ ReadInv
    BY <1>1 DEF PlanUnchanged, IInv
  <1>3. TypeOK'
    <2>1. /\ next' \in 1..Len(segments) + 1
          /\ resolved' \in [DOMAIN entries -> Seq(Instant)]
          /\ clock' \in Nat /\ began' \in Nat /\ cycles' \in Nat
      BY <1>1, <1>2 DEF TypeOK, NotExecuting
    <2> QED BY <1>1, <1>2, <2>1, TypeKept
  <1>4. PlanInv'
    BY <1>1, <1>2, PlanKept
  <1>5. ReadInv'
    BY <1>1, <1>2, ValuesKept DEF NotExecuting
  <1> QED BY <1>3, <1>4, <1>5 DEF IInv

(* Every segment of several entries fits into its command, so that the     *)
(* check never refuses the plan.                                           *)
LEMMA PreflightInv ==
  ASSUME IInv, Preflight
  PROVE  IInv'
  <1>1. /\ UNCHANGED <<entries, todo, current, segments>> /\ NotExecuting
        /\ phase = "preflight" /\ phase' \in {"ready", "refused"}
        /\ (\A k \in DOMAIN segments : CommandFits(segments[k])) => phase' = "ready"
    BY DEF Preflight
  <1>2. PlanUnchanged /\ TypeOK /\ PlanInv /\ ReadInv
    BY <1>1 DEF PlanUnchanged, IInv
  <1>3. phase' = "ready"
    BY <1>1, <1>2 DEF PlanInv, SegmentInv, SegmentIsExact
  <1>4. TypeOK'
    <2>1. /\ next' \in 1..Len(segments) + 1
          /\ resolved' \in [DOMAIN entries -> Seq(Instant)]
          /\ clock' \in Nat /\ began' \in Nat /\ cycles' \in Nat
      BY <1>1, <1>2 DEF TypeOK, NotExecuting
    <2> QED BY <1>2, <1>3, <2>1, TypeKept
  <1>5. PlanInv'
    <2>1. todo = {} /\ current = NoSegment /\ \A i \in DOMAIN entries : Semantics(entries[i])
      BY <1>1, <1>2 DEF PlanInv
    <2> QED BY <1>2, <1>3, <2>1, PlanKept
  <1>6. ReadInv'
    BY <1>1, <1>2, <1>3, ValuesKept DEF NotExecuting
  <1> QED BY <1>4, <1>5, <1>6 DEF IInv
-----------------------------------------------------------------------------
(* Execution leaves the plan alone.                                        *)
LEMMA PlanExecuted ==
  ASSUME PlanInv, PlanUnchanged, phase \in {"ready", "reading", "delivered"},
         phase' \in {"reading", "delivered", "failed"}
  PROVE  PlanInv'
  <1>1. todo = {} /\ current = NoSegment /\ \A i \in DOMAIN entries : Semantics(entries[i])
    BY DEF PlanInv
  <1> QED BY <1>1, PlanKept

(* A cycle of reading begins with no value resolved.                       *)
LEMMA BeginInv ==
  ASSUME IInv, Begin
  PROVE  IInv'
  <1>1. /\ PlanUnchanged /\ phase \in {"ready", "delivered"} /\ phase' = "reading"
        /\ next' = 1 /\ resolved' = [i \in DOMAIN entries |-> NoValue]
        /\ began' = clock /\ clock' = clock /\ cycles' = cycles + 1
    BY DEF Begin, Nothing
  <1>2. TypeOK'
    <2>1. NoValue \in Seq(Instant)
      BY DEF NoValue
    <2>2. /\ TypeOK /\ clock \in Nat /\ cycles + 1 \in Nat
          /\ Len(segments) \in Nat
      BY DEF IInv, TypeOK
    <2>3. 1 \in 1..Len(segments) + 1
      BY <2>2
    <2>4. [i \in DOMAIN entries |-> NoValue] \in [DOMAIN entries -> Seq(Instant)]
      BY <2>1
    <2> QED BY <1>1, <2>2, <2>3, <2>4, TypeKept
  <1>3. PlanInv'
    BY <1>1, PlanExecuted DEF IInv
  <1>4. ReadInv'
    <2>1. clock \in Nat /\ entries' = entries
      BY <1>1 DEF IInv, TypeOK, PlanUnchanged
    <2>2. \A i \in DOMAIN entries : resolved'[i] = NoValue
      BY <1>1
    <2> QED BY <1>1, <2>1, <2>2 DEF ReadInv, NoValue
  <1> QED BY <1>2, <1>3, <1>4 DEF IInv

(* What is resolved from a segment is the whole of the entry, now.         *)
LEMMA ResolvedIsWhole ==
  ASSUME IInv, NEW s, SegmentInv(s), NEW i \in Members(s)
  PROVE  /\ i \in DOMAIN entries
         /\ ResolvedFrom(s, i) \in Seq(Instant)
         /\ ResolvedFrom(s, i) # NoValue
         /\ ResolvedFrom(s, i) = [k \in 1..Devices(entries[i]) |->
              <<entries[i].type,
                Place(entries[i].type, entries[i].number) + k - 1, clock>>]
  <1> DEFINE r == entries[i]
             value == [k \in 1..Devices(r) |->
                         <<r.type, Place(r.type, r.number) + k - 1, clock>>]
  <1>1. /\ TypeOK /\ s \in Segment /\ s.requests \in Seq(DOMAIN entries)
        /\ i \in DOMAIN entries /\ clock \in Nat
    BY DEF IInv, TypeOK, SegmentInv, Segment, Members
  <1>2. r \in Addresses
    BY <1>1, EntryIsAddress
  <1>3. /\ Devices(r) \in Nat \ {0} /\ Width(r) \in Nat
        /\ Place(r.type, r.number) \in Nat /\ r.type \in DeviceTypes
        /\ PlanNumber(r) \in Nat
        /\ Mergeable(r) => /\ PlanNumber(r) = Place(r.type, r.number)
                           /\ Devices(r) = Width(r)
    BY <1>2, RequestFacts
  <1>4. ResolvedFrom(s, i) = value
    <2>1. CASE Len(s.requests) = 1
      <3>1. i = s.requests[1]
        BY <1>1, <2>1 DEF Members
      <3>2. s.type = r.type /\ s.start = r.number
        BY <3>1 DEF SegmentInv
      <3>3. ResolvedFrom(s, i) = [k \in 1..Devices(r) |->
              <<r.type, Place(r.type, r.number) + (k - 1), clock>>]
        BY <2>1, <3>2 DEF ResolvedFrom, Token
      <3> QED BY <1>3, <3>3
    <2>2. CASE Len(s.requests) # 1
      <3>1. s.mode \in {"WORDS", "DIRECT_BITS"} /\ s.number = Place(s.type, s.start)
        BY <2>2 DEF SegmentInv
      <3>2. s.type = r.type /\ Mode(r) = s.mode /\ s.number \in Nat
        BY <1>1 DEF SegmentInv, SegmentIsExact, Segment
      <3>3. Mergeable(r)
        BY <3>1, <3>2 DEF Mergeable
      <3>4. ResolvedFrom(s, i) = [k \in 1..Devices(r) |->
              <<r.type, s.number + (PlanNumber(r) - s.number + k - 1), clock>>]
        BY <1>3, <2>2, <3>1, <3>2, <3>3 DEF ResolvedFrom, Token, Offset
      <3> QED BY <1>3, <3>2, <3>3, <3>4
    <2> QED BY <2>1, <2>2
  <1>5. value \in Seq(Instant) /\ value # <<>>
    <2>1. \A k \in 1..Devices(r) : value[k] \in Instant
      BY <1>1, <1>3 DEF Instant
    <2>2. value \in [1..Devices(r) -> Instant]
      BY <2>1
    <2>3. \A d \in Nat : \A v \in [1..d -> Instant] : v \in Seq(Instant) /\ Len(v) = d
      OBVIOUS
    <2>4. value \in Seq(Instant) /\ Len(value) = Devices(r)
      BY <1>3, <2>2, <2>3
    <2> HIDE DEF value
    <2> QED BY <1>3, <2>4
  <1> QED BY <1>1, <1>4, <1>5 DEF NoValue

(* One request reads a whole segment at one instant.                       *)
LEMMA ReadSegmentInv ==
  ASSUME IInv, ReadSegment
  PROVE  IInv'
  <1> DEFINE s == segments[next]
  <1>1. /\ PlanUnchanged /\ phase = "reading" /\ phase' = "reading"
        /\ next' = next + 1 /\ UNCHANGED <<clock, began, cycles>>
        /\ next \in 1..Len(segments) /\ TypeOK /\ PlanInv
        /\ resolved' = [i \in DOMAIN entries |->
             IF i \in Members(s) THEN ResolvedFrom(s, i) ELSE resolved[i]]
    BY DEF ReadSegment, IInv, TypeOK
  <1>2. SegmentInv(s)
    BY <1>1 DEF TypeOK, PlanInv
  <1>3. \A i \in Members(s) :
          /\ i \in DOMAIN entries
          /\ resolved'[i] \in Seq(Instant) /\ resolved'[i] # NoValue
          /\ resolved'[i] = [k \in 1..Devices(entries[i]) |->
              <<entries[i].type,
                Place(entries[i].type, entries[i].number) + k - 1, clock>>]
    BY <1>1, <1>2, ResolvedIsWhole
  <1>4. TypeOK'
    <2>1. resolved' \in [DOMAIN entries -> Seq(Instant)]
      BY <1>1, <1>3 DEF TypeOK
    <2>2. next' \in 1..Len(segments) + 1
      BY <1>1 DEF TypeOK
    <2>3. clock \in Nat /\ began \in Nat /\ cycles \in Nat
      BY <1>1 DEF TypeOK
    <2> QED BY <1>1, <2>1, <2>2, <2>3, TypeKept
  <1>5. PlanInv'
    BY <1>1, PlanExecuted
  <1>6. ReadInv'
    <2>1. began <= clock /\ clock \in Nat /\ began \in Nat
      BY DEF IInv, TypeOK, ReadInv
    <2>2. ASSUME NEW i \in DOMAIN entries, resolved'[i] # NoValue PROVE Whole(i)'
      <3>1. CASE i \in Members(s)
        <4>1. entries' = entries /\ clock \in began'..clock'
          BY <1>1, <2>1 DEF PlanUnchanged
        <4>2. resolved'[i] = [k \in 1..Devices(entries[i]) |->
                <<entries[i].type,
                  Place(entries[i].type, entries[i].number) + k - 1, clock>>]
          BY <1>3, <3>1
        <4> QED BY <4>1, <4>2 DEF Whole
      <3>2. CASE i \notin Members(s)
        <4>1. resolved'[i] = resolved[i] /\ resolved[i] # NoValue
          BY <1>1, <2>2, <3>2
        <4>2. Whole(i)
          BY <4>1 DEF IInv, ReadInv
        <4> QED BY <1>1, <4>1, <4>2 DEF Whole, PlanUnchanged
      <3> QED BY <3>1, <3>2
    <2>3. ASSUME NEW k \in 1..next, NEW i \in Members(segments[k])
          PROVE  resolved'[i] # NoValue
      <3>1. CASE i \in Members(s)
        BY <1>3, <3>1
      <3>2. CASE i \notin Members(s)
        <4>1. k \in 1..next - 1
          BY <1>1, <2>3, <3>2
        <4>2. i \in DOMAIN entries
          <5>1. segments[k] \in Segment
            BY <1>1, <4>1 DEF TypeOK
          <5> QED BY <2>3, <5>1 DEF Segment, Members
        <4>3. resolved[i] # NoValue
          BY <1>1, <2>3, <4>1 DEF IInv, ReadInv
        <4> QED BY <1>1, <3>2, <4>2, <4>3
      <3> QED BY <3>1, <3>2
    <2>4. next' - 1 = next
      BY <1>1 DEF TypeOK
    <2> QED
      BY <1>1, <2>1, <2>2, <2>3, <2>4 DEF ReadInv, PlanUnchanged, Members, NoValue
  <1> QED BY <1>4, <1>5, <1>6 DEF IInv

(* A failed request delivers nothing of its cycle.                         *)
LEMMA ReadFailsInv ==
  ASSUME IInv, ReadFails
  PROVE  IInv'
  <1>1. /\ PlanUnchanged /\ phase = "reading" /\ phase' = "failed"
        /\ resolved' = [i \in DOMAIN entries |-> NoValue]
        /\ UNCHANGED <<next, clock, began, cycles>>
    BY DEF ReadFails, Nothing
  <1>2. TypeOK'
    <2>1. NoValue \in Seq(Instant)
      BY DEF NoValue
    <2>2. [i \in DOMAIN entries |-> NoValue] \in [DOMAIN entries -> Seq(Instant)]
      BY <2>1
    <2>3. /\ TypeOK /\ next \in 1..Len(segments) + 1
          /\ clock \in Nat /\ began \in Nat /\ cycles \in Nat
      BY DEF IInv, TypeOK
    <2> QED BY <1>1, <2>2, <2>3, TypeKept
  <1>3. PlanInv'
    BY <1>1, PlanExecuted DEF IInv
  <1>4. ReadInv'
    <2>1. entries' = entries /\ began <= clock
      BY <1>1 DEF IInv, ReadInv, PlanUnchanged
    <2>2. \A i \in DOMAIN entries : resolved'[i] = NoValue
      BY <1>1
    <2> QED BY <1>1, <2>1, <2>2 DEF ReadInv, NoValue
  <1> QED BY <1>2, <1>3, <1>4 DEF IInv

(* Every entry is in a segment, and every segment was read.                *)
LEMMA DeliverInv ==
  ASSUME IInv, Deliver
  PROVE  IInv'
  <1>1. /\ PlanUnchanged /\ phase = "reading" /\ next > Len(segments)
        /\ UNCHANGED <<next, resolved, clock, began, cycles>> /\ TypeOK /\ PlanInv
        /\ phase' = IF \E i \in DOMAIN entries : resolved[i] = NoValue
                      THEN "unresolved" ELSE "delivered"
    BY DEF Deliver, IInv
  <1>2. \A i \in DOMAIN entries : resolved[i] # NoValue
    <2> TAKE i \in DOMAIN entries
    <2>1. i \notin todo /\ i \notin Members(current)
      BY <1>1 DEF PlanInv, Members, NoSegment
    <2>2. PICK k \in DOMAIN segments : i \in Members(segments[k])
      BY <1>1, <2>1 DEF PlanInv, InPlan
    <2>3. k \in 1..next - 1
      BY <1>1, <2>2 DEF TypeOK
    <2> QED BY <1>1, <2>2, <2>3 DEF IInv, ReadInv
  <1>3. phase' = "delivered"
    BY <1>1, <1>2
  <1>4. TypeOK'
    <2>1. /\ next' \in 1..Len(segments) + 1
          /\ resolved' \in [DOMAIN entries -> Seq(Instant)]
          /\ clock' \in Nat /\ began' \in Nat /\ cycles' \in Nat
      BY <1>1 DEF TypeOK
    <2> QED BY <1>1, <1>3, <2>1, TypeKept
  <1>5. PlanInv'
    BY <1>1, <1>3, PlanExecuted
  <1>6. ReadInv'
    BY <1>1, <1>2, <1>3 DEF IInv, ReadInv, Whole, PlanUnchanged, NoValue
  <1> QED BY <1>4, <1>5, <1>6 DEF IInv

(* The memory of the PLC changes between two requests.                     *)
LEMMA TickInv ==
  ASSUME IInv, Tick
  PROVE  IInv'
  <1>1. /\ PlanUnchanged /\ phase \in {"reading", "delivered"}
        /\ clock' = clock + 1 /\ clock \in Nat /\ began \in Nat
        /\ UNCHANGED <<phase, next, resolved, began, cycles>>
    BY DEF Tick, IInv, TypeOK
  <1>2. TypeOK'
    <2>1. /\ TypeOK /\ clock + 1 \in Nat /\ next \in 1..Len(segments) + 1
          /\ resolved \in [DOMAIN entries -> Seq(Instant)] /\ cycles \in Nat
      BY <1>1 DEF IInv, TypeOK
    <2> QED BY <1>1, <2>1, TypeKept
  <1>3. PlanInv'
    BY <1>1, PlanExecuted DEF IInv
  <1>4. ASSUME NEW i \in DOMAIN entries, Whole(i) PROVE Whole(i)'
    <2>1. PICK t \in began..clock :
            resolved[i] = [k \in 1..Devices(entries[i]) |->
              <<entries[i].type, Place(entries[i].type, entries[i].number) + k - 1, t>>]
      BY <1>4 DEF Whole
    <2>2. t \in began'..clock'
      BY <1>1
    <2> QED BY <1>1, <2>1, <2>2 DEF Whole, PlanUnchanged
  <1>5. ReadInv'
    <2>1. entries' = entries /\ segments' = segments /\ ReadInv /\ began' <= clock'
      BY <1>1 DEF IInv, ReadInv, PlanUnchanged
    <2> QED BY <1>1, <1>4, <2>1 DEF ReadInv, Members, NoValue
  <1> QED BY <1>2, <1>3, <1>5 DEF IInv

(* Every step keeps the inductive invariant.                               *)
LEMMA NextInv ==
  ASSUME IInv, [Next]_vars
  PROVE  IInv'
  <1>1. CASE UNCHANGED vars
    <2>1. /\ PlanUnchanged /\ UNCHANGED <<phase, next, resolved, clock, began, cycles>>
          /\ TypeOK /\ PlanInv /\ ReadInv
      BY <1>1 DEF vars, PlanUnchanged, IInv
    <2>2. TypeOK'
      BY <2>1 DEF PlanUnchanged, TypeOK, Segment
    <2>3. PlanInv'
      <3>1. /\ phase' # "refused"
            /\ phase' \in {"parsing", "rejected"} \/
                 \A i \in DOMAIN entries : Semantics(entries[i])
            /\ phase' \in {"parsing", "rejected", "compiling"} \/
                 (todo = {} /\ current = NoSegment)
        BY <2>1 DEF PlanInv
      <3> QED BY <2>1, <3>1, PlanKept
    <2>4. ReadInv'
      BY <2>1 DEF PlanUnchanged, ReadInv, Whole, Members, NoValue
    <2> QED BY <2>2, <2>3, <2>4 DEF IInv
  <1>2. CASE Done
    BY <1>1, <1>2 DEF Done
  <1> QED
    BY <1>1, <1>2, ParseInv, ArrangeInv, CompiledInv, PreflightInv, BeginInv,
       ReadSegmentInv, ReadFailsInv, DeliverInv, TickInv
       DEF Next

(* The inductive invariant holds in every cycle of every plan.             *)
THEOREM Invariance == Spec => []IInv
  <1>1. IInv /\ [Next]_vars => IInv'
    BY NextInv
  <1> QED BY InitInv, <1>1, PTL DEF Spec

(* The list, the plan and the values keep their types.                     *)
THEOREM TypeCorrect == Spec => []TypeOK
  <1>1. IInv => TypeOK
    BY DEF IInv
  <1> QED BY Invariance, <1>1, PTL

(* Whatever the list, each segment of its plan reads its entries as a      *)
(* whole, reads nothing else and fits into one command; no entry is left   *)
(* out, and the later check of the commands never refuses the plan         *)
(* (utils.py 928-1014, 1069-1103).                                         *)
THEOREM PlanCorrect == Spec => []PlanIsExact
  <1>1. IInv => PlanIsExact
    <2> SUFFICES ASSUME IInv PROVE PlanIsExact
      OBVIOUS
    <2>1. \A s \in Parts : SegmentIsExact(s)
      BY DEF IInv, PlanInv, Parts, SegmentInv
    <2>2. ASSUME NEW i \in DOMAIN entries
          PROVE  i \in todo \/ \E s \in Parts : i \in Members(s)
      <3>1. CASE i \in Members(current)
        <4>1. current # NoSegment
          BY <3>1 DEF Members, NoSegment
        <4> QED BY <3>1, <4>1 DEF Parts
      <3>2. CASE \E k \in DOMAIN segments : i \in Members(segments[k])
        BY <3>2 DEF Parts
      <3> QED BY <3>1, <3>2 DEF IInv, PlanInv, InPlan
    <2> QED BY <2>1, <2>2 DEF IInv, PlanInv, PlanIsExact
  <1> QED BY Invariance, <1>1, PTL

(* A value that read_named() or poll() returns is the whole of its own     *)
(* entry at one instant of the present cycle, and none is missing          *)
(* (utils.py 1120-1204).                                                   *)
THEOREM ValuesCorrect == Spec => []EntriesAreWhole
  <1>1. IInv => EntriesAreWhole
    BY DEF IInv, ReadInv, Whole, EntriesAreWhole
  <1> QED BY Invariance, <1>1, PTL
=============================================================================
