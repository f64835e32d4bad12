------------------------- MODULE TcpAccumulator_proofs -------------------------
(***************************************************************************)
(* For every initial capacity, cap of a response, size of a chunk and      *)
(* number of bytes: the receive buffer is bounded, and what is taken from  *)
(* it is the response, whole and nothing else.  The inductive invariant    *)
(* ties the buffer to the stream: what is buffered is the end of what was  *)
(* received, before it came separators only, and what the scan has passed  *)
(* is body.                                                                *)
(***************************************************************************)
EXTENDS TcpAccumulator, SequenceTheorems, TLAPS

Bound == Larger(InitialCapacity, 2 * (ResponseCap + MaxChunk))

IsAccumulator(a) ==
    a = [buffer |-> a.buffer, capacity |-> a.capacity, start |-> a.start,
         count |-> a.count, scan |-> a.scan]

(* How the fields of an accumulator lie to each other.                     *)
Placed(a) ==
    /\ a.capacity \in Nat /\ a.start \in Nat /\ a.count \in Nat /\ a.scan \in Nat
    /\ DOMAIN a.buffer = 0 .. a.capacity - 1
    /\ a.start <= a.scan
    /\ a.scan <= a.start + a.count
    /\ a.start + a.count <= a.capacity
    /\ a.capacity <= Bound

Formed(a) == IsAccumulator(a) /\ Placed(a)

(* a holds the last bytes of s.                                            *)
Holds(a, s) ==
    /\ a.count <= Len(s)
    /\ \A k \in 0 .. a.count - 1 : a.buffer[a.start + k] = s[Len(s) - a.count + 1 + k]

(* The bytes of s from position n to those that a holds are separators.    *)
Skipped(a, s, n) == \A k \in n + 1 .. Len(s) - a.count : s[k] = Separator

(* What the scan of a has passed is body.                                  *)
Passed(a) == \A k \in a.start .. a.scan - 1 : a.buffer[k] # Separator

Phases == {"ready", "scanning", "waiting", "unowned", "malformed", "lost"}

BufferInv ==
    /\ stream \in Seq(Nat) /\ from \in 0 .. Len(stream)
    /\ phase \in Phases
    /\ Formed(rx)
    /\ phase = "ready" => rx.start = 0 /\ rx.count = 0
    /\ phase \in {"scanning", "waiting"} =>
         /\ Holds(rx, stream) /\ Skipped(rx, stream, from) /\ Passed(rx)
         /\ rx.count <= Len(stream) - from
         /\ rx.scan - rx.start <= ResponseCap
    /\ phase = "waiting" => rx.scan = rx.start + rx.count

(* max() returns one of its arguments, and neither exceeds it.             *)
LEMMA LargerIsUpperBound ==
    ASSUME NEW m \in Int, NEW n \in Int
    PROVE  Larger(m, n) \in {m, n} /\ m <= Larger(m, n) /\ n <= Larger(m, n)
BY DEF Larger

(* A chunk is a sequence of bytes of one of the lengths asked for.         *)
LEMMA ChunkIsBytes ==
    ASSUME stream \in Seq(Nat), NEW lengths \in SUBSET Nat, NEW c \in Chunks(lengths)
    PROVE  c \in Seq(Nat) /\ Len(c) \in lengths
<1>1. PICK n \in lengths : c \in {[k \in 1..n |-> IF pattern[k] THEN Separator ELSE Len(stream) + k] :
              pattern \in [1..n -> BOOLEAN]}
  BY DEF Chunks
<1>2. PICK pattern \in [1..n -> BOOLEAN] : c = [k \in 1..n |-> IF pattern[k] THEN Separator ELSE Len(stream) + k]
  BY <1>1
<1>3. n \in Nat /\ Len(stream) \in Nat
  OBVIOUS
<1>4. \A k \in 1..n : (IF pattern[k] THEN Separator ELSE Len(stream) + k) \in Nat
  BY <1>3 DEF Separator
<1>5. c \in [1..n -> Nat]
  BY <1>2, <1>4
<1> QED
  BY <1>3, <1>5

(* Appending keeps what is buffered and adds the chunk to it, in a buffer  *)
(* that stays within the bound.                                            *)
LEMMA AppendedHolds ==
    ASSUME NEW a, Formed(a), a.count <= ResponseCap, NEW s \in Seq(Nat), Holds(a, s),
           Passed(a), NEW c \in Seq(Nat), Len(c) <= MaxChunk, NEW b, b = Appended(a, c)
    PROVE  /\ Formed(b) /\ Holds(b, s \o c) /\ Passed(b)
           /\ b.count = a.count + Len(c)
           /\ b.scan - b.start = a.scan - a.start
<1> DEFINE r == Room(a, Len(c))
<1>0. Len(c) \in Nat /\ ResponseCap \in Nat /\ MaxChunk \in Nat /\ InitialCapacity \in Nat
  BY AccumulatorAssumption
<1>a. IsAccumulator(a) /\ Placed(a)
  BY DEF Formed
<1>1. /\ IsAccumulator(r) /\ Placed(r)
      /\ r.count = a.count
      /\ r.scan - r.start = a.scan - a.start
      /\ \A k \in 0 .. a.count - 1 : r.buffer[r.start + k] = a.buffer[a.start + k]
      /\ r.start + r.count + Len(c) <= r.capacity
  <2>1. CASE a.start + a.count + Len(c) <= a.capacity
    BY <1>0, <1>a, <2>1 DEF Room
  <2>2. CASE /\ ~(a.start + a.count + Len(c) <= a.capacity)
             /\ a.start > 0 /\ a.count + Len(c) <= a.capacity
    <3> DEFINE moved == [k \in DOMAIN a.buffer |->
                           IF k < a.count THEN a.buffer[a.start + k] ELSE a.buffer[k]]
    <3>1. r = [buffer |-> moved, capacity |-> a.capacity, start |-> 0,
               count |-> a.count, scan |-> a.scan - a.start]
      BY <1>a, <2>2 DEF Room, Compacted, IsAccumulator
    <3>2. DOMAIN moved = 0 .. a.capacity - 1
      BY <1>a DEF Placed
    <3>3. \A k \in 0 .. a.count - 1 : moved[k] = a.buffer[a.start + k]
      <4> SUFFICES ASSUME NEW k \in 0 .. a.count - 1
                   PROVE  moved[k] = a.buffer[a.start + k]
        OBVIOUS
      <4>1. k \in DOMAIN a.buffer /\ k < a.count
        BY <1>a DEF Placed
      <4> QED
        BY <4>1
    <3> HIDE DEF moved, r
    <3>4. /\ r.buffer = moved /\ r.capacity = a.capacity /\ r.start = 0
          /\ r.count = a.count /\ r.scan = a.scan - a.start /\ IsAccumulator(r)
      BY <3>1 DEF IsAccumulator
    <3>5. /\ a.start \in Nat /\ a.count \in Nat /\ a.scan \in Nat /\ a.capacity \in Nat
          /\ a.start <= a.scan /\ a.scan <= a.start + a.count /\ a.capacity <= Bound
      BY <1>a DEF Placed
    <3>6. r.scan \in Nat /\ r.start <= r.scan /\ r.scan <= r.start + r.count
      BY <3>4, <3>5
    <3>7. Placed(r)
      BY <3>2, <3>4, <3>5, <3>6, <2>2, <1>0 DEF Placed
    <3>8. \A k \in 0 .. a.count - 1 : r.buffer[r.start + k] = a.buffer[a.start + k]
      BY <3>3, <3>4
    <3> QED
      BY <3>4, <3>5, <3>7, <3>8, <2>2, <1>0
  <2>3. CASE /\ ~(a.start + a.count + Len(c) <= a.capacity)
             /\ ~(a.start > 0 /\ a.count + Len(c) <= a.capacity)
    <3> DEFINE capacity == Larger(Larger(InitialCapacity, a.count + Len(c)),
                                  2 * Larger(1, a.capacity))
               larger == [k \in 0..capacity - 1 |->
                            IF k < a.count THEN a.buffer[a.start + k] ELSE Nul]
    <3>1. r = [buffer |-> larger, capacity |-> capacity, start |-> 0,
               count |-> a.count, scan |-> a.scan - a.start]
      BY <2>3 DEF Room, Grown
    <3>2. capacity \in Nat /\ capacity >= a.count + Len(c) /\ capacity <= Bound
      <4> DEFINE needed == a.count + Len(c)
                 most == ResponseCap + MaxChunk
                 doubled == 2 * Larger(1, a.capacity)
                 first == Larger(InitialCapacity, needed)
      <4>1. /\ needed \in Nat /\ most \in Nat /\ a.capacity \in Nat
            /\ a.capacity < needed /\ needed <= most /\ 1 <= most
        BY <2>3, <1>0, <1>a, AccumulatorAssumption, SMTT(30) DEF Placed
      <4>2. doubled \in Nat /\ doubled <= 2 * most
        BY <4>1, LargerIsUpperBound, SMTT(30)
      <4>3. first \in {InitialCapacity, needed} /\ needed <= first
        BY <4>1, <1>0, LargerIsUpperBound
      <4> HIDE DEF needed, doubled, first
      <4>4. first \in Nat
        BY <4>1, <4>3, <1>0
      <4>5. /\ Larger(first, doubled) \in {first, doubled}
            /\ first <= Larger(first, doubled)
        BY <4>2, <4>4, LargerIsUpperBound
      <4>6. InitialCapacity <= Bound /\ 2 * most <= Bound /\ Bound \in Nat
        <5>1. 2 * most \in Nat
          BY <4>1
        <5> QED
          BY <5>1, <1>0, LargerIsUpperBound, SMTT(30) DEF Bound
      <4>7. capacity = Larger(first, doubled)
        BY DEF first, doubled, needed
      <4> HIDE DEF capacity, most
      <4>8. capacity \in Nat /\ capacity >= needed /\ capacity <= Bound
        BY <4>1, <4>2, <4>3, <4>4, <4>5, <4>6, <4>7, <1>0
      <4> QED
        BY <4>8 DEF needed
    <3>3. DOMAIN larger = 0 .. capacity - 1
      OBVIOUS
    <3> HIDE DEF capacity
    <3>4. \A k \in 0 .. a.count - 1 : larger[k] = a.buffer[a.start + k]
      BY <3>2, <1>0, <1>a DEF Placed
    <3> HIDE DEF larger, r
    <3>5. /\ r.buffer = larger /\ r.capacity = capacity /\ r.start = 0
          /\ r.count = a.count /\ r.scan = a.scan - a.start /\ IsAccumulator(r)
      BY <3>1 DEF IsAccumulator
    <3>6. /\ a.start \in Nat /\ a.count \in Nat /\ a.scan \in Nat
          /\ a.start <= a.scan /\ a.scan <= a.start + a.count
      BY <1>a DEF Placed
    <3>7. /\ r.scan \in Nat /\ r.start <= r.scan /\ r.scan <= r.start + r.count
          /\ r.start + r.count + Len(c) <= r.capacity
          /\ r.start + r.count <= r.capacity
      BY <3>5, <3>6, <3>2, <1>0
    <3>8. Placed(r)
      BY <3>2, <3>3, <3>5, <3>6, <3>7 DEF Placed
    <3>9. \A k \in 0 .. a.count - 1 : r.buffer[r.start + k] = a.buffer[a.start + k]
      BY <3>4, <3>5
    <3>10. r.scan - r.start = a.scan - a.start
      BY <3>5, <3>6
    <3> QED
      BY <3>5, <3>7, <3>8, <3>9, <3>10
  <2> QED
    BY <2>1, <2>2, <2>3
<1>2. CASE c = <<>>
  <2>1. b = a /\ Len(c) = 0 /\ s \o c = s
    BY <1>2 DEF Appended
  <2> QED
    BY <2>1, <1>a DEF Placed
<1>3. CASE c # <<>>
  <2> DEFINE tail == r.start + r.count
             filled == [k \in DOMAIN r.buffer |->
                          IF k \in tail .. tail + Len(c) - 1
                            THEN c[k - tail + 1] ELSE r.buffer[k]]
  <2>1. b = [buffer |-> filled, capacity |-> r.capacity, start |-> r.start,
             count |-> r.count + Len(c), scan |-> r.scan]
    BY <1>1, <1>3 DEF Appended, IsAccumulator
  <2> HIDE DEF r
  <2>2. /\ r.capacity \in Nat /\ r.start \in Nat /\ r.count \in Nat /\ r.scan \in Nat
        /\ tail \in Nat /\ DOMAIN r.buffer = 0 .. r.capacity - 1
        /\ r.start <= r.scan /\ r.scan <= tail /\ r.capacity <= Bound
        /\ tail + Len(c) <= r.capacity
    BY <1>1 DEF Placed
  <2>a. DOMAIN filled = DOMAIN r.buffer
    OBVIOUS
  <2>3. \A k \in 0 .. a.count - 1 : filled[r.start + k] = a.buffer[a.start + k]
    <3> SUFFICES ASSUME NEW k \in 0 .. a.count - 1
                 PROVE  filled[r.start + k] = a.buffer[a.start + k]
      OBVIOUS
    <3>1. r.start + k \in DOMAIN r.buffer /\ r.start + k < tail
      <4>1. a.count \in Nat
        BY <1>a DEF Placed
      <4>2. k \in Nat /\ k < a.count
        BY <4>1
      <4> HIDE DEF tail
      <4>3. tail = r.start + a.count
        BY <1>1 DEF tail
      <4>4. r.start \in Nat /\ r.capacity \in Nat /\ tail <= r.capacity
        BY <1>0, <2>2
      <4>5. r.start + k < tail /\ r.start + k \in 0 .. r.capacity - 1
        BY <4>1, <4>2, <4>3, <4>4
      <4> QED
        BY <4>5, <2>2
    <3>2. filled[r.start + k] = r.buffer[r.start + k]
      BY <3>1, <2>2
    <3> QED
      BY <3>2, <1>1
  <2>4. \A k \in 0 .. Len(c) - 1 : filled[r.start + a.count + k] = c[k + 1]
    <3> SUFFICES ASSUME NEW k \in 0 .. Len(c) - 1
                 PROVE  filled[tail + k] = c[k + 1]
      BY <1>1
    <3>1. /\ tail + k \in DOMAIN r.buffer /\ tail + k \in tail .. tail + Len(c) - 1
          /\ (tail + k) - tail + 1 = k + 1
      <4>1. k \in Nat /\ k < Len(c)
        BY <1>0
      <4> HIDE DEF tail
      <4>2. tail + k \in 0 .. r.capacity - 1
        BY <4>1, <1>0, <2>2, SMTT(30)
      <4> QED
        BY <4>1, <4>2, <1>0, <2>2
    <3>2. filled[tail + k] = c[(tail + k) - tail + 1]
      BY <3>1
    <3> QED
      BY <3>1, <3>2
  <2> HIDE DEF filled, tail
  <2>5. Formed(b)
    <3>1. /\ b.buffer = filled /\ b.capacity = r.capacity /\ b.start = r.start
          /\ b.count = r.count + Len(c) /\ b.scan = r.scan /\ IsAccumulator(b)
      BY <2>1 DEF IsAccumulator
    <3>2. Placed(b)
      BY <3>1, <2>2, <2>a, <1>0, SMTT(30) DEF Placed, tail
    <3> QED
      BY <3>1, <3>2 DEF Formed
  <2>6. /\ b.buffer = filled /\ b.start = r.start /\ b.count = a.count + Len(c)
        /\ b.scan = r.scan
    BY <1>1, <2>1
  <2>7. Holds(b, s \o c)
    <3>1. Len(s \o c) = Len(s) + Len(c) /\ Len(s) \in Nat
      OBVIOUS
    <3>2. b.count <= Len(s \o c)
      BY <1>0, <1>a, <2>6, <3>1 DEF Holds, Placed
    <3>3. ASSUME NEW k \in 0 .. b.count - 1
          PROVE  b.buffer[b.start + k] = (s \o c)[Len(s \o c) - b.count + 1 + k]
      <4>0. k \in Int /\ a.count \in Nat /\ a.count <= Len(s)
        BY <1>a DEF Holds, Placed
      <4>1. CASE k < a.count
        <5>1. k \in 0 .. a.count - 1
          BY <4>0, <4>1, <2>6, <1>0
        <5>2. b.buffer[b.start + k] = s[Len(s) - a.count + 1 + k]
          BY <5>1, <2>3, <2>6 DEF Holds
        <5>3. Len(s) - a.count + 1 + k \in 1 .. Len(s)
          BY <4>0, <5>1, <3>1
        <5>4. Len(s \o c) - b.count + 1 + k = Len(s) - a.count + 1 + k
          BY <4>0, <3>1, <2>6, <1>0
        <5> QED
          BY <5>2, <5>3, <5>4
      <4>2. CASE ~(k < a.count)
        <5>1. k - a.count \in 0 .. Len(c) - 1
          BY <4>0, <4>2, <2>6, <1>0
        <5>2. b.buffer[b.start + k] = c[k - a.count + 1]
          <6>1. filled[r.start + a.count + (k - a.count)] = c[(k - a.count) + 1]
            BY <5>1, <2>4
          <6>2. r.start + a.count + (k - a.count) = b.start + k
            BY <4>0, <2>2, <2>6
          <6> QED
            BY <6>1, <6>2, <2>6
        <5>3. Len(s \o c) - b.count + 1 + k = Len(s) + (k - a.count + 1)
          BY <4>0, <3>1, <2>6, <1>0
        <5>4. k - a.count + 1 \in 1 .. Len(c)
          BY <5>1, <1>0, <4>0
        <5> QED
          BY <5>2, <5>3, <5>4, <3>1
      <4> QED
        BY <4>1, <4>2
    <3> QED
      BY <3>2, <3>3 DEF Holds
  <2>8. Passed(b)
    <3>1. /\ a.start \in Nat /\ a.scan \in Nat /\ a.count \in Nat
          /\ a.scan <= a.start + a.count
          /\ b.scan - b.start = a.scan - a.start /\ b.start \in Nat /\ b.scan \in Nat
      BY <1>1, <1>a, <2>2, <2>6 DEF Placed
    <3>2. \A i \in 0 .. (a.scan - a.start) - 1 :
             /\ i \in 0 .. a.count - 1
             /\ a.start + i \in a.start .. a.scan - 1
      BY <1>a, SMTT(30) DEF Placed
    <3>3. \A i \in 0 .. (a.scan - a.start) - 1 : b.buffer[b.start + i] # Separator
      BY <3>2, <2>3, <2>6 DEF Passed
    <3>4. \A k \in b.start .. b.scan - 1 :
             k - b.start \in 0 .. (a.scan - a.start) - 1 /\ b.start + (k - b.start) = k
      BY <3>1, SMTT(30)
    <3> QED
      BY <3>3, <3>4 DEF Passed
  <2> QED
    BY <1>1, <2>5, <2>6, <2>7, <2>8
<1> QED
  BY <1>2, <1>3

(* reset() leaves an empty accumulator that keeps its buffer.              *)
LEMMA ResetIsFormed ==
    ASSUME NEW a, Formed(a)
    PROVE  /\ Formed(Reset(a)) /\ Reset(a).start = 0 /\ Reset(a).count = 0
           /\ Reset(a).scan = 0
<1>1. IsAccumulator(a) /\ Placed(a)
  BY DEF Formed
<1>2. Reset(a) = [buffer |-> a.buffer, capacity |-> a.capacity, start |-> 0,
                  count |-> 0, scan |-> 0]
  BY DEF Reset
<1>3. /\ Reset(a).buffer = a.buffer /\ Reset(a).capacity = a.capacity
      /\ Reset(a).start = 0 /\ Reset(a).count = 0 /\ Reset(a).scan = 0
      /\ IsAccumulator(Reset(a))
  BY <1>2 DEF IsAccumulator
<1> QED
  BY <1>1, <1>3 DEF Formed, Placed

(* release() leaves an empty accumulator with a buffer of the first size.  *)
LEMMA ReleasedIsFormed ==
    /\ Formed(Released) /\ Released.start = 0 /\ Released.count = 0
    /\ Released.scan = 0
<1>1. Bound \in Nat
  BY AccumulatorAssumption, LargerIsUpperBound DEF Bound
<1>2. DOMAIN <<>> = 0 .. 0 - 1
  OBVIOUS
<1>3. /\ Released.buffer = <<>> /\ Released.capacity = 0 /\ Released.start = 0
      /\ Released.count = 0 /\ Released.scan = 0 /\ IsAccumulator(Released)
  BY DEF Released, Empty, IsAccumulator
<1> QED
  BY <1>1, <1>2, <1>3 DEF Formed, Placed

(* An accumulator that holds nothing holds the end of every stream.        *)
LEMMA NothingHeld ==
    ASSUME NEW a, Formed(a), a.count = 0, NEW s \in Seq(Nat)
    PROVE  Holds(a, s) /\ Passed(a) /\ a.scan = a.start
<1>1. /\ a.start \in Nat /\ a.scan \in Nat /\ a.start <= a.scan
      /\ a.scan <= a.start + 0
  BY DEF Formed, Placed
<1>2. a.scan = a.start
  BY <1>1
<1> QED
  BY <1>1, <1>2 DEF Holds, Passed

(* Between two requests nothing is buffered; what arrives next is either   *)
(* thrown away or not a response to the next request.                      *)
LEMMA RequestKeepsBuffer ==
    ASSUME BufferInv, Request
    PROVE  BufferInv'
<1>1. PICK c \in Chunks(0..MaxChunk) :
         /\ stream' = stream \o c
         /\ from' = Len(stream')
         /\ IF OnlySeparators(Appended(rx, c))
              THEN phase' = "scanning" /\ rx' = Reset(Appended(rx, c))
              ELSE phase' = "unowned" /\ rx' = Released
  BY DEF Request
<1>2. /\ phase = "ready" /\ stream \in Seq(Nat) /\ Formed(rx) /\ rx.count = 0
      /\ ResponseCap \in Nat /\ MaxChunk \in Nat
  BY AccumulatorAssumption DEF Request, BufferInv
<1>3. c \in Seq(Nat) /\ Len(c) \in 0..MaxChunk
  <2>1. 0..MaxChunk \in SUBSET Nat
    BY <1>2
  <2> QED
    BY <1>2, <2>1, ChunkIsBytes
<1>4. Formed(Appended(rx, c))
  <2>1. Holds(rx, stream) /\ Passed(rx)
    BY <1>2, NothingHeld
  <2> QED
    BY <1>2, <1>3, <2>1, AppendedHolds
<1>5. stream' \in Seq(Nat) /\ from' = Len(stream') /\ from' \in 0 .. Len(stream')
  BY <1>1, <1>2, <1>3
<1>6. CASE OnlySeparators(Appended(rx, c))
  <2>1. /\ phase' = "scanning" /\ Formed(rx)' /\ rx'.start = 0 /\ rx'.count = 0
        /\ rx'.scan = 0
    BY <1>1, <1>4, <1>6, ResetIsFormed
  <2>2. Holds(rx', stream') /\ Passed(rx')
    BY <2>1, <1>5, NothingHeld
  <2>3. Skipped(rx', stream', from')
    BY <2>1, <1>5 DEF Skipped
  <2> QED
    BY <1>2, <1>5, <2>1, <2>2, <2>3 DEF BufferInv, Phases
<1>7. CASE ~OnlySeparators(Appended(rx, c))
  <2>1. phase' = "unowned" /\ Formed(rx)'
    BY <1>1, <1>7, ReleasedIsFormed
  <2> QED
    BY <1>5, <2>1 DEF BufferInv, Phases
<1> QED
  BY <1>6, <1>7

(* A received chunk is appended behind the bytes that are buffered.        *)
LEMMA ReceiveKeepsBuffer ==
    ASSUME BufferInv, Receive
    PROVE  BufferInv'
<1>1. PICK c \in Chunks(1..MaxChunk) : stream' = stream \o c /\ rx' = Appended(rx, c)
  BY DEF Receive
<1>2. /\ phase = "waiting" /\ phase' = "scanning" /\ from' = from
      /\ stream \in Seq(Nat) /\ from \in 0 .. Len(stream) /\ Formed(rx)
      /\ Holds(rx, stream) /\ Skipped(rx, stream, from) /\ Passed(rx)
      /\ rx.count <= Len(stream) - from /\ rx.scan - rx.start <= ResponseCap
      /\ rx.scan = rx.start + rx.count
      /\ ResponseCap \in Nat /\ MaxChunk \in Nat
  BY AccumulatorAssumption DEF Receive, BufferInv
<1>3. c \in Seq(Nat) /\ Len(c) \in 1..MaxChunk
  <2>1. 1..MaxChunk \in SUBSET Nat
    BY <1>2
  <2> QED
    BY <1>2, <2>1, ChunkIsBytes
<1>4. rx.start \in Nat /\ rx.count \in Nat /\ rx.count <= ResponseCap
  <2>1. rx.start \in Nat /\ rx.count \in Nat
    BY <1>2 DEF Formed, Placed
  <2> QED
    BY <1>2, <2>1
<1>5. /\ Formed(rx') /\ Holds(rx', stream') /\ Passed(rx')
      /\ rx'.count = rx.count + Len(c)
      /\ rx'.scan - rx'.start = rx.scan - rx.start
  <2>1. Len(c) <= MaxChunk
    BY <1>2, <1>3
  <2> QED
    BY <1>1, <1>2, <1>3, <1>4, <2>1, AppendedHolds
<1>6. stream' \in Seq(Nat) /\ Len(stream') = Len(stream) + Len(c)
  BY <1>1, <1>2, <1>3
<1>7. Len(stream) \in Nat /\ Len(c) \in Nat /\ from \in Nat /\ from <= Len(stream)
  BY <1>2, <1>3
<1>8. rx'.count <= Len(stream') - from /\ from \in 0 .. Len(stream')
  BY <1>2, <1>4, <1>5, <1>6, <1>7
<1>9. Skipped(rx', stream', from)
  <2> SUFFICES ASSUME NEW k \in from + 1 .. Len(stream') - rx'.count
               PROVE  stream'[k] = Separator
    BY DEF Skipped
  <2>1. Len(stream') - rx'.count = Len(stream) - rx.count
    BY <1>4, <1>5, <1>6, <1>7
  <2>2. k \in from + 1 .. Len(stream) - rx.count /\ k \in 1 .. Len(stream)
    BY <2>1, <1>4, <1>7
  <2>3. stream'[k] = stream[k]
    BY <2>2, <1>1, <1>2, <1>3
  <2> QED
    BY <2>2, <2>3, <1>2 DEF Skipped
<1> QED
  BY <1>2, <1>5, <1>6, <1>8, <1>9 DEF BufferInv, Phases

(* What the scan of a request leans on, with the fields as numbers.        *)
LEMMA WhileScanning ==
    ASSUME BufferInv, phase \in {"scanning", "waiting"}
    PROVE  /\ stream \in Seq(Nat) /\ from \in Nat /\ Len(stream) \in Nat
           /\ rx.start \in Nat /\ rx.count \in Nat /\ rx.scan \in Nat
           /\ rx.capacity \in Nat /\ ResponseCap \in Nat
           /\ rx.start <= rx.scan /\ rx.scan <= rx.start + rx.count
           /\ rx.scan - rx.start <= ResponseCap
           /\ from + rx.count <= Len(stream)
BY AccumulatorAssumption DEF BufferInv, Formed, Placed

(* A separator before the line is dropped; it joins those in front.        *)
LEMMA SkipKeepsBuffer ==
    ASSUME BufferInv, SkipSeparator
    PROVE  BufferInv'
<1>1. /\ phase = "scanning" /\ phase' = "scanning" /\ stream' = stream /\ from' = from
      /\ rx.scan < rx.start + rx.count /\ rx.scan = rx.start
      /\ rx.buffer[rx.scan] = Separator
      /\ Formed(rx) /\ Holds(rx, stream) /\ Skipped(rx, stream, from)
  BY DEF SkipSeparator, Scanning, End, ByteAt, BufferInv
<1>2. /\ IsAccumulator(rx') /\ rx'.buffer = rx.buffer /\ rx'.capacity = rx.capacity
      /\ rx'.start = rx.start + 1 /\ rx'.count = rx.count - 1
      /\ rx'.scan = rx.scan + 1
  <2>1. PICK b, n, i, j, k : rx = [buffer |-> b, capacity |-> n, start |-> i,
                                   count |-> j, scan |-> k]
    BY <1>1 DEF Formed, IsAccumulator
  <2>2. rx' = [buffer |-> b, capacity |-> n, start |-> i + 1, count |-> j - 1,
               scan |-> k + 1]
    BY <2>1 DEF SkipSeparator
  <2>3. rx.buffer = b /\ rx.capacity = n /\ rx.start = i /\ rx.count = j /\ rx.scan = k
    BY <2>1
  <2> QED
    BY <2>2, <2>3 DEF IsAccumulator
<1>3. /\ from \in Nat /\ Len(stream) \in Nat /\ rx.start \in Nat /\ rx.count \in Nat
      /\ rx.capacity \in Nat /\ ResponseCap \in Nat /\ rx.scan \in Nat
      /\ from + rx.count <= Len(stream) /\ rx.count >= 1
  BY <1>1, WhileScanning
<1>4. Formed(rx')
  <2>1. /\ DOMAIN rx.buffer = 0 .. rx.capacity - 1 /\ rx.capacity <= Bound
        /\ rx.start + rx.count <= rx.capacity
    BY <1>1 DEF Formed, Placed
  <2>2. Placed(rx')
    BY <1>1, <1>2, <1>3, <2>1, SMTT(30) DEF Placed
  <2> QED
    BY <1>2, <2>2 DEF Formed
<1>5. rx.buffer[rx.start] = stream[Len(stream) - rx.count + 1]
  <2>1. 0 \in 0 .. rx.count - 1 /\ rx.start + 0 = rx.start
        /\ Len(stream) - rx.count + 1 + 0 = Len(stream) - rx.count + 1
    BY <1>3
  <2>2. rx.buffer[rx.start + 0] = stream[Len(stream) - rx.count + 1 + 0]
    BY <2>1, <1>1 DEF Holds
  <2> QED
    BY <2>1, <2>2
<1>6. Holds(rx', stream)
  <2>1. rx.count - 1 <= Len(stream)
    BY <1>3
  <2>a. \A k \in 0 .. (rx.count - 1) - 1 : k + 1 \in 0 .. rx.count - 1
    BY <1>3
  <2>b. \A k \in 0 .. (rx.count - 1) - 1 : rx.start + (k + 1) = rx.start + 1 + k
    BY <1>3, SMTT(30)
  <2>c. \A k \in 0 .. (rx.count - 1) - 1 :
          Len(stream) - rx.count + 1 + (k + 1) = Len(stream) - (rx.count - 1) + 1 + k
    <3>1. Len(stream) \in Nat /\ rx.count \in Nat
      BY <1>3
    <3> QED
      BY <3>1
  <2>2. \A k \in 0 .. (rx.count - 1) - 1 :
          rx.buffer[rx.start + 1 + k] = stream[Len(stream) - (rx.count - 1) + 1 + k]
    <3> SUFFICES ASSUME NEW k \in 0 .. (rx.count - 1) - 1
                 PROVE  rx.buffer[rx.start + 1 + k]
                          = stream[Len(stream) - (rx.count - 1) + 1 + k]
      OBVIOUS
    <3>1. rx.buffer[rx.start + (k + 1)] = stream[Len(stream) - rx.count + 1 + (k + 1)]
      BY <2>a, <1>1 DEF Holds
    <3> QED
      BY <3>1, <2>b, <2>c
  <2> QED
    BY <1>2, <2>1, <2>2 DEF Holds
<1>7. Skipped(rx', stream, from)
  <2> SUFFICES ASSUME NEW k \in from + 1 .. Len(stream) - (rx.count - 1)
               PROVE  stream[k] = Separator
    BY <1>2 DEF Skipped
  <2>1. k = Len(stream) - rx.count + 1 \/ k \in from + 1 .. Len(stream) - rx.count
    BY <1>3, SMTT(30)
  <2> QED
    BY <2>1, <1>1, <1>5 DEF Skipped
<1>8. Passed(rx') /\ rx'.scan - rx'.start <= ResponseCap
  BY <1>1, <1>2, <1>3 DEF Passed
<1>9. rx'.count <= Len(stream) - from
  BY <1>2, <1>3
<1> QED
  BY <1>1, <1>4, <1>6, <1>7, <1>8, <1>9 DEF BufferInv

(* A byte of the line, which stays within the cap.                         *)
LEMMA AdvanceKeepsBuffer ==
    ASSUME BufferInv, Advance
    PROVE  BufferInv'
<1>1. /\ phase = "scanning" /\ stream' = stream /\ from' = from
      /\ rx.scan < rx.start + rx.count /\ rx.buffer[rx.scan] # Separator
      /\ Formed(rx) /\ Holds(rx, stream) /\ Skipped(rx, stream, from) /\ Passed(rx)
      /\ stream \in Seq(Nat) /\ from \in 0 .. Len(stream)
      /\ rx.count <= Len(stream) - from
  BY DEF Advance, Scanning, End, ByteAt, BufferInv
<1>2. CASE rx.scan + 1 - rx.start > ResponseCap
  <2>1. phase' = "malformed" /\ rx' = Released
    BY <1>2 DEF Advance, Malformed
  <2>2. Formed(rx')
    BY <2>1, ReleasedIsFormed
  <2> QED
    BY <1>1, <2>1, <2>2 DEF BufferInv, Phases
<1>3. CASE ~(rx.scan + 1 - rx.start > ResponseCap)
  <2>1. phase' = "scanning" /\ rx' = [rx EXCEPT !.scan = @ + 1]
    BY <1>1, <1>3 DEF Advance
  <2>2. /\ IsAccumulator(rx') /\ rx'.buffer = rx.buffer /\ rx'.capacity = rx.capacity
        /\ rx'.start = rx.start /\ rx'.count = rx.count /\ rx'.scan = rx.scan + 1
    <3>1. PICK b, n, i, j, k : rx = [buffer |-> b, capacity |-> n, start |-> i,
                                     count |-> j, scan |-> k]
      BY <1>1 DEF Formed, IsAccumulator
    <3>2. rx' = [buffer |-> b, capacity |-> n, start |-> i, count |-> j, scan |-> k + 1]
      BY <3>1, <2>1
    <3>3. rx.buffer = b /\ rx.capacity = n /\ rx.start = i /\ rx.count = j /\ rx.scan = k
      BY <3>1
    <3> QED
      BY <3>2, <3>3 DEF IsAccumulator
  <2>3. /\ rx.start \in Nat /\ rx.count \in Nat /\ rx.scan \in Nat
        /\ ResponseCap \in Nat /\ rx.start <= rx.scan
    BY <1>1, WhileScanning
  <2>4. Formed(rx')
    <3>1. /\ DOMAIN rx.buffer = 0 .. rx.capacity - 1 /\ rx.capacity <= Bound
          /\ rx.start + rx.count <= rx.capacity /\ rx.capacity \in Nat
      BY <1>1 DEF Formed, Placed
    <3>2. Placed(rx')
      BY <1>1, <2>2, <2>3, <3>1 DEF Placed
    <3> QED
      BY <2>2, <3>2 DEF Formed
  <2>5. Holds(rx', stream) /\ Skipped(rx', stream, from)
    BY <1>1, <2>2 DEF Holds, Skipped
  <2>6. Passed(rx')
    <3> SUFFICES ASSUME NEW k \in rx.start .. (rx.scan + 1) - 1
                 PROVE  rx.buffer[k] # Separator
      BY <2>2 DEF Passed
    <3>1. k = rx.scan \/ k \in rx.start .. rx.scan - 1
      BY <2>3
    <3> QED
      BY <3>1, <1>1 DEF Passed
  <2>7. rx'.scan - rx'.start <= ResponseCap
    BY <1>3, <2>2, <2>3
  <2> QED
    BY <1>1, <2>1, <2>2, <2>4, <2>5, <2>6, <2>7 DEF BufferInv, Phases
<1> QED
  BY <1>2, <1>3

(* The other steps empty the accumulator or leave it alone.                *)
LEMMA OthersKeepBuffer ==
    ASSUME BufferInv, TakeLine \/ NotYet \/ ReceiveFails \/ Connect \/ UNCHANGED vars
    PROVE  BufferInv'
<1>1. Formed(rx) /\ stream \in Seq(Nat) /\ from \in 0 .. Len(stream) /\ Len(stream) \in Nat
  BY DEF BufferInv
<1>2. CASE TakeLine
  <2>1. /\ stream' = stream /\ from' = from
        /\ \/ phase' = "malformed" /\ rx' = Released
           \/ phase' = "ready" /\ rx' = Reset(rx)
    BY <1>2 DEF TakeLine, Malformed, Scanning
  <2> QED
    BY <1>1, <2>1, ReleasedIsFormed, ResetIsFormed DEF BufferInv, Phases
<1>3. CASE NotYet
  <2>1. /\ phase = "scanning" /\ phase' = "waiting" /\ rx' = rx /\ stream' = stream
        /\ from' = from /\ ~(rx.scan < rx.start + rx.count)
    BY <1>3, WhileScanning DEF NotYet, End
  <2>2. rx.scan = rx.start + rx.count
    <3>1. /\ rx.start \in Nat /\ rx.count \in Nat /\ rx.scan \in Nat
          /\ rx.scan <= rx.start + rx.count
      BY <2>1, WhileScanning
    <3> QED
      BY <2>1, <3>1
  <2> QED
    BY <1>1, <2>1, <2>2 DEF BufferInv, Phases
<1>4. CASE ReceiveFails
  <2>1. /\ phase' = "lost" /\ rx' = Released /\ stream' = stream /\ from' = from
    BY <1>4 DEF ReceiveFails
  <2> QED
    BY <1>1, <2>1, ReleasedIsFormed DEF BufferInv, Phases
<1>5. CASE Connect
  <2>1. /\ phase' = "ready" /\ rx' = Reset(rx) /\ stream' = stream
        /\ from' = Len(stream)
    BY <1>5 DEF Connect
  <2>2. from' \in 0 .. Len(stream')
    BY <1>1, <2>1
  <2> QED
    BY <1>1, <2>1, <2>2, ResetIsFormed DEF BufferInv, Phases
<1>6. CASE UNCHANGED vars
  BY <1>6 DEF BufferInv, vars
<1> QED
  BY <1>2, <1>3, <1>4, <1>5, <1>6

(* The receive buffer is bounded for ever, by the cap of a response and    *)
(* the size of a chunk (append(), 250-275).                                *)
THEOREM BufferStaysBounded == Spec => []BufferIsBounded
<1>1. Init => BufferInv
  <2> SUFFICES ASSUME Init PROVE BufferInv
    OBVIOUS
  <2>1. rx = Released /\ stream = <<>> /\ from = 0 /\ phase = "ready"
    BY DEF Init, Released
  <2>2. stream \in Seq(Nat) /\ Len(stream) = 0
    BY <2>1
  <2> QED
    BY <2>1, <2>2, ReleasedIsFormed DEF BufferInv, Phases
<1>2. BufferInv /\ [Next]_vars => BufferInv'
  BY RequestKeepsBuffer, ReceiveKeepsBuffer, SkipKeepsBuffer, AdvanceKeepsBuffer,
     OthersKeepBuffer DEF Next
<1>3. BufferInv => BufferIsBounded
  BY DEF BufferInv, Formed, Placed, BufferIsBounded, Bound, End
<1> QED
  BY <1>1, <1>2, <1>3, PTL DEF Spec
-----------------------------------------------------------------------------
(* How many bytes of the input lie before those that are buffered.         *)
Before == Len(stream) - from - rx.count

(* The input since the last reset is the tail of the stream.               *)
LEMMA InputIsStream ==
    ASSUME stream \in Seq(Nat), from \in 0 .. Len(stream)
    PROVE  /\ Input \in Seq(Nat) /\ Len(Input) = Len(stream) - from
           /\ DOMAIN Input = 1 .. Len(stream) - from
           /\ \A k \in 1 .. Len(stream) - from : Input[k] = stream[from + k]
<1>1. Len(stream) \in Nat /\ from \in Nat /\ Len(stream) - from \in Nat
  OBVIOUS
<1>2. \A k \in 1 .. Len(stream) - from : from + k \in 1 .. Len(stream)
  BY <1>1
<1>3. \A k \in 1 .. Len(stream) - from : stream[from + k] \in Nat
  BY <1>2
<1>4. Input \in [1 .. Len(stream) - from -> Nat]
  BY <1>3 DEF Input
<1> QED
  BY <1>1, <1>4 DEF Input

(* The input of a request, told from the buffer: separators, then what is  *)
(* buffered, of which the scan has passed body only.                       *)
LEMMA InputIsBuffered ==
    ASSUME BufferInv, phase \in {"scanning", "waiting"}
    PROVE  /\ Before \in Nat /\ rx.count \in Nat /\ rx.scan - rx.start \in Nat
           /\ rx.scan - rx.start <= rx.count /\ rx.scan - rx.start <= ResponseCap
           /\ Input \in Seq(Nat) /\ Len(Input) = Before + rx.count
           /\ DOMAIN Input = 1 .. Before + rx.count
           /\ \A k \in 1 .. Before : ~Body(k)
           /\ \A k \in 0 .. rx.count - 1 :
                 Input[Before + 1 + k] = rx.buffer[rx.start + k]
           /\ \A k \in 0 .. (rx.scan - rx.start) - 1 : Body(Before + 1 + k)
<1>1. /\ stream \in Seq(Nat) /\ from \in Nat /\ Len(stream) \in Nat
      /\ rx.start \in Nat /\ rx.count \in Nat /\ rx.scan \in Nat
      /\ rx.start <= rx.scan /\ rx.scan <= rx.start + rx.count
      /\ rx.scan - rx.start <= ResponseCap
      /\ from + rx.count <= Len(stream)
  BY WhileScanning
<1>2. /\ Before \in Nat /\ Before + rx.count = Len(stream) - from
      /\ from + Before = Len(stream) - rx.count
  BY <1>1 DEF Before
<1>3. /\ Input \in Seq(Nat) /\ Len(Input) = Before + rx.count
      /\ DOMAIN Input = 1 .. Before + rx.count
      /\ \A k \in 1 .. Before + rx.count : Input[k] = stream[from + k]
  <2>1. from \in 0 .. Len(stream)
    BY <1>1
  <2> QED
    BY <1>1, <1>2, <2>1, InputIsStream
<1>4. Holds(rx, stream) /\ Skipped(rx, stream, from) /\ Passed(rx)
  BY DEF BufferInv
<1>5. \A k \in 1 .. Before : ~Body(k)
  <2> SUFFICES ASSUME NEW k \in 1 .. Before PROVE Input[k] = Separator
    BY DEF Body
  <2>1. k \in 1 .. Before + rx.count /\ from + k \in from + 1 .. Len(stream) - rx.count
    BY <1>1, <1>2
  <2> QED
    BY <2>1, <1>3, <1>4 DEF Skipped
<1>6. \A k \in 0 .. rx.count - 1 : Input[Before + 1 + k] = rx.buffer[rx.start + k]
  <2> SUFFICES ASSUME NEW k \in 0 .. rx.count - 1
               PROVE  Input[Before + 1 + k] = rx.buffer[rx.start + k]
    OBVIOUS
  <2>1. k \in Nat /\ k < rx.count
    BY <1>1
  <2>2. Before + 1 + k \in 1 .. Before + rx.count
    BY <2>1, <1>1, <1>2
  <2>3. from + (Before + 1 + k) = Len(stream) - rx.count + 1 + k
    BY <2>1, <1>1, <1>2
  <2> QED
    BY <2>2, <2>3, <1>3, <1>4 DEF Holds
<1>7. \A k \in 0 .. (rx.scan - rx.start) - 1 : Body(Before + 1 + k)
  <2> SUFFICES ASSUME NEW k \in 0 .. (rx.scan - rx.start) - 1
               PROVE  Input[Before + 1 + k] # Separator
    BY DEF Body
  <2>1. k \in 0 .. rx.count - 1 /\ rx.start + k \in rx.start .. rx.scan - 1
    BY <1>1, SMTT(30)
  <2> QED
    BY <2>1, <1>4, <1>6 DEF Passed
<1>8. rx.scan - rx.start \in Nat /\ rx.scan - rx.start <= rx.count
  BY <1>1
<1> QED
  BY <1>1, <1>2, <1>3, <1>5, <1>6, <1>7, <1>8

(* A request that waits has no complete response.                          *)
LEMMA WaitingHasNoResponse ==
    ASSUME BufferInv, phase = "waiting"
    PROVE  NoResponseYet
<1> DEFINE p == Before
           n == rx.count
<1>1. /\ p \in Nat /\ n \in Nat /\ n <= ResponseCap /\ ResponseCap \in Nat
      /\ DOMAIN Input = 1 .. p + n
      /\ \A k \in 1 .. p : ~Body(k)
      /\ \A k \in 0 .. n - 1 : Body(p + 1 + k)
  <2>1. rx.scan - rx.start = rx.count
    BY WhileScanning DEF BufferInv
  <2> QED
    BY <2>1, InputIsBuffered, AccumulatorAssumption
<1> HIDE DEF p, n
<1>2. \A k \in p + 1 .. p + n : Body(k)
  <2> SUFFICES ASSUME NEW k \in p + 1 .. p + n PROVE Body(k)
    OBVIOUS
  <2>1. k - p - 1 \in 0 .. n - 1 /\ p + 1 + (k - p - 1) = k
    BY <1>1
  <2> QED
    BY <2>1, <1>1
<1>3. ~TooLong
  <2> SUFFICES ASSUME NEW i \in 1 .. p + n, i + ResponseCap \in 1 .. p + n,
                      \A k \in i .. i + ResponseCap : Body(k)
               PROVE  FALSE
    BY <1>1 DEF TooLong
  <2>1. i \in i .. i + ResponseCap /\ i <= p
    BY <1>1
  <2>2. i \in 1 .. p
    BY <2>1, <1>1
  <2> QED
    BY <2>1, <2>2, <1>1
<1>4. ASSUME NEW i \in 1 .. p + n, NEW j \in 1 .. p + n, i < j, Body(i)
      PROVE  Body(j)
  <2>1. ~(i \in 1 .. p)
    BY <1>1, <1>4
  <2>2. j \in p + 1 .. p + n
    BY <2>1, <1>1, <1>4
  <2> QED
    BY <2>2, <1>2
<1> QED
  BY <1>1, <1>3, <1>4 DEF NoResponseYet

(* The line that is taken is the response; one that is refused is followed *)
(* by another.                                                             *)
LEMMA TakenIsResponse ==
    ASSUME BufferInv, TakeLine
    PROVE  \/ phase' = "ready" /\ IsResponse(line')
           \/ phase' = "malformed" /\ TwoLines
<1> DEFINE p == Before
           n == rx.count
           d == rx.scan - rx.start
<1>1. /\ phase = "scanning" /\ rx.scan < rx.start + rx.count
      /\ rx.buffer[rx.scan] = Separator /\ rx.scan # rx.start
  BY DEF TakeLine, Scanning, End, ByteAt
<1>2. /\ rx.start \in Nat /\ rx.count \in Nat /\ rx.scan \in Nat
      /\ rx.start <= rx.scan /\ ResponseCap \in Nat
  BY <1>1, WhileScanning
<1>3. /\ p \in Nat /\ n \in Nat /\ d \in Nat /\ 1 <= d /\ d < n /\ d <= ResponseCap
      /\ ~(rx.scan - rx.start > ResponseCap)
  <2>1. d \in Nat /\ 1 <= d /\ d < n
    BY <1>1, <1>2
  <2>2. d <= ResponseCap
    BY <1>1, InputIsBuffered
  <2>3. ~(rx.scan - rx.start > ResponseCap)
    BY <2>1, <2>2, <1>2
  <2> QED
    BY <1>1, <2>1, <2>2, <2>3, InputIsBuffered
<1>a. /\ Input \in Seq(Nat) /\ Len(Input) = p + n
      /\ DOMAIN Input = 1 .. p + n
      /\ \A k \in 1 .. p : ~Body(k)
      /\ \A k \in 0 .. n - 1 : Input[p + 1 + k] = rx.buffer[rx.start + k]
      /\ \A k \in 0 .. d - 1 : Body(p + 1 + k)
  BY <1>1, InputIsBuffered
<1>4. rx.start + d = rx.scan
  BY <1>2
<1> HIDE DEF p, n, d
<1>5. ~Body(p + 1 + d)
  <2>1. d \in 0 .. n - 1
    BY <1>3
  <2> QED
    BY <2>1, <1>1, <1>a, <1>4 DEF Body
<1>6. \A k \in p + 1 .. p + d : Body(k)
  <2>1. \A k \in p + 1 .. p + d : k - p - 1 \in 0 .. d - 1 /\ p + 1 + (k - p - 1) = k
    BY <1>3
  <2> QED
    BY <2>1, <1>a
<1>8. CASE ~NothingFollows
  <2>1. PICK m \in rx.scan + 1 .. End - 1 : ByteAt(m) # Separator
    BY <1>8 DEF NothingFollows
  <2> DEFINE e == m - rx.start
  <2>2. e \in 0 .. n - 1 /\ rx.start + e = m /\ e > d
    BY <1>2 DEF n, d, End
  <2> HIDE DEF e
  <2>3. Body(p + 1 + e)
    BY <2>1, <2>2, <1>a DEF Body, ByteAt
  <2>4. /\ p + 1 \in 1 .. p + n /\ p + 1 + d \in 1 .. p + n
        /\ p + 1 + e \in 1 .. p + n
        /\ p + 1 < p + 1 + d /\ p + 1 + d < p + 1 + e
        /\ p + 1 \in p + 1 .. p + d
    BY <1>3, <2>2
  <2>5. TwoLines
    BY <2>3, <2>4, <1>a, <1>5, <1>6 DEF TwoLines
  <2> QED
    BY <1>8, <2>5 DEF TakeLine, Malformed
<1>9. CASE NothingFollows
  <2>1. /\ phase' = "ready"
        /\ line' = [k \in 1 .. rx.scan - rx.start |-> rx.buffer[rx.start + k - 1]]
    BY <1>3, <1>9 DEF TakeLine, ByteAt
  <2>2. line' = SubSeq(Input, p + 1, p + d)
    <3> DEFINE t == SubSeq(Input, p + 1, p + d)
    <3>1. t = [k \in 1 .. d |-> Input[p + k]]
      <4>1. \A i \in p + 1 .. p + d : Input[i] \in Nat
        <5>1. \A i \in p + 1 .. p + d : i \in 1 .. p + n
          BY <1>3
        <5> QED
          BY <5>1, <1>a
      <4>2. /\ p + 1 \in Int /\ p + d \in Int /\ p + 1 <= p + d
            /\ (p + d) - (p + 1) + 1 = d
            /\ \A k \in 1 .. d : (p + 1) + k - 1 = p + k
        BY <1>3
      <4>3. /\ t \in Seq(Nat) /\ Len(t) = (p + d) - (p + 1) + 1
            /\ \A k \in 1 .. (p + d) - (p + 1) + 1 : t[k] = Input[(p + 1) + k - 1]
        BY <4>1, <4>2, SubSeqProperties
      <4> HIDE DEF t
      <4>4. DOMAIN t = 1 .. d /\ \A k \in 1 .. d : t[k] = Input[p + k]
        BY <4>2, <4>3
      <4>5. t = [k \in DOMAIN t |-> t[k]]
        BY <4>3
      <4> QED
        BY <4>4, <4>5
    <3>2. \A k \in 1 .. d : Input[p + k] = rx.buffer[rx.start + k - 1]
      <4> SUFFICES ASSUME NEW k \in 1 .. d
                   PROVE  Input[p + k] = rx.buffer[rx.start + k - 1]
        OBVIOUS
      <4>1. k - 1 \in 0 .. n - 1 /\ p + 1 + (k - 1) = p + k
            /\ rx.start + (k - 1) = rx.start + k - 1
        BY <1>2, <1>3
      <4> QED
        BY <4>1, <1>a
    <3> QED
      BY <2>1, <3>1, <3>2 DEF d
  <2>3. ASSUME NEW k \in 1 .. p + n
        PROVE  Body(k) <=> k \in p + 1 .. p + d
    <3>0. k \in Nat /\ 1 <= k /\ k <= p + n
      BY <1>3
    <3>1. CASE k <= p
      <4>1. k \in 1 .. p /\ k \notin p + 1 .. p + d
        BY <3>0, <3>1, <1>3
      <4> QED
        BY <4>1, <1>a
    <3>2. CASE k > p /\ k <= p + d
      <4>1. k \in p + 1 .. p + d
        BY <3>0, <3>2, <1>3
      <4> QED
        BY <4>1, <1>6
    <3>3. CASE k = p + d + 1
      <4>1. k = p + 1 + d /\ k \notin p + 1 .. p + d
        BY <3>3, <1>3
      <4> QED
        BY <4>1, <1>5
    <3>4. CASE k > p + d + 1
      <4> DEFINE e == k - p - 1
      <4>1. e \in 0 .. n - 1 /\ p + 1 + e = k /\ e > d /\ k \notin p + 1 .. p + d
        BY <3>0, <3>4, <1>3
      <4> HIDE DEF e
      <4>2. e \in Nat /\ rx.start + e > rx.scan /\ rx.start + e < rx.start + n
        BY <4>1, <1>2, <1>3, <1>4
      <4>3. rx.start + e \in rx.scan + 1 .. End - 1
        BY <4>2, <1>2 DEF n, End
      <4>4. rx.buffer[rx.start + e] = Separator
        BY <4>3, <1>9 DEF NothingFollows, ByteAt
      <4> QED
        BY <4>1, <4>4, <1>a DEF Body
    <3>5. k <= p \/ (k > p /\ k <= p + d) \/ k = p + d + 1 \/ k > p + d + 1
      BY <3>0, <1>3
    <3> QED
      BY <3>1, <3>2, <3>3, <3>4, <3>5
  <2>4. /\ p + 1 \in 1 .. p + n /\ p + d + 1 \in 1 .. p + n /\ p + 1 < p + d + 1
        /\ (p + d + 1) - (p + 1) <= ResponseCap /\ (p + d + 1) - 1 = p + d
    BY <1>2, <1>3
  <2>5. IsResponse(line')
    BY <2>2, <2>3, <2>4, <1>a DEF IsResponse
  <2> QED
    BY <2>1, <2>5
<1> QED
  BY <1>8, <1>9

(* A line is refused for its length only if it is longer than the cap.     *)
LEMMA RefusedIsTooLong ==
    ASSUME BufferInv, Advance, phase' = "malformed"
    PROVE  TooLong
<1> DEFINE p == Before
           n == rx.count
           d == rx.scan - rx.start
<1>1. /\ phase = "scanning" /\ rx.scan < rx.start + rx.count
      /\ rx.buffer[rx.scan] # Separator /\ rx.scan + 1 - rx.start > ResponseCap
  BY DEF Advance, Scanning, End, ByteAt, Malformed
<1>2. /\ rx.start \in Nat /\ rx.count \in Nat /\ rx.scan \in Nat
      /\ rx.start <= rx.scan /\ ResponseCap \in Nat
  BY <1>1, WhileScanning
<1>3. /\ p \in Nat /\ n \in Nat /\ d \in Nat /\ d < n /\ d = ResponseCap
      /\ DOMAIN Input = 1 .. p + n
      /\ \A k \in 1 .. p : ~Body(k)
      /\ \A k \in 0 .. n - 1 : Input[p + 1 + k] = rx.buffer[rx.start + k]
      /\ \A k \in 0 .. d - 1 : Body(p + 1 + k)
  <2>1. d \in Nat /\ d < n /\ d >= ResponseCap
    BY <1>1, <1>2
  <2>2. d <= ResponseCap
    BY <1>1, InputIsBuffered
  <2>3. d = ResponseCap
    BY <2>1, <2>2, <1>2
  <2> QED
    BY <1>1, <2>1, <2>3, InputIsBuffered
<1>4. rx.start + d = rx.scan
  BY <1>2
<1> HIDE DEF p, n, d
<1>5. \A k \in p + 1 .. p + 1 + d : Body(k)
  <2> SUFFICES ASSUME NEW k \in p + 1 .. p + 1 + d PROVE Body(k)
    OBVIOUS
  <2>1. /\ k - p - 1 \in 0 .. n - 1 /\ p + 1 + (k - p - 1) = k
        /\ k - p - 1 \in 0 .. d - 1 \/ k - p - 1 = d
    BY <1>3
  <2> QED
    BY <2>1, <1>1, <1>3, <1>4 DEF Body
<1>6. p + 1 \in 1 .. p + n /\ p + 1 + d \in 1 .. p + n /\ (p + 1) - 1 = p
  BY <1>3
<1> QED
  BY <1>3, <1>5, <1>6 DEF TooLong

ResponseInv ==
    /\ BufferInv
    /\ phase = "ready" /\ line # <<>> => IsResponse(line)
    /\ phase = "malformed" => TooLong \/ TwoLines

(* Whatever the caps and however the bytes arrive, the line taken is the   *)
(* response, a refused one is none, and no request waits for a response it *)
(* has (277-304, 1603-1635, 2458-2480).                                    *)
THEOREM ResponseStaysExact == Spec => []ResponseIsExact
<1>1. Init => ResponseInv
  <2> SUFFICES ASSUME Init PROVE ResponseInv
    OBVIOUS
  <2>1. rx = Released /\ stream = <<>> /\ from = 0 /\ phase = "ready" /\ line = <<>>
    BY DEF Init, Released
  <2>2. stream \in Seq(Nat) /\ Len(stream) = 0
    BY <2>1
  <2> QED
    BY <2>1, <2>2, ReleasedIsFormed DEF ResponseInv, BufferInv, Phases
<1>2. ResponseInv /\ [Next]_vars => ResponseInv'
  <2> SUFFICES ASSUME ResponseInv, [Next]_vars PROVE ResponseInv'
    OBVIOUS
  <2>1. BufferInv /\ BufferInv'
    BY RequestKeepsBuffer, ReceiveKeepsBuffer, SkipKeepsBuffer, AdvanceKeepsBuffer,
       OthersKeepBuffer DEF Next, ResponseInv
  <2>2. CASE Request \/ Receive \/ SkipSeparator \/ NotYet \/ ReceiveFails
    <3>1. phase' \notin {"ready", "malformed"}
      BY <2>2 DEF Request, Receive, SkipSeparator, Scanning, NotYet, ReceiveFails
    <3> QED
      BY <2>1, <3>1 DEF ResponseInv
  <2>3. CASE Connect
    BY <2>1, <2>3 DEF Connect, ResponseInv
  <2>4. CASE Advance
    <3>1. stream' = stream /\ from' = from /\ phase' # "ready"
      BY <2>4 DEF Advance, Scanning, Malformed
    <3>2. TooLong' = TooLong
      BY <3>1 DEF TooLong, Body, Input
    <3> QED
      BY <2>1, <2>4, <3>1, <3>2, RefusedIsTooLong DEF ResponseInv
  <2>5. CASE TakeLine
    <3>1. stream' = stream /\ from' = from
      BY <2>5 DEF TakeLine, Scanning
    <3>2. TwoLines' = TwoLines /\ IsResponse(line)' = IsResponse(line')
      BY <3>1 DEF TwoLines, IsResponse, Body, Input
    <3> QED
      BY <2>1, <2>5, <3>2, TakenIsResponse DEF ResponseInv
  <2>6. CASE UNCHANGED vars
    <3>1. /\ phase' = phase /\ line' = line /\ TooLong' = TooLong
          /\ TwoLines' = TwoLines /\ IsResponse(line)' = IsResponse(line)
      BY <2>6 DEF vars, TooLong, TwoLines, IsResponse, Body, Input
    <3> QED
      BY <2>1, <3>1 DEF ResponseInv
  <2> QED
    BY <2>2, <2>3, <2>4, <2>5, <2>6 DEF Next
<1>3. ResponseInv => ResponseIsExact
  BY WaitingHasNoResponse DEF ResponseInv, ResponseIsExact
<1> QED
  BY <1>1, <1>2, <1>3, PTL DEF Spec
=============================================================================
