---------------------------- MODULE TcpAccumulator ----------------------------
(***************************************************************************)
(* _TcpReceiveAccumulator of client.py (237-331), driven by                *)
(* _reject_unowned_tcp_input() and _recv_tcp_line() of both clients: one   *)
(* request after the other over one TCP connection, whose bytes arrive in  *)
(* chunks of any size.  A body byte is told by its position in what was    *)
(* received; a separator, CR or LF, is 0.                                  *)
(***************************************************************************)
EXTENDS Integers, Sequences

CONSTANTS
    InitialCapacity,      \* _INITIAL_CAPACITY (4096)
    ResponseCap,          \* maximum_response_body (at most 65,507)
    MaxChunk,             \* bytes taken over at once (recv() gives 8192, the
                          \* StreamReader holds at most 128 KiB)
    MaxBytes              \* bound: bytes ever received

ASSUME AccumulatorAssumption ==
    /\ InitialCapacity \in Nat \ {0} /\ ResponseCap \in Nat
    /\ MaxChunk \in Nat \ {0} /\ MaxBytes \in Nat

VARIABLES
    rx,                   \* the fields of the accumulator
    phase,                \* where the client is with its request
    line,                 \* the response line last taken
    stream,               \* all bytes received so far
    from                  \* how many of them came before this request

vars == <<rx, phase, line, stream, from>>

Separator == 0
Nul == MaxBytes + 1

\* buffer is zero based; capacity is its length.
Empty == [buffer |-> <<>>, capacity |-> 0, start |-> 0, count |-> 0, scan |-> 0]

Init ==
    /\ rx = Empty
    /\ phase = "ready"
    /\ line = <<>>
    /\ stream = <<>>
    /\ from = 0

\* What may arrive next: separators where the pattern says so.
Chunks(lengths) ==
    UNION {{[k \in 1..n |-> IF pattern[k] THEN Separator ELSE Len(stream) + k] :
              pattern \in [1..n -> BOOLEAN]} :
           n \in {m \in lengths : Len(stream) + m <= MaxBytes}}
-----------------------------------------------------------------------------
(* reset()                                                                 *)
Reset(a) == [buffer |-> a.buffer, capacity |-> a.capacity,
             start |-> 0, count |-> 0, scan |-> 0]
Released == Empty

\* Mutant: the position of the scan is not moved with the bytes.
CompactedKeepingScan(a) ==
    [a EXCEPT !.buffer = [k \in DOMAIN @ |-> IF k < a.count THEN @[a.start + k]
                                                           ELSE @[k]],
              !.start = 0]

Compacted(a) ==
    [a EXCEPT !.buffer = [k \in DOMAIN @ |-> IF k < a.count THEN @[a.start + k]
                                                           ELSE @[k]],
              !.scan = @ - a.start, !.start = 0]

Larger(m, n) == IF m > n THEN m ELSE n
Grown(a, required) ==
    LET capacity == Larger(Larger(InitialCapacity, required),
                           2 * Larger(1, a.capacity))
    IN [buffer |-> [k \in 0..capacity - 1 |->
                      IF k < a.count THEN a.buffer[a.start + k] ELSE Nul],
        capacity |-> capacity, start |-> 0, count |-> a.count,
        scan |-> a.scan - a.start]

\* Mutant: the buffer is never compacted.
RoomGrowing(a, n) ==
    IF a.start + a.count + n <= a.capacity THEN a ELSE Grown(a, a.count + n)

(* Room for n more bytes: the bytes move to the front of the buffer, or to *)
(* a larger one.                                                           *)
Room(a, n) ==
    IF a.start + a.count + n <= a.capacity THEN a
    ELSE IF a.start > 0 /\ a.count + n <= a.capacity THEN Compacted(a)
    ELSE Grown(a, a.count + n)

Appended(a, chunk) ==
    LET b == Room(a, Len(chunk))
        tail == b.start + b.count
    IN IF chunk = <<>> THEN a
       ELSE [b EXCEPT
               !.buffer = [k \in DOMAIN @ |->
                             IF k \in tail .. tail + Len(chunk) - 1
                               THEN chunk[k - tail + 1] ELSE @[k]],
               !.count = @ + Len(chunk)]

(* discard_separators(): what is buffered is thrown away if it is nothing  *)
(* but separators.                                                         *)
OnlySeparators(a) ==
    /\ a.scan = a.start
    /\ \A k \in a.start .. a.start + a.count - 1 : a.buffer[k] = Separator
-----------------------------------------------------------------------------
(* A request begins.  What the StreamReader of the async client holds is   *)
(* taken over; only separators may be left of earlier responses.           *)
Request ==
    /\ phase = "ready"
    /\ \E input \in Chunks(0..MaxChunk) :
         LET a == Appended(rx, input) IN
         /\ stream' = stream \o input
         /\ from' = Len(stream')
         /\ IF OnlySeparators(a)
              THEN phase' = "scanning" /\ rx' = Reset(a)
              ELSE phase' = "unowned" /\ rx' = Released
    /\ line' = <<>>

ByteAt(k) == rx.buffer[k]
End == rx.start + rx.count
Scanning ==
    /\ phase = "scanning"
    /\ rx.scan < End
    /\ UNCHANGED <<stream, from>>

Malformed == phase' = "malformed" /\ rx' = Released /\ UNCHANGED line

(* The loop of try_take_line(), a byte at a time: a separator before the   *)
(* line, ...                                                               *)
SkipSeparator ==
    /\ Scanning
    /\ ByteAt(rx.scan) = Separator
    /\ rx.scan = rx.start
    /\ rx' = [rx EXCEPT !.start = @ + 1, !.count = @ - 1, !.scan = @ + 1]
    /\ UNCHANGED <<phase, line>>

(* ... a byte of the line, ...                                             *)
Advance ==
    /\ Scanning
    /\ ByteAt(rx.scan) # Separator
    /\ IF rx.scan + 1 - rx.start > ResponseCap
         THEN Malformed
         ELSE /\ rx' = [rx EXCEPT !.scan = @ + 1]
              /\ UNCHANGED <<phase, line>>

\* Mutant: only the byte after the separator is looked at.
NothingNearby == rx.scan + 1 < End => ByteAt(rx.scan + 1) = Separator

NothingFollows == \A k \in rx.scan + 1 .. End - 1 : ByteAt(k) = Separator

(* ... or the separator after it: whatever else has arrived must not be    *)
(* another line.                                                           *)
TakeLine ==
    /\ Scanning
    /\ ByteAt(rx.scan) = Separator
    /\ rx.scan # rx.start
    /\ IF rx.scan - rx.start > ResponseCap \/ ~NothingFollows
         THEN Malformed
         ELSE /\ line' = [k \in 1 .. rx.scan - rx.start |->
                            ByteAt(rx.start + k - 1)]
              /\ rx' = Reset(rx)
              /\ phase' = "ready"

NotYet ==
    /\ phase = "scanning"
    /\ rx.scan >= End
    /\ phase' = "waiting"
    /\ UNCHANGED <<rx, line, stream, from>>

(* recv() returns.                                                         *)
Receive ==
    /\ phase = "waiting"
    /\ \E chunk \in Chunks(1..MaxChunk) :
         /\ stream' = stream \o chunk
         /\ rx' = Appended(rx, chunk)
    /\ phase' = "scanning"
    /\ UNCHANGED <<line, from>>

(* The wait fails: end of input, an error, the deadline.                   *)
ReceiveFails ==
    /\ phase = "waiting"
    /\ rx' = Released
    /\ phase' = "lost"
    /\ UNCHANGED <<line, stream, from>>

(* A new connection is adopted.                                            *)
Connect ==
    /\ phase \in {"unowned", "malformed", "lost"}
    /\ rx' = Reset(rx)
    /\ phase' = "ready"
    /\ line' = <<>>
    /\ from' = Len(stream)
    /\ UNCHANGED stream

Next ==
    \/ Request \/ SkipSeparator \/ Advance \/ TakeLine \/ NotYet
    \/ Receive \/ ReceiveFails \/ Connect

Spec == Init /\ [][Next]_vars
-----------------------------------------------------------------------------
(* What was received for this request, and the definition of a response in *)
(* terms of it alone.                                                      *)
Input == [k \in 1 .. Len(stream) - from |-> stream[from + k]]
Body(k) == Input[k] # Separator

IsResponse(l) ==
    \E i, j \in DOMAIN Input :
        /\ i < j /\ j - i <= ResponseCap
        /\ l = SubSeq(Input, i, j - 1)
        /\ \A k \in DOMAIN Input : Body(k) <=> k \in i .. j - 1

TooLong ==
    \E i \in DOMAIN Input :
        /\ i + ResponseCap \in DOMAIN Input
        /\ \A k \in i .. i + ResponseCap : Body(k)
        /\ \A k \in 1 .. i - 1 : ~Body(k)

TwoLines ==
    \E i, j, k \in DOMAIN Input : i < j /\ j < k /\ Body(i) /\ ~Body(j) /\ Body(k)

NoResponseYet ==
    /\ ~TooLong
    /\ \A i, j \in DOMAIN Input : i < j /\ Body(i) => Body(j)

(* However the bytes arrive, and whatever the accumulator did before: the  *)
(* line that is taken is the response, whole and nothing else; a response  *)
(* is refused only if it is too long or followed by another one; and no    *)
(* request goes on waiting for a response it has (1603-1635, 2458-2480).   *)
ResponseIsExact ==
    /\ phase = "ready" /\ line # <<>> => IsResponse(line)
    /\ phase = "malformed" => TooLong \/ TwoLines
    /\ phase = "waiting" => NoResponseYet

(* The bytes that are kept lie in the buffer, behind the scan only body,   *)
(* and the buffer stays bounded by the cap of a response and the size of a *)
(* chunk, however many separators and responses went through it.           *)
BufferIsBounded ==
    /\ rx.start <= rx.scan /\ rx.scan <= End /\ End <= rx.capacity
    /\ rx.capacity <= Larger(InitialCapacity, 2 * (ResponseCap + MaxChunk))
=============================================================================
