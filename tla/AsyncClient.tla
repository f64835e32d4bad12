----------------------------- MODULE AsyncClient -----------------------------
(***************************************************************************)
(* AsyncHostLinkClient of client.py over one transport, with the turn of   *)
(* AsyncAdmission.  The event loop runs one task at a time: running names  *)
(* a task between two suspensions, and while it is set nothing else moves. *)
(* Every await that can suspend ends a step; close() has none.             *)
(***************************************************************************)
EXTENDS Naturals, Sequences, FiniteSets

CONSTANTS
    Tasks, NoTask, MaxGeneration, MaxDepth,    \* see AsyncAdmission
    Transports,           \* which of "tcp" and "udp" a client may be made for
    Operations,           \* which of AllOperations the tasks call
    MaxConns,             \* bound: transports ever created
    MaxRequests,          \* bound: requests ever begun
    MaxMishaps            \* bound: repeated replies and cancelled calls

\* "bit" is write_bit_in_word or write_bit_in_expansion_unit_buffer.
AllOperations == {"connect", "close", "read", "write", "register", "bit"}
\* The public commands and the requests each of them sends at most.
Cost(o) ==
    IF o \in {"connect", "close"} THEN 0 ELSE IF o = "bit" THEN 2 ELSE 1

\* A stream with its reader and writer, or a datagram transport with its
\* _HostLinkUDPProtocol.
Conns == 1..MaxConns
NoConn == 0

\* What AsyncAdmission assumes of its constants.
ASSUME TurnAssumption ==
    /\ NoTask \notin Tasks
    /\ MaxGeneration \in Nat /\ MaxDepth \in Nat \ {0}

ASSUME ClientAssumption ==
    /\ Transports \subseteq {"tcp", "udp"}
    /\ Operations \subseteq AllOperations
    /\ MaxConns \in Nat /\ MaxRequests \in Nat /\ MaxMishaps \in Nat

VARIABLES
    owner, ownerGeneration, depth, queue, generation,
    waiterGeneration, future, cancelled, pc,   \* the turn, see AsyncAdmission
    running,              \* the task the event loop runs now, or NoTask
    client,               \* the fields of the client object
    me,                   \* me[t]: the call task t is in, and its locals
    wire,                 \* wire[s]: connection s and the peer
    received,             \* the requests the PLC has got, in this order
    late,                 \* those of them whose call no longer waited
    requests, repeats, cancels    \* how many there were so far

Adm == INSTANCE AsyncAdmission

admission == <<owner, ownerGeneration, depth, queue, generation,
               waiterGeneration, future, cancelled, pc>>
peer == <<received, late, requests, repeats, cancels>>
vars == <<admission, running, client, me, wire, peer>>

NoReply == [req |-> 0, kind |-> "none", since |-> 0]
Kinds == {"ok", "plcError", "framing", "decoding"}

\* conn is _reader and _writer, or _udp_transport and _udp_protocol.
Disconnected(transport) ==
    [transport |-> transport, conn |-> NoConn, udpConnected |-> FALSE,
     monitor |-> NoConn]

\* req: the request in progress; alters: the state-changing one of the call.
\* part: _rx_buffer holds the beginning of the response.  asked: cancel() was
\* called during this call; interrupted: its CancelledError is still to come.
Idle ==
    [at |-> "idle", op |-> "none", mine |-> NoConn, req |-> 0, alters |-> 0,
     part |-> FALSE, got |-> NoReply, error |-> "none",
     interrupted |-> FALSE, asked |-> FALSE, outcome |-> "none",
     sent |-> FALSE, retired |-> FALSE]

\* inbox: the lines in the StreamReader.  response: the last future of the
\* protocol, and whether _future still is it; unowned: _unowned_datagram.
\* flight: the requests sent over the connection that the PLC has not got,
\* and perhaps never will; pending: those it has, and has not answered.
Fresh ==
    [state |-> "unused", inbox |-> <<>>, eof |-> FALSE, flight |-> {},
     pending |-> {}, checked |-> 0, response |-> "none", held |-> FALSE,
     reply |-> NoReply, unowned |-> FALSE]

Init ==
    /\ Adm!Init
    /\ running = NoTask
    /\ client \in {Disconnected(transport) : transport \in Transports}
    /\ me = [t \in Tasks |-> Idle]
    /\ wire = [s \in Conns |-> Fresh]
    /\ received = <<>> /\ late = {}
    /\ requests = 0 /\ repeats = 0 /\ cancels = 0

Transport == client.transport
At(t, label) == running = NoTask /\ me[t].at = label
Runs(t, label) == running = t /\ me[t].at = label
State(s) == wire[s].state
Unused == {s \in Conns : State(s) = "unused"}
NextConn == CHOOSE s \in Unused : \A u \in Unused : s <= u
\* What _exchange was told of its request: state_changing.
Changing(t) == me[t].req = me[t].alters
Got(r) == \E i \in DOMAIN received : received[i] = r
\* The PLC has request r, or may still get it.
Sent(r) == Got(r) \/ \E s \in Conns : r \in wire[s].flight
Connected == client.conn # NoConn \/ client.udpConnected

\* Whether a call may still create a connection.
Creates(o) == o = "connect" \/ Transport = "udp"
Claims == {t \in Tasks : Creates(me[t].op) /\ me[t].at \in {"queued", "start"}}

\* transport.close() and cancel_pending_response().  What the StreamReader
\* holds can still be read by a coroutine that has the reader.
Closed(c) ==
    [c EXCEPT !.state = "closed", !.pending = {}, !.eof = FALSE,
              !.response = IF c.held /\ @ = "pending" THEN "cancelled" ELSE @,
              !.held = FALSE]
WithClosed(w, S) == [s \in Conns |-> IF s \in S THEN Closed(w[s]) ELSE w[s]]

\* A connection that is closed and that nobody reads any more; what was sent
\* over it is still under way.
Gone == [Fresh EXCEPT !.state = "closed"]
WithGone(w, S) ==
    [s \in Conns |->
       IF s \in S THEN [Gone EXCEPT !.flight = w[s].flight] ELSE w[s]]
-----------------------------------------------------------------------------
(* A call arrives: a free turn is taken without suspending.                *)
Begin(t, o) ==
    /\ At(t, "idle")
    /\ o \in Operations \ {"close"}
    /\ Creates(o) => Cardinality(Unused) > Cardinality(Claims)
    /\ requests + Cost(o) <= MaxRequests
    /\ requests' = requests + Cost(o)
    /\ LET call == [Idle EXCEPT !.op = o,
                      !.req = IF Cost(o) = 0 THEN 0 ELSE requests + 1,
                      !.alters = IF o \in {"write", "register", "bit"}
                                   THEN requests + Cost(o) ELSE 0]
       IN
       \/ /\ Adm!EnterFree(t)
          /\ running' = t
          /\ me' = [me EXCEPT ![t] = [call EXCEPT !.at = "start"]]
       \/ /\ Adm!EnterBusy(t)
          /\ me' = [me EXCEPT ![t] = [call EXCEPT !.at = "queued"]]
          /\ UNCHANGED running
    /\ UNCHANGED <<client, wire, received, late, repeats, cancels>>

(* The suspended __aenter__ goes on: with the turn, or with the close or   *)
(* the cancellation error.                                                 *)
Resumed(t) ==
    /\ At(t, "queued")
    /\ \/ /\ Adm!Admitted(t)
          /\ running' = t
          /\ me' = [me EXCEPT ![t].at = "start"]
       \/ /\ Adm!Rejected(t)
          /\ me' = [me EXCEPT ![t].at = "idle", ![t].outcome = "closed",
                              ![t].retired = TRUE]
          /\ UNCHANGED running
       \/ /\ Adm!CancelledInQueue(t)
          /\ me' = [me EXCEPT ![t].at = "idle", ![t].outcome = "cancelled"]
          /\ UNCHANGED running
    /\ UNCHANGED <<client, wire, peer>>

Suspended == {"connecting", "dispose_attempt", "dispose_late",
              "dispose_retired", "bind", "drain", "receive", "accept"}

(* task.cancel(), in the queue or in the turn.                             *)
Cancel(t) ==
    /\ running = NoTask
    /\ repeats + cancels < MaxMishaps /\ ~me[t].asked
    /\ \/ /\ me[t].at = "queued"
          /\ Adm!Cancel(t)
          /\ me' = [me EXCEPT ![t].asked = TRUE]
       \/ /\ me[t].at \in Suspended
          /\ me' = [me EXCEPT ![t].asked = TRUE, ![t].interrupted = TRUE]
          /\ UNCHANGED admission
    /\ cancels' = cancels + 1
    /\ UNCHANGED <<running, client, wire, received, late, requests, repeats>>

(* The call returns or raises; __aexit__ passes the turn on.               *)
Finish(t, outcome, sent) ==
    /\ me' = [me EXCEPT ![t] = [@ EXCEPT
                !.at = "idle", !.outcome = outcome, !.sent = sent,
                !.mine = NoConn, !.part = FALSE, !.got = NoReply,
                !.error = "none", !.interrupted = FALSE,
                !.retired = Adm!Invalidated]]
    /\ running' = NoTask
    /\ Adm!Exit(t)
-----------------------------------------------------------------------------
(* _connect_unlocked(): the attempt is a task of its own, behind a shield.  *)
ConnectStart(t) ==
    /\ Runs(t, "start") /\ me[t].op = "connect"
    /\ IF Connected
         THEN Finish(t, "ok", FALSE) /\ UNCHANGED wire
         ELSE /\ wire' = [wire EXCEPT ![NextConn].state = "opening"]
              /\ me' = [me EXCEPT ![t].at = "connecting", ![t].mine = NextConn]
              /\ running' = NoTask
              /\ UNCHANGED admission
    /\ UNCHANGED <<client, peer>>

(* The network lets an attempt succeed or fail.                            *)
AttemptEnds(s) ==
    /\ running = NoTask
    /\ State(s) = "opening"
    /\ \E result \in {"open", "refused"} :
         wire' = [wire EXCEPT ![s].state = result]
    /\ UNCHANGED <<admission, running, client, me, peer>>

\* Mutant: a late writer is dropped, not closed.
GiveUpForgetting(t, error) ==
    /\ wire' = IF State(me[t].mine) = "opening"
                 THEN WithGone(wire, {me[t].mine}) ELSE wire
    /\ Finish(t, error, FALSE)

(* dispose_*_attempt(): an unfinished attempt is cancelled and awaited; the *)
(* writer of one that finished all the same is closed and awaited.         *)
GiveUp(t, error) ==
    LET s == me[t].mine
        Await(label) ==
            /\ me' = [me EXCEPT ![t].at = label, ![t].error = error,
                                ![t].interrupted = FALSE]
            /\ running' = NoTask
            /\ UNCHANGED admission
    IN
    /\ wire' = WithGone(wire, {s})
    /\ \/ State(s) = "opening" /\ Await("dispose_attempt")
       \/ State(s) = "open" /\ Transport = "tcp" /\ Await("dispose_late")
       \/ State(s) = "open" /\ Transport = "udp" /\ Finish(t, error, FALSE)
       \/ State(s) = "refused" /\ Finish(t, error, FALSE)

\* Mutant: close() is not looked for before the adoption.
AdoptAlways(t) ==
    /\ client' = [client EXCEPT !.conn = me[t].mine,
                                !.udpConnected = (Transport = "udp")]
    /\ Finish(t, "ok", FALSE)
    /\ UNCHANGED wire

(* The attempt succeeded: its connection is adopted, or, if close() came   *)
(* in the meantime, closed.                                                *)
Adopt(t) ==
    IF ~Adm!Invalidated
      THEN /\ client' = [client EXCEPT !.conn = me[t].mine,
                                       !.udpConnected = (Transport = "udp")]
           /\ Finish(t, "ok", FALSE)
           /\ UNCHANGED wire
      ELSE /\ wire' = WithGone(wire, {me[t].mine})
           /\ IF Transport = "udp"
                THEN Finish(t, "closed", FALSE)
                ELSE /\ me' = [me EXCEPT ![t].at = "dispose_retired",
                                         ![t].interrupted = FALSE]
                     /\ running' = NoTask
                     /\ UNCHANGED admission
           /\ UNCHANGED client

(* wait_for(shield(attempt)) ends.  A deadline or a cancellation may come  *)
(* between the end of the attempt and the resumption of the task.  A UDP   *)
(* endpoint that does not tell its peer is closed.                         *)
ConnectResumes(t) ==
    /\ At(t, "connecting")
    /\ \/ State(me[t].mine) = "open" /\ Adopt(t)
       \/ /\ State(me[t].mine) = "open" /\ Transport = "udp" /\ ~Adm!Invalidated
          /\ wire' = WithGone(wire, {me[t].mine})
          /\ Finish(t, "transport", FALSE)
          /\ UNCHANGED client
       \/ /\ State(me[t].mine) = "refused"
          /\ Finish(t, "transport", FALSE)
          /\ UNCHANGED <<client, wire>>
       \/ /\ State(me[t].mine) # "refused"
          /\ GiveUp(t, "timeout")
          /\ UNCHANGED client
       \/ /\ me[t].interrupted
          /\ GiveUp(t, "cancelled")
          /\ UNCHANGED client
    /\ UNCHANGED peer

(* The disposal ends: wait_closed() may raise, and be cancelled, inside the *)
(* try of _connect_unlocked or inside one of its except clauses.           *)
Disposed(t) ==
    /\ \/ At(t, "dispose_attempt") /\ Finish(t, me[t].error, FALSE)
       \/ /\ At(t, "dispose_late")
          /\ \/ Finish(t, me[t].error, FALSE)
             \/ Finish(t, "OSError", FALSE)
             \/ me[t].interrupted /\ Finish(t, "CancelledError", FALSE)
       \/ /\ At(t, "dispose_retired")
          /\ \/ Finish(t, "closed", FALSE)
             \/ Finish(t, "transport", FALSE)
             \/ me[t].interrupted /\ Finish(t, "cancelled", FALSE)
    /\ UNCHANGED <<client, wire, peer>>
-----------------------------------------------------------------------------
(* _retire_failed_transport().                                             *)
Retired == IF Transport = "udp" THEN [client EXCEPT !.conn = NoConn]
                                ELSE Disconnected(Transport)

\* Mutant: a cancelled response is put down to the caller's cancellation.
ClassifiedCancelled(t, error, sent) ==
    IF Changing(t) /\ sent THEN "unknown"
    ELSE IF error \in {"transport", "notConnected"} /\ Adm!Invalidated THEN "closed"
    ELSE error

\* Mutant: may_have_sent is not considered after a cancellation.
ClassifiedUnsent(t, error, sent) ==
    IF error \in {"cancelled", "transport", "notConnected"} /\ Adm!Invalidated
    THEN "closed"
    ELSE IF Changing(t) /\ sent /\ error # "cancelled" THEN "unknown"
    ELSE error

(* What _exchange raises for an error of its try body.                     *)
Classified(t, error, sent) ==
    IF error = "AttributeError" THEN error
    ELSE IF Changing(t) /\ sent THEN "unknown"
    ELSE IF error \in {"cancelled", "transport", "notConnected"} /\ Adm!Invalidated
    THEN "closed"
    ELSE error

\* Mutant: the transport is kept after a failure.
FailsKeepingTransport(t, error, sent) ==
    /\ UNCHANGED <<client, wire>>
    /\ Finish(t, Classified(t, error, sent), sent)

(* An exception in the try body of _exchange: except, then finally.        *)
Fails(t, error, sent) ==
    /\ client' = Retired
    /\ wire' = WithGone(wire, {client.conn, me[t].mine})
    /\ Finish(t, Classified(t, error, sent), sent)

(* _reject_unowned_tcp_input(): what the reader holds; _rx_buffer is empty  *)
(* between requests, since a line is taken from it alone or not at all.    *)
UnownedInput(s) == wire[s].inbox # <<>>

(* The entry of _exchange; over TCP up to the suspension in drain(), the   *)
(* input check and the write being one step.  What write() or sendto()     *)
(* takes is under way from then on.                                        *)
RequestStart(t) ==
    /\ Runs(t, "start") /\ Cost(me[t].op) > 0
    /\ LET s == client.conn IN
       \/ /\ ~Connected
          /\ Finish(t, "notConnected", FALSE)
          /\ UNCHANGED <<client, wire>>
       \/ /\ Connected /\ Transport = "tcp"
          /\ UnownedInput(s)
          /\ Fails(t, "protocol", FALSE)
       \/ /\ Connected /\ Transport = "tcp"
          /\ ~UnownedInput(s)
          /\ wire' = [wire EXCEPT ![s].checked = me[t].req,
                                  ![s].flight = @ \cup {me[t].req}]
          /\ me' = [me EXCEPT ![t].at = "drain", ![t].mine = s]
          /\ running' = NoTask
          /\ UNCHANGED <<admission, client>>
       \/ /\ Connected /\ Transport = "udp" /\ s # NoConn
          /\ me' = [me EXCEPT ![t].at = "send", ![t].mine = s]
          /\ UNCHANGED <<admission, running, client, wire>>
       \/ /\ Connected /\ Transport = "udp" /\ s = NoConn
          /\ wire' = [wire EXCEPT ![NextConn].state = "opening"]
          /\ me' = [me EXCEPT ![t].at = "bind", ![t].mine = NextConn]
          /\ running' = NoTask
          /\ UNCHANGED <<admission, client>>
    /\ UNCHANGED peer

(* create_datagram_endpoint() for the next request ends.                   *)
BindResumes(t) ==
    /\ At(t, "bind")
    /\ LET s == me[t].mine
           Stops(error) == /\ client' = Retired
                           /\ wire' = WithGone(wire, {s})
                           /\ Finish(t, Classified(t, error, FALSE), FALSE)
       IN
       \/ /\ State(s) = "open" /\ ~Adm!Invalidated
          /\ client' = [client EXCEPT !.conn = s]
          /\ me' = [me EXCEPT ![t].at = "send", ![t].interrupted = FALSE]
          /\ running' = t
          /\ UNCHANGED <<admission, wire>>
       \/ State(s) = "open" /\ Adm!Invalidated /\ Stops("closed")
       \/ State(s) = "refused" /\ Stops("transport")
       \/ Stops("timeout")
       \/ me[t].interrupted /\ Stops("cancelled")
    /\ UNCHANGED peer

(* What reject_unowned_response() may raise: a datagram came outside a      *)
(* request, or, once something was sent, an error did.                     *)
UnownedErrors(s) ==
    (IF wire[s].unowned THEN {"protocol"} ELSE {})
    \cup (IF wire[s].checked # 0 THEN {"transport"} ELSE {})

(* prepare_response() and sendto(), in one step with what precedes them.   *)
SendDatagram(t) ==
    /\ Runs(t, "send")
    /\ LET s == me[t].mine IN
       \/ \E error \in UnownedErrors(s) : Fails(t, error, FALSE)
       \/ /\ ~wire[s].unowned
          /\ wire' = [wire EXCEPT ![s].checked = me[t].req,
                                  ![s].flight = @ \cup {me[t].req},
                                  ![s].response = "pending", ![s].held = TRUE]
          /\ me' = [me EXCEPT ![t].at = "receive"]
          /\ running' = NoTask
          /\ UNCHANGED <<admission, client>>
    /\ UNCHANGED peer

(* wait_for(drain()) ends.                                                 *)
DrainEnds(t) ==
    /\ At(t, "drain")
    /\ \/ /\ me' = [me EXCEPT ![t].at = "receive", ![t].interrupted = FALSE]
          /\ UNCHANGED <<admission, running, client, wire>>
       \/ \E error \in {"timeout", "transport"} : Fails(t, error, TRUE)
       \/ me[t].interrupted /\ Fails(t, "cancelled", TRUE)
    /\ UNCHANGED peer

(* _recv_tcp_line() gets the beginning of a line, and reads self._reader    *)
(* again, which close() may have set to None in the meantime.              *)
ReceivePart(t) ==
    /\ At(t, "receive") /\ Transport = "tcp"
    /\ wire[me[t].mine].inbox # <<>> /\ ~me[t].part
    /\ IF client.conn = NoConn
         THEN Fails(t, "AttributeError", TRUE)
         ELSE /\ me' = [me EXCEPT ![t].part = TRUE]
              /\ UNCHANGED <<admission, running, client, wire>>
    /\ UNCHANGED peer

(* It gets a line, alone or with others.                                   *)
ReceiveLine(t) ==
    /\ At(t, "receive") /\ Transport = "tcp"
    /\ LET s == me[t].mine
           lines == wire[s].inbox
       IN
       /\ lines # <<>>
       /\ \/ /\ Head(lines).kind = "framing" \/ Len(lines) > 1
             /\ Fails(t, "protocol", TRUE)
          \/ /\ Head(lines).kind # "framing"
             /\ wire' = [wire EXCEPT ![s].inbox = Tail(@)]
             /\ me' = [me EXCEPT ![t].at = "accept", ![t].got = Head(lines)]
             /\ UNCHANGED <<admission, running, client>>
    /\ UNCHANGED peer

(* wait_response() returns the datagram.                                   *)
ReceiveDatagram(t) ==
    /\ At(t, "receive") /\ Transport = "udp"
    /\ wire[me[t].mine].response = "done"
    /\ me' = [me EXCEPT ![t].at = "accept", ![t].got = wire[me[t].mine].reply]
    /\ UNCHANGED <<admission, running, client, wire, peer>>

(* Nothing is received: the errors of the wait, of the connection, of a    *)
(* close() before the coroutine began, and of one that cancelled the future. *)
ReceiveFails(t) ==
    /\ At(t, "receive")
    /\ LET c == wire[me[t].mine] IN
       \/ \E error \in {"timeout", "transport"} : Fails(t, error, TRUE)
       \/ client.conn = NoConn /\ ~me[t].part /\ Fails(t, "notConnected", TRUE)
       \/ c.response = "cancelled" /\ Fails(t, "cancelled", TRUE)
       \/ me[t].interrupted /\ Fails(t, "cancelled", TRUE)
    /\ UNCHANGED peer

\* Mutant: the generation is not tested after the response.
AcceptErrorsWithoutClose(t) ==
    (IF me[t].got.kind = "framing" THEN {"protocol"} ELSE {})
    \cup (IF Transport = "udp" THEN UnownedErrors(me[t].mine) ELSE {})
    \cup (IF me[t].got.kind = "decoding" THEN {"timeout", "protocol"}
                                         ELSE {"timeout"})

(* What may still be raised for a response, until and while it is decoded. *)
AcceptErrors(t) ==
    IF me[t].got.kind = "framing" THEN {"protocol"}
    ELSE IF Adm!Invalidated
    THEN {"closed"} \cup (IF Transport = "udp" THEN UnownedErrors(me[t].mine) ELSE {})
    ELSE AcceptErrorsWithoutClose(t)

\* Mutant: the turn is given up, and asked for again for the write.
WriteBackOutsideTurn(t) ==
    LET Again(label) ==
            me' = [me EXCEPT ![t] = [@ EXCEPT
                     !.at = label, !.req = me[t].alters, !.part = FALSE,
                     !.mine = NoConn, !.got = NoReply, !.interrupted = FALSE]]
    IN
    IF queue = <<>>
      THEN Again("start") /\ running' = t /\ UNCHANGED admission
      ELSE LET next == Head(queue) IN
           /\ Again("queued")
           /\ running' = NoTask
           /\ owner' = next
           /\ ownerGeneration' = waiterGeneration[next]
           /\ depth' = 1
           /\ queue' = Append(Tail(queue), t)
           /\ future' = [future EXCEPT ![next] = "result", ![t] = "pending"]
           /\ waiterGeneration' = [waiterGeneration EXCEPT ![t] = generation]
           /\ pc' = [pc EXCEPT ![t] = "waiting"]
           /\ UNCHANGED <<generation, cancelled>>

(* The word just read goes back with its bit set or cleared by a second     *)
(* request of the same turn and deadline, without a suspension in between. *)
WriteBack(t) ==
    /\ me' = [me EXCEPT ![t] = [@ EXCEPT
                !.at = "start", !.req = me[t].alters, !.part = FALSE,
                !.mine = NoConn, !.got = NoReply, !.interrupted = FALSE]]
    /\ running' = t
    /\ UNCHANGED admission

(* The task resumes with a response: checks, decoding and, for a monitor    *)
(* registration, the metadata, without another suspension.                 *)
Accept(t) ==
    /\ At(t, "accept")
    /\ LET s == me[t].mine
           accepted == [client EXCEPT
               !.conn = IF Transport = "udp" THEN s ELSE @,
               !.monitor = IF me[t].op = "register" /\ me[t].got.kind = "ok"
                             THEN s ELSE @]
       IN
       \/ \E error \in AcceptErrors(t) : Fails(t, error, TRUE)
       \/ me[t].interrupted /\ Fails(t, "cancelled", TRUE)
       \/ /\ AcceptErrors(t) \cap {"protocol", "closed"} = {}
          /\ client' = accepted
          /\ wire' = [wire EXCEPT ![s].held = FALSE, ![s].response = "none",
                                  ![s].reply = NoReply]
          /\ IF me[t].op = "bit" /\ ~Changing(t) /\ me[t].got.kind = "ok"
               THEN WriteBack(t)
               ELSE Finish(t, me[t].got.kind, TRUE)
    /\ UNCHANGED peer
-----------------------------------------------------------------------------
(* close(), which never suspends and needs no turn.                        *)
Close(t) ==
    /\ At(t, "idle") /\ "close" \in Operations
    /\ Adm!Invalidate
    /\ client' = Disconnected(Transport)
    /\ wire' = WithClosed(wire, {client.conn})
    /\ UNCHANGED <<running, me, peer>>

(* A request gets to the PLC, at any time after it was sent: also when its *)
(* call has given it up, or its connection was closed.  Those of one TCP   *)
(* connection come in order.                                               *)
Arrive(s) ==
    /\ running = NoTask
    /\ \E r \in wire[s].flight :
         /\ Transport = "tcp" => \A q \in wire[s].flight : r <= q
         /\ received' = Append(received, r)
         /\ late' = IF \E t \in Tasks : /\ me[t].at \in {"drain", "receive"}
                                       /\ me[t].req = r
                      THEN late ELSE late \cup {r}
         /\ wire' = [wire EXCEPT
                       ![s].flight = @ \ {r},
                       ![s].pending = IF State(s) # "open" \/ wire[s].eof
                                        THEN @ ELSE @ \cup {r}]
    /\ UNCHANGED <<admission, running, client, me, requests, repeats, cancels>>

(* The peer answers, and the event loop delivers: a line to the reader, a   *)
(* datagram to the pending future or to nobody.                            *)
Answer(s) ==
    /\ running = NoTask
    /\ State(s) = "open"
    /\ \E r \in wire[s].pending, kind \in Kinds, repeat \in {0, 1} :
         LET reply == [req |-> r, kind |-> kind, since |-> wire[s].checked]
             w == [wire[s] EXCEPT !.pending = IF repeat = 1 THEN @ ELSE @ \ {r}]
         IN
         /\ repeats + cancels + repeat <= MaxMishaps
         /\ repeats' = repeats + repeat
         /\ wire' = [wire EXCEPT ![s] =
              IF Transport = "tcp" THEN [w EXCEPT !.inbox = Append(@, reply)]
              ELSE IF w.held /\ w.response = "pending"
              THEN [w EXCEPT !.response = "done", !.reply = reply]
              ELSE [w EXCEPT !.unowned = TRUE]]
    /\ UNCHANGED <<admission, running, client, me, received, late, requests, cancels>>

HangUp(s) ==
    /\ running = NoTask
    /\ Transport = "tcp" /\ State(s) = "open" /\ ~wire[s].eof
    /\ wire' = [wire EXCEPT ![s].eof = TRUE, ![s].pending = {}]
    /\ UNCHANGED <<admission, running, client, me, peer>>

(* The bounds are used up and every call has returned.                     *)
Done ==
    /\ \A t \in Tasks : At(t, "idle")
    /\ UNCHANGED vars

(* What the event loop does next for a task that has been started.         *)
Proceed(t) ==
    \/ Resumed(t) \/ ConnectStart(t) \/ ConnectResumes(t) \/ Disposed(t)
    \/ RequestStart(t) \/ BindResumes(t) \/ SendDatagram(t) \/ DrainEnds(t)
    \/ ReceivePart(t) \/ ReceiveLine(t) \/ ReceiveDatagram(t)
    \/ ReceiveFails(t) \/ Accept(t)

Next ==
    \/ \E t \in Tasks :
         Proceed(t) \/ Cancel(t) \/ Close(t) \/ \E o \in Operations : Begin(t, o)
    \/ \E s \in Conns : AttemptEnds(s) \/ Arrive(s) \/ Answer(s) \/ HangUp(s)
    \/ Done

Spec == Init /\ [][Next]_vars
-----------------------------------------------------------------------------
Labels == Suspended \cup {"idle", "queued", "start", "send"}

Outcomes ==
    {"none", "ok", "plcError", "unknown", "closed", "cancelled",
     "notConnected", "transport", "timeout", "protocol",
     "AttributeError", "OSError", "CancelledError"}

TypeOK ==
    /\ Adm!TypeOK
    /\ client.transport \in Transports
    /\ client.conn \in Conns \cup {NoConn}
    /\ client.monitor \in Conns \cup {NoConn}
    /\ client.udpConnected \in BOOLEAN
    /\ running \in Tasks \cup {NoTask}
    /\ running # NoTask => owner = running
    /\ owner # NoTask => me[owner].at # "idle"
    /\ \A t \in Tasks :
         /\ me[t].at \in Labels
         /\ me[t].at \notin {"idle", "queued"} <=> pc[t] = "inside"
         /\ me[t].mine \in Conns \cup {NoConn}
         /\ me[t].req \in 0..MaxRequests /\ me[t].alters \in 0..MaxRequests
         /\ me[t].outcome \in Outcomes
    /\ \A s \in Conns :
         /\ State(s) \in {"unused", "opening", "refused", "open", "closed"}
         /\ wire[s].pending \subseteq 1..MaxRequests
         /\ wire[s].flight \subseteq 1..MaxRequests
         /\ wire[s].response \in {"none", "pending", "done", "cancelled"}
    /\ received \in Seq(1..requests) /\ late \subseteq 1..requests

(* No transport leaks: one that is open, or may still become so, is the    *)
(* client's or the attempt a suspended task awaits, whatever is cancelled, *)
(* timed out or closed around it (2033-2157, 2170-2188).                   *)
OpenConnectionsAreOwned ==
    \A s \in Conns : State(s) \in {"opening", "open"} =>
        \/ s = client.conn
        \/ \E t \in Tasks : me[t].mine = s /\ me[t].at \in {"connecting", "bind"}

(* Monitor metadata describes the connection the client has now, also when *)
(* close() meets a registration in progress (USAGE_GUIDE.md 197-200).      *)
MonitorIsOfConnection ==
    client.monitor # NoConn =>
        IF Transport = "tcp" THEN client.monitor = client.conn
                             ELSE client.udpConnected

(* The response a request is given is its own, although requests before it *)
(* were cancelled, timed out or closed; if the network repeats responses,  *)
(* it was at least delivered after the input check of the request: the     *)
(* race USAGE_GUIDE.md 185-195 admits, and no other.                       *)
AcceptedIsOwn ==
    \A t \in Tasks : me[t].got.req # 0 =>
        /\ me[t].got.since = me[t].req
        /\ repeats = 0 => me[t].got.req = me[t].req

(* What a call reports in a Host Link error is true, and stays so.  After  *)
(* a definitive failure of a write the PLC never gets it, however late,    *)
(* and after a success or a PLC error it had it in time (the outcome       *)
(* contract, API_REFERENCE.md 38-40), cancellation included; a bit write   *)
(* that ends before its write was sent changes nothing.  The close error   *)
(* reaches only a call that a close() retired.                             *)
OutcomeIsTrue ==
    \A t \in Tasks :
        /\ me[t].outcome = "closed" => me[t].retired
        /\ me[t].at = "idle" /\ me[t].alters # 0 =>
             /\ me[t].outcome = "ok" /\ repeats = 0 =>
                  Got(me[t].alters) /\ me[t].alters \notin late
             /\ me[t].outcome = "plcError" /\ repeats = 0 =>
                  Got(me[t].req) /\ me[t].req \notin late
             /\ me[t].outcome = "unknown" => me[t].sent
             /\ me[t].outcome \notin {"ok", "plcError", "unknown", "AttributeError"} =>
                  ~Sent(me[t].alters)

(* Requests reach the PLC in the order of the calls, whatever is cancelled *)
(* or closed in between, except late ones: those whose call had ended      *)
(* before they arrived, which may follow requests of other calls over a    *)
(* later connection.  And a bit is written in a word that was read by the  *)
(* same call, with none but late requests of this client between the two,  *)
(* unless the write is late itself (2581-2591; API_REFERENCE.md 152-156).  *)
(* The call of a late write was not told that it succeeded or failed, so   *)
(* an update of this client is lost only to a write of unknown outcome.    *)
UpdatesAreWhole ==
    repeats = 0 =>
      /\ \A i, j \in DOMAIN received :
           i < j => received[i] < received[j] \/ received[j] \in late
      /\ \A t \in Tasks, j \in DOMAIN received :
           me[t].op = "bit" /\ received[j] = me[t].alters =>
             \E i \in 1..(j - 1) :
               /\ received[i] = me[t].alters - 1
               /\ \A k \in (i + 1)..(j - 1) :
                    received[k] \in late \/ me[t].alters \in late
      /\ \A t \in Tasks : me[t].alters # 0 /\ me[t].alters \in late =>
           me[t].at = "idle" /\ me[t].outcome \in {"unknown", "AttributeError"}

(* A connection becomes the client's only in a turn of the current         *)
(* generation: a late attempt never undoes a close().                      *)
OnlyCurrentPublishes ==
    [][client'.conn \notin {NoConn, client.conn} =>
         owner # NoTask /\ ownerGeneration = generation]_vars

(* The cancellation error reaches only calls that were cancelled, although *)
(* close() itself cancels the future of a UDP response (2849-2854).        *)
CancelledOnlyIfAsked ==
    \A t \in Tasks :
        me[t].outcome \in {"cancelled", "CancelledError"} => me[t].asked

(* A write that may have been sent ends in a Host Link error or a result    *)
(* (API_REFERENCE.md 38-40).                                               *)
SentWritesAreTyped ==
    \A t \in Tasks :
        me[t].alters # 0 /\ Changing(t) /\ me[t].sent =>
            me[t].outcome # "AttributeError"
=============================================================================
