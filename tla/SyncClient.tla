----------------------------- MODULE SyncClient -----------------------------
(***************************************************************************)
(* HostLinkClient of client.py over one transport: connect(), requests and *)
(* close() called by several threads.  The turn is SyncAdmission; close()  *)
(* takes none.  A step ends wherever another thread, the network or the    *)
(* clock can change what the next line of the code sees.                   *)
(***************************************************************************)
EXTENDS Naturals, Sequences, FiniteSets

CONSTANTS
    Threads, MaxGeneration, MaxDepth,    \* see SyncAdmission
    Transports,           \* which of "tcp" and "udp" a client may be made for
    Operations,           \* which of AllOperations the threads call
    MaxSockets,           \* bound: sockets ever created
    MaxRequests,          \* bound: requests ever begun
    MaxRepeats            \* bound: replies the peer or the network repeats

\* "read" stands for a read-only command, "write" for one confirmed by OK,
\* "register" for the monitor registrations, which also store metadata, "bit"
\* for write_bit_in_word and write_bit_in_expansion_unit_buffer.
AllOperations == {"connect", "close", "read", "write", "register", "bit"}
\* The public commands and the requests each of them sends at most.
Cost(o) ==
    IF o \in {"connect", "close"} THEN 0 ELSE IF o = "bit" THEN 2 ELSE 1

Sockets == 1..MaxSockets
NoSocket == 0

\* What SyncAdmission assumes of its constants.
ASSUME TurnAssumption == MaxGeneration \in Nat /\ MaxDepth \in Nat \ {0}

ASSUME ClientAssumption ==
    /\ Transports \subseteq {"tcp", "udp"}
    /\ Operations \subseteq AllOperations
    /\ MaxSockets \in Nat /\ MaxRequests \in Nat /\ MaxRepeats \in Nat

VARIABLES
    active, queue, generation, waiterGeneration, event,
    depth, localGeneration, pc,          \* the turn, see SyncAdmission
    client,               \* the fields of the client object
    me,                   \* me[t]: the call thread t is in, and its locals
    wire,                 \* wire[s]: socket s and the peer at its other end
    received,             \* the requests the PLC has got, in this order
    late,                 \* those of them whose call no longer waited
    requests,             \* how many requests were begun
    repeats               \* how many replies were repeated

Adm == INSTANCE SyncAdmission

admission == <<active, queue, generation, waiterGeneration, event,
               depth, localGeneration, pc>>
peer == <<received, late, requests, repeats>>
vars == <<admission, client, me, wire, peer>>

\* A reply: whose it is, how it is formed, and (seen by properties only) the
\* last request whose input check had passed on the socket when it arrived,
\* and whether nothing of it was lost in the client.
NoReply == [req |-> 0, kind |-> "none", since |-> 0, whole |-> TRUE]

\* ok: a well formed answer.  plcError: a complete E response.  framing: cap
\* or terminator violated.  decoding: framed well but rejected by a decoder.
Kinds == {"ok", "plcError", "framing", "decoding"}

\* _monitor_bit_count and _monitor_word_formats are the connection whose
\* registration they describe.  rxData: _rx_buffer holds part of a response.
Disconnected(transport) ==
    [transport |-> transport, sock |-> NoSocket, connecting |-> NoSocket,
     udpConnected |-> FALSE, rxData |-> FALSE, monitor |-> NoSocket]

\* req is the request in progress, alters the state-changing one of the call.
\* begun: the beginning of the response has been received.
Idle ==
    [at |-> "idle", op |-> "none", mine |-> NoSocket, taken |-> {},
     req |-> 0, alters |-> 0, sent |-> FALSE, begun |-> FALSE,
     got |-> NoReply, outcome |-> "none", retired |-> FALSE]

\* flight: the requests sent over the socket that the PLC has not got, and
\* perhaps never will; pending: those it has, and has not answered.
Fresh ==
    [state |-> "unused", inbox |-> <<>>, eof |-> FALSE, flight |-> {},
     pending |-> {}, checked |-> 0]

Init ==
    /\ Adm!Init
    /\ client \in {Disconnected(transport) : transport \in Transports}
    /\ me = [t \in Threads |-> Idle]
    /\ wire = [s \in Sockets |-> Fresh]
    /\ received = <<>> /\ late = {}
    /\ requests = 0
    /\ repeats = 0

Transport == client.transport
At(t, label) == me[t].at = label
Goto(t, label) == me' = [me EXCEPT ![t].at = label]
\* What _exchange was told of its request: state_changing.
Changing(t) == me[t].req = me[t].alters
Got(r) == \E i \in DOMAIN received : received[i] = r
\* The PLC has request r, or may still get it.
Sent(r) == Got(r) \/ \E s \in Sockets : r \in wire[s].flight
\* Which calls create a socket, and which running ones may still do so.
Creates(o) == o = "connect" \/ Transport = "udp"
Claims == {t \in Threads :
    /\ Creates(me[t].op)
    /\ me[t].at \in {"enter", "c_start", "c_open", "x_start", "x_prepare"}}
Unused == {s \in Sockets : wire[s].state = "unused"}
NextSocket == CHOOSE s \in Unused : \A u \in Unused : s <= u
State(s) == wire[s].state
Connected == client.sock # NoSocket \/ client.udpConnected

\* Nobody's later answer reaches a socket that is closed, but what was sent
\* over it is still under way.
WithClosed(w, S) ==
    [s \in Sockets |->
       IF s \in S /\ w[s].state # "unused"
         THEN [Fresh EXCEPT !.state = "closed", !.flight = w[s].flight]
         ELSE w[s]]
-----------------------------------------------------------------------------
(* A public call enters the turn; the budgets are checked here, so that no *)
(* call stops halfway for want of a socket.                                *)
Begin(t, o) ==
    /\ At(t, "idle")
    /\ o \in Operations \ {"close"}
    /\ Creates(o) => Cardinality(Unused) > Cardinality(Claims)
    /\ requests + Cost(o) <= MaxRequests
    /\ requests' = requests + Cost(o)
    /\ me' = [me EXCEPT ![t] = [Idle EXCEPT
                !.at = "enter", !.op = o,
                !.req = IF Cost(o) = 0 THEN 0 ELSE requests + 1,
                !.alters = IF o \in {"write", "register", "bit"}
                             THEN requests + Cost(o) ELSE 0]]
    /\ Adm!Enter(t)
    /\ UNCHANGED <<client, wire, received, late, repeats>>

(* The turn begins.                                                         *)
Admitted(t) ==
    /\ At(t, "enter")
    /\ Adm!Admitted(t)
    /\ me' = [me EXCEPT
                ![t].at = IF me[t].op = "connect" THEN "c_start" ELSE "x_start"]
    /\ UNCHANGED <<client, wire, peer>>

(* __enter__ raises: the call was retired while it was queued.             *)
Rejected(t) ==
    /\ At(t, "enter")
    /\ Adm!Rejected(t)
    /\ me' = [me EXCEPT ![t].at = "idle", ![t].outcome = "closed",
                        ![t].retired = TRUE]
    /\ UNCHANGED <<client, wire, peer>>

(* The call returns or raises, and leaves the turn.                        *)
Finish(t, outcome, sent) ==
    /\ me' = [me EXCEPT ![t] = [@ EXCEPT
                !.at = "idle", !.outcome = outcome, !.sent = sent,
                !.mine = NoSocket, !.begun = FALSE, !.got = NoReply,
                !.retired = Adm!Invalidated(t)]]
    /\ Adm!Exit(t)
    /\ UNCHANGED peer
-----------------------------------------------------------------------------
(* connect(): the numeric IPv4 path.                                       *)
ConnectStart(t) ==
    /\ At(t, "c_start")
    /\ IF Connected
         THEN Finish(t, "ok", FALSE)
         ELSE Goto(t, "c_open") /\ UNCHANGED <<admission, peer>>
    /\ UNCHANGED <<client, wire>>

\* Mutant: the candidate is not closed.
ConnectFailsOpen(t, outcome) ==
    /\ client' = IF client.connecting = me[t].mine
                   THEN [client EXCEPT !.connecting = NoSocket] ELSE client
    /\ UNCHANGED wire
    /\ Finish(t, outcome, FALSE)

(* Leaving connect() by an exception: the candidate is unregistered if it  *)
(* is still registered, and closed.                                        *)
ConnectFails(t, outcome) ==
    LET s == me[t].mine IN
    /\ client' = IF client.connecting = s
                   THEN [client EXCEPT !.connecting = NoSocket] ELSE client
    /\ wire' = WithClosed(wire, {s})
    /\ Finish(t, outcome, FALSE)

(* except OSError: ensure_current() decides which error it was.            *)
ConnectOSError(t) ==
    ConnectFails(t, IF Adm!Invalidated(t) THEN "closed" ELSE "transport")

(* The socket is created, and registered unless the turn was retired.      *)
ConnectOpen(t) ==
    /\ At(t, "c_open")
    /\ LET s == NextSocket IN
       IF Adm!Invalidated(t)
         THEN /\ wire' = [wire EXCEPT ![s].state = "closed"]
              /\ Finish(t, "closed", FALSE)
              /\ UNCHANGED client
         ELSE IF client.connecting # NoSocket
         THEN /\ wire' = [wire EXCEPT ![s].state = "closed"]
              /\ Finish(t, "transport", FALSE)
              /\ UNCHANGED client
         ELSE /\ wire' = [wire EXCEPT ![s].state = "open"]
              /\ client' = [client EXCEPT !.connecting = s]
              /\ me' = [me EXCEPT ![t].at = "c_connect", ![t].mine = s]
              /\ UNCHANGED <<admission, peer>>

(* connect_ex(): at once, in progress (TCP), or refused.  A shutdown()     *)
(* before it may go unnoticed.                                             *)
ConnectEx(t) ==
    /\ At(t, "c_connect")
    /\ \/ /\ State(me[t].mine) # "closed"
          /\ \/ Goto(t, "c_configure")
             \/ Transport = "tcp" /\ Goto(t, "c_select")
          /\ UNCHANGED <<admission, client, wire, peer>>
       \/ ConnectOSError(t)

(* select() for writability, then ensure_current(), the deadline, SO_ERROR. *)
(* select() of a socket closed before the call raises a plain ValueError,  *)
(* which no clause of connect() catches; closed during the call, it wakes. *)
ConnectSelect(t) ==
    /\ At(t, "c_select")
    /\ \/ /\ State(me[t].mine) # "closed" /\ ~Adm!Invalidated(t)
          /\ Goto(t, "c_configure")
          /\ UNCHANGED <<admission, client, wire, peer>>
       \/ /\ ~Adm!Invalidated(t)
          /\ ConnectFails(t, "timeout")
       \/ /\ State(me[t].mine) = "closed"
          /\ ConnectFails(t, "ValueError")
       \/ ConnectOSError(t)

(* The socket options, with ensure_current() between them.                 *)
ConnectConfigure(t) ==
    /\ At(t, "c_configure")
    /\ IF State(me[t].mine) = "closed" \/ Adm!Invalidated(t)
         THEN ConnectOSError(t)
         ELSE /\ Goto(t, "c_adopt")
              /\ UNCHANGED <<admission, client, wire, peer>>

(* adopt_if_current(adopt) makes the candidate the client's socket.  The   *)
(* UDP adoption asks the socket for its peer after _sock was assigned.     *)
ConnectAdopt(t) ==
    /\ At(t, "c_adopt")
    /\ LET s == me[t].mine
           adopted == [client EXCEPT !.sock = s, !.connecting = NoSocket,
                                     !.rxData = FALSE]
       IN
       \/ /\ Adm!Invalidated(t) \/ client.connecting \notin {NoSocket, s}
          /\ ConnectFails(t, "closed")
       \/ ~Adm!Invalidated(t) /\ ConnectFails(t, "timeout")
       \/ /\ ~Adm!Invalidated(t)
          /\ client.connecting \in {NoSocket, s}
          /\ IF Transport = "udp" /\ State(s) = "closed"
               THEN /\ client' = adopted
                    /\ Finish(t, "transport", FALSE)
               ELSE /\ client' = [adopted EXCEPT
                                    !.udpConnected = (Transport = "udp")]
                    /\ Finish(t, "ok", FALSE)
          /\ UNCHANGED wire
-----------------------------------------------------------------------------
\* Mutant: the socket is closed but stays the client's.
NotRetired == client

(* _retire_failed_transport(): _close_unlocked() over TCP, and over UDP    *)
(* only the socket, so that the peer stays resolved.                       *)
Retired ==
    IF Transport = "udp" THEN [client EXCEPT !.sock = NoSocket]
                         ELSE Disconnected(Transport)
RetiredSockets ==
    IF Transport = "udp" THEN {client.sock}
                         ELSE {client.sock, client.connecting}

\* Mutant: may_have_sent is not considered.
ClassifiedUnsent(t, error, sent) ==
    IF error \in {"transport", "notConnected"} /\ Adm!Invalidated(t)
      THEN "closed" ELSE error

(* What _exchange raises for an error of its try body.                     *)
Classified(t, error, sent) ==
    IF error \in {"ValueError", "TypeError", "IndexError"} THEN error
    ELSE IF Changing(t) /\ sent THEN "unknown"
    ELSE IF error \in {"transport", "notConnected"} /\ Adm!Invalidated(t)
      THEN "closed"
    ELSE error

\* Mutant: the transport is kept after a failure.
FailsKeepingTransport(t, error, sent) ==
    /\ UNCHANGED <<client, wire>>
    /\ Finish(t, Classified(t, error, sent), sent)

(* An exception in the try body of _exchange: except, then finally.        *)
Fails(t, error, sent) ==
    /\ client' = Retired
    /\ wire' = WithClosed(wire, RetiredSockets)
    /\ Finish(t, Classified(t, error, sent), sent)

(* The entry of _exchange, before its try.                                 *)
ExchangeStart(t) ==
    /\ At(t, "x_start")
    /\ IF ~Connected
         THEN Finish(t, "notConnected", FALSE)
         ELSE /\ me' = [me EXCEPT
                          ![t].at = IF Transport = "udp" THEN "x_prepare"
                                                         ELSE "x_check",
                          ![t].mine = client.sock]
              /\ UNCHANGED <<admission, peer>>
    /\ UNCHANGED <<client, wire>>

(* _prepare_udp_request_socket(): reuse the socket or create one.          *)
PrepareSocket(t) ==
    /\ At(t, "x_prepare")
    /\ IF client.sock # NoSocket
         THEN /\ me' = [me EXCEPT ![t].at = "x_check", ![t].mine = client.sock]
              /\ UNCHANGED <<admission, client, wire, peer>>
         ELSE IF ~client.udpConnected
         THEN Fails(t, "notConnected", FALSE)
         ELSE /\ wire' = [wire EXCEPT ![NextSocket].state = "open"]
              /\ me' = [me EXCEPT ![t].at = "x_bind", ![t].mine = NextSocket]
              /\ UNCHANGED <<admission, client, peer>>

PrepareFails(t, error) ==
    /\ client' = Retired
    /\ wire' = WithClosed(wire, RetiredSockets \cup {me[t].mine})
    /\ Finish(t, Classified(t, error, FALSE), FALSE)

(* candidate.connect(self._udp_remote_endpoint) reads the endpoint again;   *)
(* None is a TypeError, which no clause of _exchange catches.              *)
BindSocket(t) ==
    /\ At(t, "x_bind")
    /\ \/ /\ client.udpConnected
          /\ Goto(t, "x_adopt")
          /\ UNCHANGED <<admission, client, wire, peer>>
       \/ ~client.udpConnected /\ PrepareFails(t, "TypeError")
       \/ \E error \in {"timeout", "transport"} : PrepareFails(t, error)

AdoptSocket(t) ==
    /\ At(t, "x_adopt")
    /\ IF Adm!Invalidated(t)
         THEN PrepareFails(t, "closed")
         ELSE /\ client' = [client EXCEPT !.sock = me[t].mine]
              /\ Goto(t, "x_check")
              /\ UNCHANGED <<admission, wire, peer>>

(* What _reject_unowned_*_input finds on socket s: the errors it may raise, *)
(* none if the request may go on.  shutdown() makes a socket readable.     *)
InputErrors(s) ==
    IF Transport = "tcp" /\ client.rxData THEN {"protocol"}
    ELSE IF State(s) = "closed" THEN {"ValueError"}
    ELSE IF wire[s].inbox # <<>> THEN {"protocol"}
    ELSE IF State(s) = "shut" \/ wire[s].eof
      THEN IF Transport = "udp" THEN {"protocol"} ELSE {"transport"}
    ELSE {}

CheckInput(t) ==
    /\ At(t, "x_check")
    /\ LET s == me[t].mine IN
       \/ \E error \in InputErrors(s) : Fails(t, error, FALSE)
       \/ /\ InputErrors(s) = {}
          /\ wire' = [wire EXCEPT ![s].checked = me[t].req]
          /\ Goto(t, "x_send")
          /\ UNCHANGED <<admission, client, peer>>

(* sendall(); may_have_sent is set just before it.  What it takes is under *)
(* way from then on; a send that fails has not given the network a complete *)
(* request, but the client cannot know.                                    *)
SendRequest(t) ==
    /\ At(t, "x_send")
    /\ LET s == me[t].mine IN
       \/ Fails(t, "timeout", FALSE)
       \/ State(s) = "closed" /\ Fails(t, "transport", FALSE)
       \/ \E error \in {"timeout", "transport"} : Fails(t, error, TRUE)
       \/ /\ State(s) = "open"
          /\ wire' = [wire EXCEPT ![s].flight = @ \cup {me[t].req}]
          /\ me' = [me EXCEPT ![t].at = "x_receive", ![t].sent = TRUE]
          /\ UNCHANGED <<admission, client, peer>>

(* recv() of one datagram, the framing checks, then a second input check.  *)
(* After a shutdown() it returns nothing, which is not terminated.         *)
ReceiveDatagram(t) ==
    /\ At(t, "x_receive") /\ Transport = "udp"
    /\ LET s == me[t].mine IN
       \/ \E error \in {"timeout", "transport"} : Fails(t, error, TRUE)
       \/ State(s) = "shut" /\ Fails(t, "protocol", TRUE)
       \/ /\ wire[s].inbox # <<>>
          /\ LET reply == Head(wire[s].inbox) IN
             IF reply.kind = "framing"
               THEN Fails(t, "protocol", TRUE)
               ELSE /\ wire' = [wire EXCEPT ![s].inbox = Tail(@)]
                    /\ me' = [me EXCEPT ![t].at = "x_recheck",
                                        ![t].got = reply]
                    /\ UNCHANGED <<admission, client, peer>>

RecheckInput(t) ==
    /\ At(t, "x_recheck")
    /\ \/ \E error \in InputErrors(me[t].mine) : Fails(t, error, TRUE)
       \/ /\ InputErrors(me[t].mine) = {}
          /\ Goto(t, "x_accept")
          /\ UNCHANGED <<admission, client, wire, peer>>

\* What is left of a line whose beginning was dropped from _rx_buffer.
Torn(t, reply) ==
    {[reply EXCEPT !.whole = FALSE, !.kind = kind] :
       kind \in IF Changing(t) THEN {"decoding"} ELSE {"ok", "decoding"}}

(* _recv_tcp_line() appends what recv() gives to _rx_buffer: the beginning *)
(* of a response ...                                                       *)
ReceivePart(t) ==
    /\ At(t, "x_receive") /\ Transport = "tcp"
    /\ wire[me[t].mine].inbox # <<>> /\ ~me[t].begun
    /\ client' = [client EXCEPT !.rxData = TRUE]
    /\ me' = [me EXCEPT ![t].begun = TRUE]
    /\ UNCHANGED <<admission, wire, peer>>

(* ... or its end, alone or with further lines.  If close() has reset the  *)
(* buffer in between, the beginning is gone.                               *)
ReceiveLine(t) ==
    /\ At(t, "x_receive") /\ Transport = "tcp"
    /\ LET s == me[t].mine
           lines == wire[s].inbox
           Took(reply) == me' = [me EXCEPT ![t].at = "x_line", ![t].got = reply]
       IN
       \/ \E error \in {"timeout", "transport"} :
            Fails(t, error, TRUE)
       \/ /\ lines # <<>>
          /\ \/ me[t].begun /\ ~client.rxData
               /\ \E rest \in Torn(t, Head(lines)) : Took(rest)
             \/ ~(me[t].begun /\ ~client.rxData)
               /\ Took(Head(lines))
             \/ Len(lines) > 1 /\ Took([Head(lines) EXCEPT !.kind = "framing"])
          /\ wire' = [wire EXCEPT ![s].inbox = Tail(@)]
          /\ client' = [client EXCEPT !.rxData = TRUE]
          /\ UNCHANGED <<admission, peer>>

(* try_take_line() takes the line and empties the buffer.  If close() does *)
(* so first, it finds nothing, an empty line, or an index without a byte.  *)
TakeLine(t) ==
    /\ At(t, "x_line")
    /\ \/ /\ me[t].got.kind = "framing" /\ client.rxData
          /\ Fails(t, "protocol", TRUE)
       \/ /\ me[t].got.kind # "framing" /\ client.rxData
          /\ client' = [client EXCEPT !.rxData = FALSE]
          /\ Goto(t, "x_accept")
          /\ UNCHANGED <<admission, wire, peer>>
       \/ ~client.rxData /\ Fails(t, "IndexError", TRUE)
       \/ /\ ~client.rxData
          /\ \/ me' = [me EXCEPT ![t].at = "x_receive", ![t].begun = FALSE,
                                 ![t].got = NoReply]
             \/ me' = [me EXCEPT ![t].at = "x_accept",
                       ![t].got = [@ EXCEPT !.whole = FALSE, !.kind = "decoding"]]
          /\ UNCHANGED <<admission, client, wire, peer>>

(* The last test of the generation; UDP stores the socket again under it.  *)
AcceptReply(t) ==
    /\ At(t, "x_accept")
    /\ IF Adm!Invalidated(t)
         THEN Fails(t, "closed", TRUE)
         ELSE /\ Goto(t, "x_decode")
              /\ client' = IF Transport = "udp"
                             THEN [client EXCEPT !.sock = me[t].mine]
                             ELSE client
              /\ UNCHANGED <<admission, wire, peer>>

\* Mutant: the turn is given up, and asked for again for the write.
WriteBackOutsideTurn(t) ==
    LET Again(label) ==
            me' = [me EXCEPT ![t] = [@ EXCEPT
                     !.at = label, !.req = me[t].alters, !.sent = FALSE,
                     !.mine = NoSocket, !.begun = FALSE, !.got = NoReply]]
    IN
    /\ IF queue = <<>>
         THEN Again("x_start") /\ UNCHANGED admission
         ELSE /\ Again("enter")
              /\ queue' = Append(Tail(queue), t)
              /\ event' = [event EXCEPT ![Head(queue)] = "set", ![t] = "clear"]
              /\ waiterGeneration' = [waiterGeneration EXCEPT ![t] = generation]
              /\ depth' = [depth EXCEPT ![t] = 0]
              /\ pc' = [pc EXCEPT ![t] = "waiting"]
              /\ UNCHANGED <<active, generation, localGeneration>>
    /\ UNCHANGED peer

(* The bit of the word just read is set or cleared, and the word goes back  *)
(* by a second request, in the same turn and before the same deadline.     *)
WriteBack(t) ==
    /\ me' = [me EXCEPT ![t] = [@ EXCEPT
                !.at = "x_start", !.req = me[t].alters, !.sent = FALSE,
                !.mine = NoSocket, !.begun = FALSE, !.got = NoReply]]
    /\ UNCHANGED <<admission, peer>>

(* Decoding, after _exchange: the deadline is tested again, a PLC error is *)
(* definitive, an undecodable answer retires the transport.                *)
DecodeReply(t) ==
    /\ At(t, "x_decode")
    /\ \/ Fails(t, "timeout", TRUE)
       \/ me[t].got.kind = "decoding" /\ Fails(t, "protocol", TRUE)
       \/ /\ me[t].got.kind = "plcError"
          /\ Finish(t, "plcError", TRUE)
          /\ UNCHANGED <<client, wire>>
       \/ /\ me[t].got.kind = "ok"
          /\ IF me[t].op = "register"
               THEN Goto(t, "x_note") /\ UNCHANGED <<admission, peer>>
               ELSE IF me[t].op = "bit" /\ ~Changing(t) THEN WriteBack(t)
               ELSE Finish(t, "ok", TRUE)
          /\ UNCHANGED <<client, wire>>

(* register_monitor_*() stores what was registered, still in its turn.     *)
NoteMonitor(t) ==
    /\ At(t, "x_note")
    /\ client' = [client EXCEPT !.monitor = me[t].mine]
    /\ Finish(t, "ok", TRUE)
    /\ UNCHANGED wire
-----------------------------------------------------------------------------
(* close(): invalidate(), then _close_unlocked() in three steps.           *)
CloseInvalidate(t) ==
    /\ At(t, "idle")
    /\ "close" \in Operations
    /\ Adm!Invalidate
    /\ me' = [me EXCEPT ![t] = [Idle EXCEPT !.at = "k_clear", !.op = "close"]]
    /\ UNCHANGED <<client, wire, peer>>

\* Mutant: an absent socket is not skipped.
CloseClearAbsent(t) ==
    /\ At(t, "k_clear")
    /\ client' = Disconnected(Transport)
    /\ me' = [me EXCEPT ![t].at = "k_shutdown",
                        ![t].taken = {client.sock, client.connecting}]
    /\ UNCHANGED <<admission, wire, peer>>

CloseClear(t) ==
    /\ At(t, "k_clear")
    /\ client' = Disconnected(Transport)
    /\ me' = [me EXCEPT ![t].at = "k_shutdown",
                        ![t].taken = {client.sock, client.connecting} \ {NoSocket}]
    /\ UNCHANGED <<admission, wire, peer>>

CloseShutdown(t) ==
    /\ At(t, "k_shutdown")
    /\ wire' = [s \in Sockets |->
                  IF s \in me[t].taken /\ State(s) = "open"
                    THEN [wire[s] EXCEPT !.state = "shut"] ELSE wire[s]]
    /\ Goto(t, "k_close")
    /\ UNCHANGED <<admission, client, peer>>

CloseSocket(t) ==
    /\ At(t, "k_close")
    /\ wire' = WithClosed(wire, me[t].taken)
    /\ me' = [me EXCEPT ![t].at = "idle", ![t].outcome = "ok", ![t].taken = {}]
    /\ UNCHANGED <<admission, client, peer>>
-----------------------------------------------------------------------------
(* A request gets to the PLC, at any time after it was sent: also when its *)
(* call has given it up, or its socket was closed.  Those of one TCP       *)
(* connection come in order.                                               *)
Arrive(s) ==
    /\ \E r \in wire[s].flight :
         /\ Transport = "tcp" => \A q \in wire[s].flight : r <= q
         /\ received' = Append(received, r)
         /\ late' = IF \E t \in Threads : At(t, "x_receive") /\ me[t].req = r
                      THEN late ELSE late \cup {r}
         /\ wire' = [wire EXCEPT
                       ![s].flight = @ \ {r},
                       ![s].pending = IF State(s) = "closed" \/ wire[s].eof
                                        THEN @ ELSE @ \cup {r}]
    /\ UNCHANGED <<admission, client, me, requests, repeats>>

(* The peer answers a request, some time, in some form.  A repeated answer *)
(* is one that stays pending.                                              *)
Answer(s) ==
    /\ State(s) \in {"open", "shut"}
    /\ \E r \in wire[s].pending, kind \in Kinds, repeat \in {0, 1} :
         /\ repeats + repeat <= MaxRepeats
         /\ repeats' = repeats + repeat
         /\ wire' = [wire EXCEPT
                       ![s].inbox = Append(@, [req |-> r, kind |-> kind,
                                               since |-> wire[s].checked,
                                               whole |-> TRUE]),
                       ![s].pending = IF repeat = 1 THEN @ ELSE @ \ {r}]
    /\ UNCHANGED <<admission, client, me, received, late, requests>>

(* The peer ends a TCP connection; its answers so far stay readable.       *)
HangUp(s) ==
    /\ Transport = "tcp"
    /\ State(s) = "open" /\ ~wire[s].eof
    /\ s # client.connecting
    /\ wire' = [wire EXCEPT ![s].eof = TRUE, ![s].pending = {}]
    /\ UNCHANGED <<admission, client, me, peer>>

(* The bounds are used up and every call has returned.                     *)
Done ==
    /\ \A t \in Threads : At(t, "idle")
    /\ UNCHANGED vars

(* What a call does next once it has been made; all but event.wait() end,  *)
(* at the latest when the deadline expires.                                *)
Proceed(t) ==
    \/ Admitted(t) \/ Rejected(t)
    \/ ConnectStart(t) \/ ConnectOpen(t) \/ ConnectEx(t) \/ ConnectSelect(t)
    \/ ConnectConfigure(t) \/ ConnectAdopt(t)
    \/ ExchangeStart(t) \/ PrepareSocket(t) \/ BindSocket(t) \/ AdoptSocket(t)
    \/ CheckInput(t) \/ SendRequest(t) \/ ReceiveDatagram(t) \/ RecheckInput(t)
    \/ ReceivePart(t) \/ ReceiveLine(t) \/ TakeLine(t) \/ AcceptReply(t) \/ DecodeReply(t) \/ NoteMonitor(t)
    \/ CloseClear(t) \/ CloseShutdown(t) \/ CloseSocket(t)

Next ==
    \/ \E t \in Threads :
         Proceed(t) \/ CloseInvalidate(t) \/ \E o \in Operations : Begin(t, o)
    \/ \E s \in Sockets : Arrive(s) \/ Answer(s) \/ HangUp(s)
    \/ Done

Spec == Init /\ [][Next]_vars

(* Threads are scheduled, and a blocked socket call times out; the peer    *)
(* owes no answer.                                                         *)
FairSpec == Spec /\ \A t \in Threads : WF_vars(Proceed(t))
-----------------------------------------------------------------------------
Labels ==
    {"idle", "enter",
     "c_start", "c_open", "c_connect", "c_select", "c_configure", "c_adopt",
     "x_start", "x_prepare", "x_bind", "x_adopt", "x_check", "x_send",
     "x_receive", "x_line", "x_recheck", "x_accept", "x_decode", "x_note",
     "k_clear", "k_shutdown", "k_close"}

Outcomes ==
    {"none", "ok", "plcError", "unknown", "closed", "notConnected",
     "transport", "timeout", "protocol", "ValueError", "TypeError",
     "IndexError"}

TypeOK ==
    /\ Adm!TypeOK
    /\ client.transport \in Transports
    /\ client.sock \in Sockets \cup {NoSocket}
    /\ client.connecting \in Sockets \cup {NoSocket}
    /\ client.monitor \in Sockets \cup {NoSocket}
    /\ client.udpConnected \in BOOLEAN /\ client.rxData \in BOOLEAN
    /\ \A t \in Threads :
         /\ me[t].at \in Labels
         /\ me[t].op \in AllOperations \cup {"none"}
         /\ me[t].mine \in Sockets \cup {NoSocket}
         /\ me[t].taken \subseteq Sockets
         /\ me[t].req \in 0..MaxRequests /\ me[t].alters \in 0..MaxRequests
         /\ me[t].outcome \in Outcomes
         /\ me[t].sent \in BOOLEAN /\ me[t].retired \in BOOLEAN
    /\ \A s \in Sockets :
         /\ State(s) \in {"unused", "open", "shut", "closed"}
         /\ wire[s].pending \subseteq 1..MaxRequests
         /\ wire[s].flight \subseteq 1..MaxRequests
    /\ received \in Seq(1..requests) /\ late \subseteq 1..requests

Sending(t) == me[t].at \in {"x_check", "x_send", "x_receive", "x_recheck",
                            "x_accept", "x_decode", "x_note"}

(* No socket leaks: one that is not closed is the client's, a candidate    *)
(* close() can reach, one some close() has taken and is about to close, or *)
(* the not yet adopted socket of a UDP request, in every interleaving of   *)
(* connect, requests and close (1235-1367).                                *)
OpenSocketsAreOwned ==
    \A s \in Sockets : State(s) \in {"open", "shut"} =>
        \/ s \in {client.sock, client.connecting}
        \/ \E t \in Threads :
             \/ s \in me[t].taken
             \/ s = me[t].mine /\ me[t].at \in {"x_bind", "x_adopt"}

(* While a request uses a connection nobody replaces it: it is the         *)
(* client's socket or the client has none, also when the turn passes on    *)
(* during a close, so that retiring a failed request hits nothing else.    *)
ConnectionIsStable ==
    \A t \in Threads : Sending(t) => client.sock \in {NoSocket, me[t].mine}

(* The answer a request is given is its own: a late answer to an abandoned *)
(* one is never taken for it, although responses carry no transaction      *)
(* number (1596-1601).  If the network repeats answers, the one taken has  *)
(* at least arrived after the input check of the request, which leaves the *)
(* race USAGE_GUIDE.md 185-195 admits and no other.                        *)
AcceptedIsOwn ==
    \A t \in Threads : me[t].got.req # 0 =>
        /\ me[t].got.since = me[t].req
        /\ repeats = 0 => me[t].got.req = me[t].req

(* What a call reports is true, and stays so.  After a definitive failure  *)
(* of a write the PLC never gets it, however late, and after a success or  *)
(* a PLC error it had it in time (the outcome contract, API_REFERENCE.md   *)
(* 38-40); a bit write that fails in its read, or before its write was     *)
(* sent, changes nothing.  "Closed" is told only to a call that a close()  *)
(* retired, so that no late close error reaches one that began afterwards. *)
(* ValueError and IndexError claim nothing.                                *)
OutcomeIsTrue ==
    \A t \in Threads :
        /\ me[t].outcome = "closed" => me[t].retired
        /\ At(t, "idle") /\ me[t].alters # 0 =>
             /\ me[t].outcome = "ok" /\ repeats = 0 =>
                  Got(me[t].alters) /\ me[t].alters \notin late
             /\ me[t].outcome = "plcError" /\ repeats = 0 =>
                  Got(me[t].req) /\ me[t].req \notin late
             /\ me[t].outcome = "unknown" => me[t].sent
             /\ me[t].outcome \notin {"ok", "plcError", "unknown", "ValueError",
                                     "IndexError"} => ~Sent(me[t].alters)

(* A write that may have been sent ends in a Host Link error or a result    *)
(* (API_REFERENCE.md 38-40).                                               *)
SentWritesAreTyped ==
    \A t \in Threads :
        me[t].alters # 0 /\ Changing(t) /\ me[t].sent =>
            me[t].outcome \notin {"ValueError", "IndexError"}

(* An answer is taken from one whole response line ("TCP owns exactly one  *)
(* non-empty response line per request", USAGE_GUIDE.md 181): a call never *)
(* returns the rest of a line as its value.                                *)
AnswersAreWhole ==
    \A t \in Threads :
        At(t, "x_decode") /\ me[t].got.kind = "ok" => me[t].got.whole

(* Requests reach the PLC in the order of the calls, whichever threads     *)
(* made them, except late ones: those whose call gave them up before they  *)
(* arrived, which may follow requests of other calls over a later socket.  *)
(* And a bit is written in a word that was read by the same call, with     *)
(* none but late requests of this client between the two, unless the write *)
(* is late itself (1734-1745; API_REFERENCE.md 152-156).  The call of a    *)
(* late write has not been told that it succeeded or failed, so an update  *)
(* of this client is lost only to a write of unknown outcome.              *)
UpdatesAreWhole ==
    repeats = 0 =>
      /\ \A i, j \in DOMAIN received :
           i < j => received[i] < received[j] \/ received[j] \in late
      /\ \A t \in Threads, j \in DOMAIN received :
           me[t].op = "bit" /\ received[j] = me[t].alters =>
             \E i \in 1..(j - 1) :
               /\ received[i] = me[t].alters - 1
               /\ \A k \in (i + 1)..(j - 1) :
                    received[k] \in late \/ me[t].alters \in late
      /\ \A t \in Threads : me[t].alters # 0 /\ me[t].alters \in late =>
           /\ At(t, "idle")
           /\ me[t].outcome \in {"unknown", "ValueError", "IndexError"}

(* Every call returns, whatever the PLC, the network and other threads do. *)
EveryCallReturns ==
    \A t \in Threads : ~At(t, "idle") ~> At(t, "idle")

(* Monitor metadata describes the connection the client has now: losing or *)
(* replacing the connection clears it (USAGE_GUIDE.md 197-200).            *)
MonitorIsOfConnection ==
    client.monitor # NoSocket =>
        IF Transport = "tcp" THEN client.monitor = client.sock
                             ELSE client.udpConnected

(* The socket that the client shows as connected is open.                  *)
PublishedSocketIsOpen ==
    client.sock # NoSocket => State(client.sock) = "open"

(* Both hold as long as nobody calls close(): whatever is lost, replaced,  *)
(* discarded or failed, the connection, what is registered on it and the   *)
(* socket the client shows belong together (1351-1367).                    *)
SteadyConnection ==
    generation = 0 => MonitorIsOfConnection /\ PublishedSocketIsOpen
=============================================================================
