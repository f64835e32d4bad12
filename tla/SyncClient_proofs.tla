------------------------- MODULE SyncClient_proofs -------------------------
(***************************************************************************)
(* Proofs about HostLinkClient, for every set of threads, every number of  *)
(* sockets, requests, closes and repeated replies.  The invariant is shown *)
(* in layers, each of which rests on those below it:                       *)
(*   Admission   the turn, as SyncAdmission_proofs shows it                *)
(*   Typed, Control, Enough       where the calls stand in their turn      *)
(*   Ownership   whose each socket is                                      *)
(*   Responses   whose each answer is                                      *)
(*   AnswersWereAsked, Ordered, Updates, OutcomeIsTrue    what the PLC got *)
(*               or may still get                                          *)
(*   InFlight    what it gets late                                         *)
(* What a step of a call does is named once (Returns, Retires, ...) and    *)
(* shown for every action; each layer is then kept by each of these moves. *)
(***************************************************************************)
EXTENDS SyncClient, FiniteSetTheorems, SequenceTheorems, WellFoundedInduction,
        TLAPS

Turn == INSTANCE SyncAdmission_proofs
-----------------------------------------------------------------------------
(* The turn: at most one call has it, and the queue holds who waits.       *)
Admission ==
    /\ Adm!TypeOK
    /\ Adm!MutualExclusion
    /\ Adm!QueueIsExact

(* The full types, of which TypeOK shows what a reader looks for.          *)
Answers == [req : Nat, kind : Kinds, since : Nat, whole : BOOLEAN]
Replies == [req : Nat, kind : Kinds \cup {"none"}, since : Nat, whole : BOOLEAN]

Calls ==
    [at : Labels, op : AllOperations \cup {"none"}, mine : Sockets \cup {NoSocket},
     taken : SUBSET Sockets, req : Nat, alters : Nat, sent : BOOLEAN,
     begun : BOOLEAN, got : Replies, outcome : Outcomes, retired : BOOLEAN]

Links ==
    [state : {"unused", "open", "shut", "closed"}, inbox : Seq(Answers),
     eof : BOOLEAN, flight : SUBSET (1..MaxRequests),
     pending : SUBSET (1..MaxRequests), checked : Nat]

Clients ==
    [transport : Transports, sock : Sockets \cup {NoSocket},
     connecting : Sockets \cup {NoSocket}, udpConnected : BOOLEAN,
     rxData : BOOLEAN, monitor : Sockets \cup {NoSocket}]

Typed ==
    /\ client \in Clients
    /\ me \in [Threads -> Calls]
    /\ wire \in [Sockets -> Links]
    /\ received \in Seq(1..MaxRequests) /\ late \subseteq 1..MaxRequests
    /\ requests \in 0..MaxRequests /\ repeats \in Nat

(* What a label of a call says about the call.                             *)
Trying(t) == me[t].at \in {"c_connect", "c_select", "c_configure", "c_adopt"}
Connecting(t) == me[t].at \in {"c_start", "c_open"} \/ Trying(t)
Preparing(t) == me[t].at \in {"x_bind", "x_adopt"}
InUse(t) == Sending(t) \/ me[t].at = "x_line"
Requesting(t) == me[t].at \in {"x_start", "x_prepare"} \/ Preparing(t) \/ InUse(t)
Closing(t) == me[t].at \in {"k_clear", "k_shutdown", "k_close"}
InTurn(t) == me[t].at \notin {"idle", "enter"} /\ ~Closing(t)

CallIsExact(t) ==
    LET c == me[t] IN
    /\ c.at = "enter" <=> pc[t] = "waiting"
    /\ c.at = "idle" \/ Closing(t) <=> pc[t] = "outside"
    /\ c.taken # {} => c.at \in {"k_shutdown", "k_close"}
    /\ Closing(t) <=> c.op = "close" /\ c.at # "idle"
    /\ Closing(t) => generation > 0
    /\ c.at # "idle" => c.op # "none"
    /\ Connecting(t) => c.op = "connect"
    /\ Requesting(t) => Cost(c.op) > 0
    /\ c.at = "x_note" => c.op = "register"
    /\ c.at \in {"x_prepare", "x_recheck"} \/ Preparing(t) => Transport = "udp"
    /\ c.at = "x_line" => Transport = "tcp"
    /\ c.at = "enter" /\ c.op = "bit" => c.req # c.alters
    /\ c.at # "idle" => c.outcome = "none"
    /\ Trying(t) \/ Preparing(t) \/ InUse(t) => c.mine \in Sockets

(* The numbers of the requests of a call.                                  *)
NumbersAreOwn(t) ==
    LET c == me[t] IN
    /\ c.op \in {"none", "connect", "close"} => c.req = 0 /\ c.alters = 0
    /\ c.op = "read" => c.req \in 1..requests /\ c.alters = 0
    /\ c.op \in {"write", "register"} => c.req \in 1..requests /\ c.alters = c.req
    /\ c.op = "bit" => c.alters \in 2..requests /\ c.req \in {c.alters - 1, c.alters}

Control ==
    /\ \A t \in Threads : CallIsExact(t) /\ NumbersAreOwn(t)
    /\ Transport = "tcp" => ~client.udpConnected
-----------------------------------------------------------------------------
(* Which calls may still create a socket: the second request of a bit uses *)
(* that of the first, which only a close() takes away, and then for good.  *)
Again(t) == me[t].op = "bit" /\ Changing(t)
Needing ==
    {t \in Threads :
       /\ Creates(me[t].op)
       /\ \/ me[t].at \in {"enter", "c_start", "c_open"}
          \/ me[t].at \in {"x_start", "x_prepare"} /\ ~Again(t)}

Enough ==
    /\ IsFiniteSet(Needing) /\ Cardinality(Unused) >= Cardinality(Needing)
    /\ \A t \in Threads :
         InUse(t) \/ (me[t].at \in {"x_start", "x_prepare"} /\ Again(t)) =>
           client.sock # NoSocket \/ ~client.udpConnected
-----------------------------------------------------------------------------
(* The socket of a call in its turn is the client's, unless a close() took *)
(* it away, and nobody but the call puts one there.                        *)
CallHasSocket(t) ==
    LET s == me[t].mine IN
    /\ Connecting(t) /\ me[t].at # "c_start" =>
         client.sock = NoSocket /\ ~client.udpConnected
    /\ Trying(t) => State(s) # "unused" /\ client.connecting \in {NoSocket, s}
    /\ Preparing(t) => State(s) # "unused" /\ client.sock = NoSocket
    /\ InUse(t) => State(s) # "unused" /\ client.sock \in {NoSocket, s}

(* As long as nobody calls close(), nothing is taken away.                 *)
CallKeepsSocket(t) ==
    LET s == me[t].mine IN
    /\ Trying(t) => client.connecting = s /\ State(s) = "open"
    /\ Preparing(t) => client.udpConnected /\ State(s) = "open"
    /\ InUse(t) => client.sock = s

Ownership ==
    /\ client.connecting # NoSocket =>
         \E t \in Threads : Trying(t) /\ me[t].mine = client.connecting
    /\ client.sock # NoSocket => State(client.sock) # "unused"
    /\ \A t \in Threads : CallHasSocket(t)
    /\ generation = 0 =>
         /\ \A t \in Threads : CallKeepsSocket(t)
         /\ Transport = "udp" /\ client.sock # NoSocket => client.udpConnected
    /\ \A s \in Sockets : State(s) = "unused" => wire[s] = Fresh
    /\ \A t \in Threads : \A s \in me[t].taken : State(s) # "unused"
    /\ OpenSocketsAreOwned
    /\ SteadyConnection
-----------------------------------------------------------------------------
(* What a call may still be waiting for, or has been given, is its own.    *)
Exchanging(t) == me[t].at \in {"x_send", "x_receive"}
Holding(t) == me[t].at \in {"x_line", "x_recheck", "x_accept", "x_decode", "x_note"}
Quiet(s) ==
    /\ wire[s].inbox = <<>>
    /\ wire[s].pending = {}
    /\ wire[s].flight = {}

AnswerIsOwn(t) ==
    LET s == me[t].mine
        r == me[t].req
    IN
    /\ ~Holding(t) => me[t].got = NoReply
    /\ Holding(t) => /\ me[t].got.since = r
                     /\ repeats = 0 => me[t].got.req = r
    /\ Exchanging(t) \/ Holding(t) =>
         /\ State(s) \in {"open", "shut"} => wire[s].checked = r
         /\ \A i \in DOMAIN wire[s].inbox : wire[s].inbox[i].since = r
    /\ repeats = 0 /\ (Holding(t) \/ me[t].at \in {"x_check", "x_send"} \/ Trying(t) \/ Preparing(t)) =>
         Quiet(s)
    /\ repeats = 0 /\ me[t].at = "x_receive" =>
         /\ wire[s].pending \subseteq {r} /\ wire[s].flight \subseteq {r}
         /\ \A i \in DOMAIN wire[s].inbox : wire[s].inbox[i].req = r
         /\ wire[s].inbox # <<>> => wire[s].pending = {} /\ Len(wire[s].inbox) = 1
         /\ wire[s].flight # {} => wire[s].pending = {} /\ wire[s].inbox = <<>>

Responses ==
    /\ \A t \in Threads : AnswerIsOwn(t)
    /\ repeats = 0 /\ client.sock # NoSocket =>
         \/ Quiet(client.sock)
         \/ \E t \in Threads : me[t].at = "x_receive" /\ me[t].mine = client.sock
-----------------------------------------------------------------------------
(* Requests that the PLC may have, and requests that it cannot have yet.   *)
Unsent(t) == me[t].at \in {"enter", "x_start", "x_prepare", "x_bind", "x_adopt",
                           "x_check", "x_send"}

AnswersWereAsked ==
    /\ \A s \in Sockets :
         /\ \A r \in wire[s].pending : Got(r)
         /\ \A i \in DOMAIN wire[s].inbox : Got(wire[s].inbox[i].req)
    /\ \A t \in Threads : Holding(t) => Got(me[t].got.req)
    /\ \A r \in late : Got(r)

(* The calls are numbered in the order of the queue.                       *)
Before(t, u) ==
    me[u].req # 0 => me[t].req < me[u].req /\ me[t].alters < me[u].req

InLine(t) == Adm!Queued(t) \/ Adm!HasTurn(t)

Ordered ==
    /\ \A t, u \in Threads : t # u /\ me[t].alters # 0 =>
         me[t].alters # me[u].req /\ me[t].alters # me[u].alters
    /\ \A i, j \in 1..Len(queue) : i < j => Before(queue[i], queue[j])
    /\ \A t \in Threads : Adm!HasTurn(t) =>
         \A j \in 1..Len(queue) : Before(t, queue[j])
    /\ \A t \in Threads, r \in Nat : InLine(t) /\ me[t].req # 0 /\ Sent(r) =>
         r <= me[t].req /\ (Unsent(t) => r < me[t].req)
    /\ \A r \in Nat : Sent(r) => r <= requests

Updates ==
    \A t \in Threads : me[t].alters # 0 =>
      /\ Unsent(t) \/ ~Changing(t) => ~Sent(me[t].alters)
      /\ repeats = 0 /\ me[t].op = "bit" /\ Changing(t) => Got(me[t].alters - 1)

(* What is under way arrives once, and what arrives late belongs to a call *)
(* that ended without knowing.                                             *)
LateIsUnknown(t) ==
    At(t, "idle") /\ me[t].outcome \in {"unknown", "ValueError", "IndexError"}
Flying(t) == me[t].at = "x_receive" \/ Holding(t)
ReadBefore(r) ==
    \A j \in DOMAIN received : received[j] = r =>
      \E i \in 1..(j - 1) : received[i] = r - 1

InFlight ==
    repeats = 0 =>
      /\ \A s \in Sockets : \A r \in wire[s].flight :
           ~Got(r) /\ \A u \in Sockets : r \in wire[u].flight => u = s
      /\ \A i, j \in DOMAIN received :
           i < j => received[i] < received[j] \/ received[j] \in late
      /\ \A i, j \in DOMAIN received : i # j => received[i] # received[j]
      /\ \A t \in Threads :
           /\ me[t].op = "bit" => ReadBefore(me[t].alters)
           /\ me[t].alters \in late => LateIsUnknown(t)
           /\ Flying(t) => me[t].req \notin late
-----------------------------------------------------------------------------
(* What the client does to the turn is one step of it, or nothing.         *)
LEMMA StepIsTurnStep == [Next]_vars => [Turn!Next]_(Turn!vars)
  <1> SUFFICES ASSUME [Next]_vars PROVE [Turn!Next]_(Turn!vars)
    OBVIOUS
  <1>1. ASSUME UNCHANGED admission PROVE UNCHANGED Turn!vars
    BY <1>1 DEF admission, Turn!vars
  <1>2. ASSUME NEW t \in Threads, Adm!Exit(t) PROVE Turn!Step(t)
    BY <1>2 DEF Adm!Exit, Turn!Step, Turn!Exit, Adm!Successor, Turn!Successor
  <1>3. ASSUME NEW t \in Threads, Adm!Enter(t) PROVE Turn!Step(t)
    BY <1>3 DEF Adm!Enter, Turn!Step, Turn!Enter, Adm!EnterIf, Turn!EnterIf,
       Adm!locals, Turn!locals
  <1>4. ASSUME NEW t \in Threads, Adm!Admitted(t) PROVE Turn!Step(t)
    BY <1>4 DEF Adm!Admitted, Turn!Step, Turn!Admitted, Adm!shared, Turn!shared,
       Adm!waiters, Turn!waiters
  <1>5. ASSUME NEW t \in Threads, Adm!Rejected(t) PROVE Turn!Step(t)
    BY <1>5 DEF Adm!Rejected, Turn!Step, Turn!Rejected, Adm!shared, Turn!shared,
       Adm!waiters, Turn!waiters, Adm!locals, Turn!locals
  <1>6. ASSUME Adm!Invalidate PROVE Turn!Invalidate
    BY <1>6 DEF Adm!Invalidate, Turn!Invalidate, Adm!Queued, Turn!Queued,
       Adm!locals, Turn!locals
  <1>7. ASSUME NEW t \in Threads, Proceed(t)
        PROVE  \/ Adm!Admitted(t) \/ Adm!Rejected(t) \/ Adm!Exit(t)
               \/ UNCHANGED admission
    <2>1. CASE \/ Admitted(t) \/ Rejected(t)
               \/ ConnectStart(t) \/ ConnectOpen(t) \/ ConnectEx(t) \/ ConnectSelect(t)
               \/ ConnectConfigure(t) \/ ConnectAdopt(t)
      BY <2>1 DEF Admitted, Rejected, ConnectStart, ConnectOpen, ConnectEx,
         ConnectSelect, ConnectConfigure, ConnectAdopt, ConnectOSError, ConnectFails,
         Finish
    <2>2. CASE \/ ExchangeStart(t) \/ PrepareSocket(t) \/ BindSocket(t) \/ AdoptSocket(t)
               \/ CheckInput(t) \/ SendRequest(t) \/ ReceiveDatagram(t) \/ RecheckInput(t)
      BY <2>2 DEF ExchangeStart, PrepareSocket, BindSocket, AdoptSocket, CheckInput,
         SendRequest, ReceiveDatagram, RecheckInput, PrepareFails, Fails, Finish
    <2>3. CASE \/ ReceivePart(t) \/ ReceiveLine(t) \/ TakeLine(t) \/ AcceptReply(t)
               \/ DecodeReply(t) \/ NoteMonitor(t)
               \/ CloseClear(t) \/ CloseShutdown(t) \/ CloseSocket(t)
      BY <2>3 DEF ReceivePart, ReceiveLine, TakeLine, AcceptReply, DecodeReply,
         NoteMonitor, WriteBack, CloseClear, CloseShutdown, CloseSocket, Fails, Finish
    <2>4. QED
      BY <1>7, <2>1, <2>2, <2>3 DEF Proceed
  <1>8. ASSUME NEW t \in Threads, CloseInvalidate(t) PROVE Adm!Invalidate
    BY <1>8 DEF CloseInvalidate
  <1>9. ASSUME NEW t \in Threads, NEW o \in Operations, Begin(t, o) PROVE Adm!Enter(t)
    BY <1>9 DEF Begin
  <1>10. ASSUME NEW s \in Sockets, Arrive(s) \/ Answer(s) \/ HangUp(s)
         PROVE UNCHANGED admission
    BY <1>10 DEF Arrive, Answer, HangUp
  <1>11. CASE Done \/ UNCHANGED vars
    BY <1>1, <1>11 DEF Done, vars
  <1>12. QED
    BY <1>1, <1>2, <1>3, <1>4, <1>5, <1>6, <1>7, <1>8, <1>9, <1>10, <1>11
    DEF Next, Turn!Next

(* So what is proved of the admission alone is true within the client.     *)
LEMMA KeepsTheTurn == Spec => Turn!Spec
  <1>1. Init => Turn!Init
    BY DEF Init, Adm!Init, Turn!Init
  <1>2. QED
    BY <1>1, StepIsTurnStep, PTL DEF Spec, Turn!Spec

(* The client uses the turn as SyncAdmission says it may be used.          *)
THEOREM ClientKeepsTheTurn == Spec => Adm!Spec
  <1>1. Init => Adm!Init
    BY DEF Init
  <1>2. [Turn!Next]_(Turn!vars) => [Adm!Next]_(Adm!vars)
    BY DEF Adm!Next, Adm!vars, Turn!vars, Turn!Next, Adm!Step, Turn!Step,
           Adm!Enter, Turn!Enter, Adm!EnterIf, Turn!EnterIf,
           Adm!EnterNested, Turn!EnterNested, Adm!Admitted, Turn!Admitted,
           Adm!Rejected, Turn!Rejected, Adm!ExitNested, Turn!ExitNested,
           Adm!Exit, Turn!Exit, Adm!Successor, Turn!Successor,
           Adm!Invalidate, Turn!Invalidate, Adm!Queued, Turn!Queued,
           Adm!shared, Turn!shared, Adm!waiters, Turn!waiters, Adm!locals, Turn!locals
  <1>3. QED
    BY <1>1, <1>2, StepIsTurnStep, PTL DEF Spec, Adm!Spec

(* In every reachable state the turn is exact.                             *)
LEMMA AdmissionHolds == Spec => []Admission
  <1>1. Turn!Spec => []Turn!IInv
    BY Turn!Invariance, TurnAssumption DEF Turn!Invariance, Turn!BoundsAssumption
  <1>2. Turn!IInv => Admission
    BY DEF Admission, Turn!IInv, Adm!TypeOK, Turn!TypeOK, Adm!MutualExclusion,
           Turn!MutualExclusion, Adm!QueueIsExact, Turn!QueueIsExact,
           Adm!Queued, Turn!Queued, Adm!HasTurn, Turn!HasTurn
  <1>3. QED
    BY <1>1, <1>2, KeepsTheTurn, PTL
-----------------------------------------------------------------------------
(* The other calls stay as they are, and this one keeps what was asked of  *)
(* it.                                                                     *)
Keeps(t) ==
    /\ me' \in [Threads -> Calls]
    /\ \A u \in Threads \ {t} : me'[u] = me[u]
    /\ me'[t].op = me[t].op
    /\ me'[t].alters = me[t].alters /\ me'[t].taken = me[t].taken

(* A call goes on at another label, with another socket perhaps.           *)
GoesOn(t, label, s, got) ==
    /\ Keeps(t) /\ me'[t].req = me[t].req
    /\ me'[t].at = label /\ me'[t].mine = s /\ me'[t].got = got
    /\ me'[t].outcome = me[t].outcome
    /\ UNCHANGED admission
    /\ UNCHANGED <<late, requests, repeats>>

(* A call ends: everything about it but what was asked of it.              *)
Ends(t, outcome, sent) ==
    /\ Keeps(t) /\ me'[t].req = me[t].req
    /\ me'[t].at = "idle" /\ me'[t].mine = NoSocket /\ me'[t].got = NoReply
    /\ me'[t].outcome = outcome /\ me'[t].sent = sent
    /\ me'[t].retired <=> Adm!Invalidated(t)
    /\ Adm!Exit(t)
    /\ UNCHANGED <<received, late, requests, repeats>>

(* Why a call may end as it does.                                          *)
Honest(t, outcome, sent) ==
    /\ outcome \in Outcomes \ {"none"}
    /\ outcome = "unknown" => sent
    /\ outcome = "closed" =>
         \/ Adm!Invalidated(t)
         \/ Trying(t) /\ client.connecting \notin {NoSocket, me[t].mine}
    /\ sent /\ Changing(t) =>
         outcome \in {"ok", "plcError", "unknown", "ValueError", "IndexError"}
    /\ ~sent => Unsent(t) \/ Connecting(t)
    /\ outcome = "ok" =>
         \/ me[t].op = "connect"
         \/ me[t].at \in {"x_decode", "x_note"} /\ ~(me[t].op = "bit" /\ ~Changing(t))
    /\ outcome = "plcError" => me[t].at = "x_decode"

(* What becomes of the fields of the client that matter here.              *)
ClientIs(sock, connecting, udpConnected, monitor) ==
    /\ client' \in Clients /\ client'.transport = client.transport
    /\ client'.sock = sock /\ client'.connecting = connecting
    /\ client'.udpConnected = udpConnected /\ client'.monitor = monitor
ClientStays ==
    ClientIs(client.sock, client.connecting, client.udpConnected, client.monitor)

(* A call ends and touches nothing.                                        *)
Returns(t, outcome, sent) ==
    /\ me[t].at \in {"c_start", "x_start", "x_decode"}
    /\ Honest(t, outcome, sent) /\ Ends(t, outcome, sent)
    /\ ClientStays /\ UNCHANGED wire

(* A connect() ends and closes its candidate.                              *)
GivesUp(t, outcome) ==
    /\ Trying(t)
    /\ Honest(t, outcome, FALSE) /\ Ends(t, outcome, FALSE)
    /\ ClientIs(client.sock,
                IF client.connecting = me[t].mine THEN NoSocket ELSE client.connecting,
                client.udpConnected, client.monitor)
    /\ wire' = WithClosed(wire, {me[t].mine})

(* A connect() ends and closes the socket it has just created.             *)
Burns(t, outcome) ==
    /\ me[t].at = "c_open"
    /\ Honest(t, outcome, FALSE) /\ Ends(t, outcome, FALSE)
    /\ ClientStays
    /\ wire' = [wire EXCEPT ![NextSocket].state = "closed"]

(* A connect() ends with a socket, or because that was closed meanwhile.   *)
Adopts(t, outcome, connected) ==
    /\ me[t].at = "c_adopt" /\ ~Adm!Invalidated(t)
    /\ \/ outcome = "ok" /\ connected = (Transport = "udp")
       \/ /\ connected = client.udpConnected
          /\ Transport = "udp" /\ State(me[t].mine) = "closed"
    /\ Honest(t, outcome, FALSE) /\ Ends(t, outcome, FALSE)
    /\ ClientIs(me[t].mine, NoSocket, connected, client.monitor)
    /\ UNCHANGED wire

(* A request fails, and the transport it used with it.                     *)
Retires(t, outcome, sent) ==
    /\ me[t].at = "x_prepare" \/ Preparing(t) \/ InUse(t)
    /\ Honest(t, outcome, sent) /\ Ends(t, outcome, sent)
    /\ IF Transport = "udp"
         THEN ClientIs(NoSocket, client.connecting, client.udpConnected, client.monitor)
         ELSE ClientIs(NoSocket, NoSocket, FALSE, NoSocket)
    /\ wire' = WithClosed(wire, RetiredSockets \cup (IF Preparing(t) THEN {me[t].mine} ELSE {}))

(* A registration ends with metadata about its connection.                 *)
Notes(t) ==
    /\ me[t].at = "x_note"
    /\ Honest(t, "ok", TRUE) /\ Ends(t, "ok", TRUE)
    /\ ClientIs(client.sock, client.connecting, client.udpConnected, me[t].mine)
    /\ UNCHANGED wire

(* A call goes on and touches nothing but _rx_buffer.                      *)
Walks(t, label, got) ==
    /\ <<me[t].at, label>> \in
         {<<"c_start", "c_open">>, <<"c_connect", "c_select">>,
          <<"c_connect", "c_configure">>, <<"c_select", "c_configure">>,
          <<"c_configure", "c_adopt">>, <<"x_bind", "x_adopt">>,
          <<"x_recheck", "x_accept">>, <<"x_receive", "x_receive">>,
          <<"x_line", "x_accept">>, <<"x_line", "x_receive">>,
          <<"x_accept", "x_decode">>, <<"x_decode", "x_note">>}
    /\ label = "c_open" => ~Connected
    /\ label = "x_note" => me[t].op = "register"
    /\ IF me[t].at = "x_line" /\ label = "x_receive"
         THEN got = NoReply
         ELSE got.req = me[t].got.req /\ got.since = me[t].got.since
              /\ (~Holding(t) => got = me[t].got)
    /\ GoesOn(t, label, me[t].mine, got)
    /\ ClientStays /\ UNCHANGED <<wire, received>>

(* A request uses the socket the client has.                               *)
Uses(t, label) ==
    /\ \/ me[t].at = "x_start" /\ label = "x_prepare" /\ Transport = "udp"
       \/ /\ label = "x_check" /\ client.sock # NoSocket
          /\ me[t].at = IF Transport = "udp" THEN "x_prepare" ELSE "x_start"
    /\ GoesOn(t, label, client.sock, me[t].got)
    /\ ClientStays /\ UNCHANGED <<wire, received>>

(* connect() creates its candidate and registers it.                       *)
Opens(t) ==
    /\ me[t].at = "c_open" /\ client.connecting = NoSocket
    /\ GoesOn(t, "c_connect", NextSocket, me[t].got)
    /\ ClientIs(client.sock, NextSocket, client.udpConnected, client.monitor)
    /\ wire' = [wire EXCEPT ![NextSocket].state = "open"]
    /\ UNCHANGED received

(* A UDP request creates the socket of the next datagram ...               *)
Prepares(t) ==
    /\ me[t].at = "x_prepare" /\ client.sock = NoSocket /\ client.udpConnected
    /\ GoesOn(t, "x_bind", NextSocket, me[t].got)
    /\ ClientStays
    /\ wire' = [wire EXCEPT ![NextSocket].state = "open"]
    /\ UNCHANGED received

(* ... and makes it the client's, at first, and again with the response.   *)
Binds(t, label) ==
    /\ <<me[t].at, label>> \in {<<"x_adopt", "x_check">>, <<"x_accept", "x_decode">>}
    /\ Transport = "udp" /\ ~Adm!Invalidated(t)
    /\ GoesOn(t, label, me[t].mine, me[t].got)
    /\ ClientIs(me[t].mine, client.connecting, client.udpConnected, client.monitor)
    /\ UNCHANGED <<wire, received>>

(* The input check finds nothing.                                          *)
Checks(t) ==
    /\ me[t].at = "x_check" /\ wire[me[t].mine].inbox = <<>>
    /\ GoesOn(t, "x_send", me[t].mine, me[t].got)
    /\ ClientStays
    /\ wire' = [wire EXCEPT ![me[t].mine].checked = me[t].req]
    /\ UNCHANGED received

(* A request is sent, and may reach the PLC from then on.                  *)
Sends(t) ==
    /\ me[t].at = "x_send"
    /\ GoesOn(t, "x_receive", me[t].mine, me[t].got)
    /\ ClientStays
    /\ wire' = [wire EXCEPT ![me[t].mine].flight = @ \cup {me[t].req}]
    /\ UNCHANGED received

(* A request is given what came first.                                     *)
Takes(t, label, got) ==
    LET lines == wire[me[t].mine].inbox IN
    /\ me[t].at = "x_receive" /\ lines # <<>>
    /\ label = IF Transport = "udp" THEN "x_recheck" ELSE "x_line"
    /\ got.req = Head(lines).req /\ got.since = Head(lines).since
    /\ GoesOn(t, label, me[t].mine, got)
    /\ ClientStays
    /\ wire' = [wire EXCEPT ![me[t].mine].inbox = Tail(@)]
    /\ UNCHANGED received

(* The word of a bit goes back by a second request.                        *)
WritesBack(t) ==
    /\ me[t].at = "x_decode" /\ me[t].op = "bit" /\ ~Changing(t)
    /\ Keeps(t)
    /\ me'[t].at = "x_start" /\ me'[t].req = me[t].alters
    /\ me'[t].mine = NoSocket /\ me'[t].got = NoReply
    /\ me'[t].outcome = me[t].outcome
    /\ UNCHANGED admission
    /\ ClientStays /\ UNCHANGED <<wire, received, late, requests, repeats>>

(* How a call in its turn ends, and how it goes on.                        *)
Ending(t) ==
    \/ \E outcome \in Outcomes, sent \in BOOLEAN :
         Returns(t, outcome, sent) \/ Retires(t, outcome, sent)
    \/ \E outcome \in Outcomes : GivesUp(t, outcome) \/ Burns(t, outcome)
    \/ \E outcome \in Outcomes, connected \in BOOLEAN : Adopts(t, outcome, connected)
    \/ Notes(t)

Going(t) ==
    \/ \E label \in Labels, got \in Replies : Walks(t, label, got) \/ Takes(t, label, got)
    \/ \E label \in Labels : Uses(t, label) \/ Binds(t, label)
    \/ Opens(t) \/ Prepares(t) \/ Checks(t) \/ Sends(t) \/ WritesBack(t)
-----------------------------------------------------------------------------
(* A socket that is new or closed is empty, and so is no reply.            *)
LEMMA FreshFacts ==
    /\ NoReply \in Replies /\ Fresh \in Links
    /\ Fresh.state = "unused" /\ Fresh.inbox = <<>> /\ Fresh.pending = {}
    /\ Fresh.flight = {}
    /\ NoReply.req = 0 /\ NoReply.since = 0
  <1>1. NoReply \in Replies /\ <<>> \in Seq(Answers)
    BY DEF NoReply, Replies
  <1>2. Fresh \in Links
    BY <1>1 DEF Fresh, Links
  <1>3. QED
    BY <1>1, <1>2 DEF Fresh, NoReply

(* A socket that is closed is empty, but for what is under way.            *)
Emptied(flight) == [Fresh EXCEPT !.state = "closed", !.flight = flight]

(* It is one, and nothing is left in it to be read or answered.            *)
LEMMA EmptiedFacts ==
    ASSUME NEW flight \in SUBSET (1..MaxRequests)
    PROVE  /\ Emptied(flight) \in Links
           /\ Emptied(flight).state = "closed" /\ Emptied(flight).inbox = <<>>
           /\ Emptied(flight).pending = {} /\ Emptied(flight).flight = flight
  BY FreshFacts DEF Emptied, Links

(* What a call that ends leaves behind.                                    *)
LEMMA FinishFacts ==
    ASSUME Typed, NEW t \in Threads, NEW outcome \in Outcomes, NEW sent \in BOOLEAN,
           Finish(t, outcome, sent)
    PROVE  Ends(t, outcome, sent)
  <1>0. PICK retired : retired = Adm!Invalidated(t)
    OBVIOUS
  <1> DEFINE c == [me[t] EXCEPT
                     !.at = "idle", !.outcome = outcome, !.sent = sent,
                     !.mine = NoSocket, !.begun = FALSE, !.got = NoReply,
                     !.retired = retired]
  <1>1. me' = [me EXCEPT ![t] = c] /\ Adm!Exit(t)
        /\ UNCHANGED <<received, late, requests, repeats>>
    BY <1>0 DEF Finish, peer
  <1>2. retired \in BOOLEAN
    BY <1>0 DEF Adm!Invalidated
  <1>3. me[t] \in Calls /\ NoReply \in Replies
    BY FreshFacts DEF Typed
  <1>4. c \in Calls
    BY <1>2, <1>3 DEF Calls, Labels
  <1>5. /\ c.at = "idle" /\ c.op = me[t].op /\ c.mine = NoSocket
        /\ c.req = me[t].req /\ c.alters = me[t].alters /\ c.taken = me[t].taken
        /\ c.got = NoReply /\ c.outcome = outcome /\ c.sent = sent
        /\ c.retired = retired
    BY <1>3 DEF Calls
  <1> HIDE DEF c
  <1>6. QED
    BY <1>0, <1>1, <1>4, <1>5 DEF Typed, Ends, Keeps

(* What a call that goes on may change.                                    *)
Changed(t, label, s, sent, begun, got) ==
    [me EXCEPT ![t] = [me[t] EXCEPT
        !.at = label, !.mine = s, !.sent = sent, !.begun = begun, !.got = got]]

(* What is changed of a call that goes on is all that changes.             *)
LEMMA ChangedCall ==
    ASSUME Typed, NEW t \in Threads, NEW label \in Labels,
           NEW s \in Sockets \cup {NoSocket}, NEW sent \in BOOLEAN,
           NEW begun \in BOOLEAN, NEW got \in Replies,
           me' = Changed(t, label, s, sent, begun, got),
           UNCHANGED admission, UNCHANGED <<late, requests, repeats>>
    PROVE  GoesOn(t, label, s, got)
  <1> DEFINE c == [me[t] EXCEPT
                    !.at = label, !.mine = s, !.sent = sent, !.begun = begun, !.got = got]
  <1>1. me' = [me EXCEPT ![t] = c]
    BY DEF Changed
  <1>2. me[t] \in Calls
    BY DEF Typed
  <1>3. c \in Calls
    BY <1>2 DEF Calls
  <1>4. /\ c.at = label /\ c.op = me[t].op /\ c.mine = s
        /\ c.req = me[t].req /\ c.alters = me[t].alters
        /\ c.got = got /\ c.taken = me[t].taken /\ c.outcome = me[t].outcome
    BY <1>2 DEF Calls
  <1> HIDE DEF c
  <1>5. QED
    BY <1>1, <1>3, <1>4 DEF Typed, GoesOn, Keeps

(* A call and the client have their types.                                 *)
LEMMA PartTypes ==
    ASSUME Typed, NEW t \in Threads
    PROVE  /\ me[t] \in Calls /\ me \in [Threads -> Calls] /\ client \in Clients
           /\ me[t].mine \in Sockets \cup {NoSocket} /\ me[t].sent \in BOOLEAN
           /\ me[t].begun \in BOOLEAN /\ me[t].got \in Replies
           /\ me[t].at \in Labels
           /\ client.sock \in Sockets \cup {NoSocket}
           /\ client.connecting \in Sockets \cup {NoSocket}
           /\ client.transport \in {"tcp", "udp"}
           /\ TRUE \in BOOLEAN /\ FALSE \in BOOLEAN
  BY ClientAssumption DEF Typed, Calls, Clients

(* A step that leaves the client alone.                                    *)
LEMMA ClientKept == ASSUME Typed, client' = client PROVE ClientStays
  BY DEF Typed, ClientStays, ClientIs

(* A call that moves to a label and changes nothing else.                  *)
LEMMA GotoGoesOn ==
    ASSUME Typed, NEW t \in Threads, NEW label \in Labels, Goto(t, label),
           UNCHANGED admission, UNCHANGED peer
    PROVE  GoesOn(t, label, me[t].mine, me[t].got) /\ received' = received
  <1>1. me' = Changed(t, label, me[t].mine, me[t].sent, me[t].begun, me[t].got)
    BY PartTypes DEF Goto, Changed, Calls
  <1>2. QED
    BY <1>1, PartTypes, ChangedCall DEF peer

(* A call that moves to a label with a socket.                             *)
LEMMA SocketGoesOn ==
    ASSUME Typed, NEW t \in Threads, NEW label \in Labels,
           NEW s \in Sockets \cup {NoSocket},
           me' = [me EXCEPT ![t].at = label, ![t].mine = s],
           UNCHANGED admission, UNCHANGED peer
    PROVE  GoesOn(t, label, s, me[t].got) /\ received' = received
  <1>1. me' = Changed(t, label, s, me[t].sent, me[t].begun, me[t].got)
    BY PartTypes DEF Changed, Calls
  <1>2. QED
    BY <1>1, PartTypes, ChangedCall DEF peer
-----------------------------------------------------------------------------
(* A call that needs a socket finds one that was never used.               *)
LEMMA NextSocketFacts ==
    ASSUME Typed, Enough, Needing # {}
    PROVE  /\ NextSocket \in Sockets /\ State(NextSocket) = "unused"
           /\ IsFiniteSet(Unused)
  <1>1. IsFiniteSet(Sockets)
    BY FS_Interval, ClientAssumption DEF Sockets
  <1>2. IsFiniteSet(Unused)
    BY <1>1, FS_Subset DEF Unused
  <1>3. Unused # {}
    <2>1. SUFFICES ASSUME Unused = {} PROVE FALSE
      OBVIOUS
    <2>2. Cardinality(Unused) = 0
      BY <2>1, FS_EmptySet
    <2>3. Cardinality(Needing) \in Nat /\ Cardinality(Needing) # 0
      BY FS_CardinalityType, FS_EmptySet DEF Enough
    <2>4. QED
      BY <2>2, <2>3 DEF Enough
  <1>4. PICK n \in Unused : \A m \in Unused : n <= m
    <2> DEFINE R == OpToRel(<, Nat)
    <2>1. Unused \subseteq Nat
      BY DEF Unused, Sockets
    <2>2. \A x, y \in Nat : <<y, x>> \in R <=> y < x
      BY DEF OpToRel
    <2>3. IsWellFoundedOn(R, Nat)
      BY NatLessThanWellFounded, Zenon
    <2> HIDE DEF R
    <2>4. PICK n \in Unused : \A m \in Unused : ~ (<<m, n>> \in R)
      BY <1>3, <2>1, <2>3, WFMin
    <2>5. \A m \in Unused : n \in Nat /\ m \in Nat /\ ~(m < n)
      BY <2>1, <2>2, <2>4
    <2>6. QED
      BY <2>5
  <1>5. NextSocket \in Unused
    BY <1>4 DEF NextSocket
  <1>6. QED
    BY <1>2, <1>5 DEF Unused, State

(* Whoever is about to create a socket is among those.                     *)
LEMMA CreatingFacts ==
    ASSUME Typed, Control, Enough, NEW t \in Threads,
           \/ me[t].at = "c_open"
           \/ me[t].at = "x_prepare" /\ client.sock = NoSocket /\ client.udpConnected
    PROVE  /\ t \in Needing
           /\ NextSocket \in Sockets /\ State(NextSocket) = "unused"
           /\ IsFiniteSet(Unused)
  <1>1. CallIsExact(t)
    BY DEF Control
  <1>2. t \in Needing
    <2>1. CASE me[t].at = "c_open"
      BY <1>1, <2>1 DEF CallIsExact, Connecting, Needing, Creates
    <2>2. CASE me[t].at = "x_prepare" /\ client.sock = NoSocket /\ client.udpConnected
      BY <1>1, <2>2 DEF CallIsExact, Needing, Creates, Enough
    <2>3. QED
      BY <2>1, <2>2
  <1>3. QED
    BY <1>2, NextSocketFacts
-----------------------------------------------------------------------------
(* Every action of a call in its turn is one of the moves.  First those of *)
(* connect().                                                              *)
LEMMA ConnectStartMoves ==
    ASSUME Typed, Control, NEW t \in Threads, ConnectStart(t)
    PROVE  Ending(t) \/ Going(t)
  <1>1. me[t].at = "c_start" /\ ClientStays /\ wire' = wire /\ me[t].op = "connect"
    BY ClientKept DEF ConnectStart, At, Control, CallIsExact, Connecting
  <1>2. CASE Connected
    <2>1. Honest(t, "ok", FALSE)
      BY <1>1 DEF Honest, Outcomes, Connecting
    <2>2. "ok" \in Outcomes /\ FALSE \in BOOLEAN /\ Finish(t, "ok", FALSE)
      BY <1>2 DEF ConnectStart, Outcomes
    <2>3. Returns(t, "ok", FALSE)
      BY <1>1, <2>1, <2>2, FinishFacts DEF Returns
    <2>4. QED
      BY <2>2, <2>3 DEF Ending
  <1>3. CASE ~Connected
    <2>1. Goto(t, "c_open") /\ UNCHANGED admission /\ UNCHANGED peer /\ "c_open" \in Labels
      BY <1>3 DEF ConnectStart, Labels
    <2>2. GoesOn(t, "c_open", me[t].mine, me[t].got) /\ received' = received
      BY <2>1, GotoGoesOn
    <2>3. Walks(t, "c_open", me[t].got)
      BY <1>1, <1>3, <2>2 DEF Walks
    <2>4. QED
      BY <2>1, <2>3, PartTypes DEF Going
  <1>4. QED
    BY <1>2, <1>3

(* A candidate that is given up.                                           *)
LEMMA ConnectFailsMoves ==
    ASSUME Typed, NEW t \in Threads,
           NEW outcome \in {"timeout", "closed", "transport", "ValueError"},
           Trying(t), ConnectFails(t, outcome),
           outcome = "closed" => \/ Adm!Invalidated(t)
                                 \/ client.connecting \notin {NoSocket, me[t].mine}
    PROVE  Ending(t)
  <1>1. outcome \in Outcomes \ {"none"} /\ outcome \notin {"ok", "plcError", "unknown"}
    BY DEF Outcomes
  <1>2. Honest(t, outcome, FALSE)
    BY <1>1 DEF Honest, Connecting
  <1>3. Ends(t, outcome, FALSE)
    BY <1>1, FinishFacts DEF ConnectFails
  <1>4. client \in Clients /\ NoSocket \in Sockets \cup {NoSocket}
    BY DEF Typed
  <1>5. ClientIs(client.sock,
                 IF client.connecting = me[t].mine THEN NoSocket ELSE client.connecting,
                 client.udpConnected, client.monitor)
    <2>1. CASE client.connecting = me[t].mine
      <3>1. client' = [client EXCEPT !.connecting = NoSocket]
        BY <2>1 DEF ConnectFails
      <3>2. QED
        BY <1>4, <2>1, <3>1 DEF Clients, ClientIs
    <2>2. CASE client.connecting # me[t].mine
      <3>1. client' = client
        BY <2>2 DEF ConnectFails
      <3>2. QED
        BY <1>4, <2>2, <3>1 DEF ClientIs
    <2>3. QED
      BY <2>1, <2>2
  <1>6. GivesUp(t, outcome)
    BY <1>2, <1>3, <1>5 DEF GivesUp, ConnectFails
  <1>7. QED
    BY <1>1, <1>6 DEF Ending

(* A connect that meets an OSError gives its call up, with its socket      *)
(* closed.                                                                 *)
LEMMA ConnectOSErrorMoves ==
    ASSUME Typed, NEW t \in Threads, Trying(t), ConnectOSError(t)
    PROVE  Ending(t)
  <1>1. PICK outcome \in {"timeout", "closed", "transport", "ValueError"} :
          outcome = IF Adm!Invalidated(t) THEN "closed" ELSE "transport"
    OBVIOUS
  <1>2. ConnectFails(t, outcome) /\ (outcome = "closed" => Adm!Invalidated(t))
    BY <1>1 DEF ConnectOSError
  <1>3. QED
    BY <1>2, ConnectFailsMoves

(* A step of a call that only moves to a label.                            *)
LEMMA GotoMoves ==
    ASSUME Typed, NEW t \in Threads, NEW label \in Labels, Goto(t, label),
           UNCHANGED admission, UNCHANGED peer, client' = client, wire' = wire,
           <<me[t].at, label>> \in
             {<<"c_connect", "c_select">>,
              <<"c_connect", "c_configure">>, <<"c_select", "c_configure">>,
              <<"c_configure", "c_adopt">>, <<"x_bind", "x_adopt">>,
              <<"x_recheck", "x_accept">>,
              <<"x_accept", "x_decode">>, <<"x_decode", "x_note">>},
           label = "x_note" => me[t].op = "register"
    PROVE  Going(t)
  <1>1. GoesOn(t, label, me[t].mine, me[t].got) /\ received' = received
    BY GotoGoesOn
  <1>2. label # "c_open" /\ label # "x_receive" /\ ClientStays
    BY ClientKept
  <1>3. Walks(t, label, me[t].got)
    BY <1>1, <1>2 DEF Walks
  <1>4. QED
    BY <1>3, PartTypes DEF Going
(* socket() gives the connecting call a new socket, or the call ends.      *)
LEMMA ConnectOpenMoves ==
    ASSUME Typed, Control, Enough, NEW t \in Threads, ConnectOpen(t)
    PROVE  Ending(t) \/ Going(t)
  <1>1. me[t].at = "c_open" /\ me[t].op = "connect"
    BY DEF ConnectOpen, At, Control, CallIsExact, Connecting
  <1>2. NextSocket \in Sockets
    BY <1>1, CreatingFacts
  <1>3. ASSUME NEW outcome \in {"closed", "transport"},
               outcome = "closed" => Adm!Invalidated(t),
               wire' = [wire EXCEPT ![NextSocket].state = "closed"],
               Finish(t, outcome, FALSE), client' = client
        PROVE  Ending(t)
    <2>1. outcome \in Outcomes \ {"none"} /\ outcome \notin {"ok", "plcError", "unknown"}
      BY <1>3 DEF Outcomes
    <2>2. Honest(t, outcome, FALSE)
      BY <1>1, <1>3, <2>1 DEF Honest, Connecting
    <2>3. Ends(t, outcome, FALSE)
      BY <1>3, <2>1, FinishFacts
    <2>4. Burns(t, outcome)
      BY <1>1, <1>3, <2>2, <2>3, ClientKept DEF Burns
    <2>5. QED
      BY <2>1, <2>4 DEF Ending
  <1>4. CASE Adm!Invalidated(t)
    BY <1>3, <1>4 DEF ConnectOpen
  <1>5. CASE ~Adm!Invalidated(t) /\ client.connecting # NoSocket
    BY <1>3, <1>5 DEF ConnectOpen
  <1>6. CASE ~Adm!Invalidated(t) /\ client.connecting = NoSocket
    <2>1. PICK s \in Sockets \cup {NoSocket} : s = NextSocket
      BY <1>2
    <2>2. /\ wire' = [wire EXCEPT ![s].state = "open"]
          /\ client' = [client EXCEPT !.connecting = s]
          /\ me' = [me EXCEPT ![t].at = "c_connect", ![t].mine = s]
          /\ UNCHANGED admission /\ UNCHANGED peer
      BY <1>6, <2>1 DEF ConnectOpen
    <2>3. PICK label \in Labels : label = "c_connect"
      BY DEF Labels
    <2>4. GoesOn(t, label, s, me[t].got) /\ received' = received
      BY <2>2, <2>3, SocketGoesOn
    <2>5. ClientIs(client.sock, s, client.udpConnected, client.monitor)
      BY <2>2 DEF Typed, Clients, ClientIs
    <2>6. Opens(t)
      BY <1>1, <1>6, <2>1, <2>2, <2>3, <2>4, <2>5 DEF Opens
    <2>7. QED
      BY <2>6 DEF Going
  <1>7. QED
    BY <1>4, <1>5, <1>6

(* connect_ex() leads to the next step of the connect, or ends the call.   *)
LEMMA ConnectExMoves ==
    ASSUME Typed, NEW t \in Threads, ConnectEx(t)
    PROVE  Ending(t) \/ Going(t)
  <1>1. me[t].at = "c_connect" /\ Trying(t)
    BY DEF ConnectEx, At, Trying
  <1>2. CASE ConnectOSError(t)
    BY <1>1, <1>2, ConnectOSErrorMoves
  <1>3. ASSUME NEW label \in {"c_configure", "c_select"}, Goto(t, label),
               UNCHANGED <<admission, client, wire, peer>>
        PROVE  Going(t)
    <2>1. label \in Labels /\ label # "x_note"
      BY DEF Labels
    <2>2. QED
      BY <1>1, <1>3, <2>1, GotoMoves
  <1>4. QED
    BY <1>2, <1>3 DEF ConnectEx

(* The select() of a connect leads to the next step, or ends the call.     *)
LEMMA ConnectSelectMoves ==
    ASSUME Typed, NEW t \in Threads, ConnectSelect(t)
    PROVE  Ending(t) \/ Going(t)
  <1>1. me[t].at = "c_select" /\ Trying(t)
    BY DEF ConnectSelect, At, Trying
  <1>2. CASE ConnectOSError(t)
    BY <1>1, <1>2, ConnectOSErrorMoves
  <1>3. ASSUME NEW outcome \in {"timeout", "ValueError"}, ConnectFails(t, outcome)
        PROVE  Ending(t)
    BY <1>1, <1>3, ConnectFailsMoves
  <1>4. CASE Goto(t, "c_configure") /\ UNCHANGED <<admission, client, wire, peer>>
    <2>1. PICK label \in Labels : label = "c_configure"
      BY DEF Labels
    <2>2. QED
      BY <1>1, <1>4, <2>1, GotoMoves
  <1>5. QED
    BY <1>2, <1>3, <1>4 DEF ConnectSelect

(* Setting the options of a socket leads to its adoption, or ends the      *)
(* call.                                                                   *)
LEMMA ConnectConfigureMoves ==
    ASSUME Typed, NEW t \in Threads, ConnectConfigure(t)
    PROVE  Ending(t) \/ Going(t)
  <1>1. me[t].at = "c_configure" /\ Trying(t)
    BY DEF ConnectConfigure, At, Trying
  <1>2. CASE ConnectOSError(t)
    BY <1>1, <1>2, ConnectOSErrorMoves
  <1>3. CASE Goto(t, "c_adopt") /\ UNCHANGED <<admission, client, wire, peer>>
    <2>1. PICK label \in Labels : label = "c_adopt"
      BY DEF Labels
    <2>2. QED
      BY <1>1, <1>3, <2>1, GotoMoves
  <1>4. QED
    BY <1>2, <1>3 DEF ConnectConfigure

(* The last step of a connect ends the call: adopted, or given up.         *)
LEMMA ConnectAdoptMoves ==
    ASSUME Typed, Control, NEW t \in Threads, ConnectAdopt(t)
    PROVE  Ending(t)
  <1>1. me[t].at = "c_adopt" /\ Trying(t) /\ me[t].op = "connect"
    BY DEF ConnectAdopt, At, Trying, Control, CallIsExact, Connecting
  <1>2. CASE /\ Adm!Invalidated(t) \/ client.connecting \notin {NoSocket, me[t].mine}
             /\ ConnectFails(t, "closed")
    BY <1>1, <1>2, ConnectFailsMoves
  <1>3. CASE ConnectFails(t, "timeout")
    BY <1>1, <1>3, ConnectFailsMoves
  <1>4. PICK s \in Sockets \cup {NoSocket} : s = me[t].mine
    BY PartTypes
  <1>5. ASSUME NEW outcome \in {"ok", "transport"}, NEW connected \in BOOLEAN,
               \/ outcome = "ok" /\ connected = (Transport = "udp")
               \/ /\ connected = client.udpConnected
                  /\ Transport = "udp" /\ State(s) = "closed",
               ~Adm!Invalidated(t), UNCHANGED wire, Finish(t, outcome, FALSE),
               ClientIs(s, NoSocket, connected, client.monitor)
        PROVE  Ending(t)
    <2>1. outcome \in Outcomes \ {"none"} /\ outcome \notin {"plcError", "unknown", "closed"}
      BY <1>5 DEF Outcomes
    <2>2. Honest(t, outcome, FALSE)
      BY <1>1, <1>5, <2>1 DEF Honest, Connecting
    <2>3. Ends(t, outcome, FALSE)
      BY <1>5, <2>1, FinishFacts
    <2>4. Adopts(t, outcome, connected)
      BY <1>1, <1>4, <1>5, <2>2, <2>3 DEF Adopts
    <2>5. QED
      BY <2>1, <2>4 DEF Ending
  <1>6. CASE /\ ~Adm!Invalidated(t) /\ UNCHANGED wire
             /\ Transport = "udp" /\ State(s) = "closed"
             /\ client' = [client EXCEPT !.sock = s, !.connecting = NoSocket,
                                         !.rxData = FALSE]
             /\ Finish(t, "transport", FALSE)
    <2>1. ClientIs(s, NoSocket, client.udpConnected, client.monitor)
          /\ client.udpConnected \in BOOLEAN
      BY <1>6 DEF Typed, Clients, ClientIs
    <2>2. QED
      BY <1>5, <1>6, <2>1
  <1>7. CASE /\ ~Adm!Invalidated(t) /\ UNCHANGED wire
             /\ client' = [client EXCEPT !.sock = s, !.connecting = NoSocket,
                             !.rxData = FALSE, !.udpConnected = (Transport = "udp")]
             /\ Finish(t, "ok", FALSE)
    <2>1. PICK connected \in BOOLEAN : connected = (Transport = "udp")
      OBVIOUS
    <2>2. client' = [client EXCEPT !.sock = s, !.connecting = NoSocket,
                             !.rxData = FALSE, !.udpConnected = connected]
      BY <1>7, <2>1
    <2>3. ClientIs(s, NoSocket, connected, client.monitor)
      BY <2>2 DEF Typed, Clients, ClientIs
    <2>4. QED
      BY <1>5, <1>7, <2>1, <2>3
  <1>8. QED
    <2>1. [ [client EXCEPT !.sock = s, !.connecting = NoSocket, !.rxData = FALSE]
              EXCEPT !.udpConnected = (Transport = "udp")] =
          [client EXCEPT !.sock = s, !.connecting = NoSocket,
                             !.rxData = FALSE, !.udpConnected = (Transport = "udp")]
      BY DEF Typed, Clients
    <2>2. QED
      BY <1>2, <1>3, <1>4, <1>6, <1>7, <2>1 DEF ConnectAdopt
-----------------------------------------------------------------------------
(* Those of a request.  What _retire_failed_transport() leaves.            *)
LEMMA RetiredFacts ==
    ASSUME Typed, client' = Retired
    PROVE  IF Transport = "udp"
             THEN ClientIs(NoSocket, client.connecting, client.udpConnected, client.monitor)
             ELSE ClientIs(NoSocket, NoSocket, FALSE, NoSocket)
  <1>1. client \in Clients /\ NoSocket \in Sockets \cup {NoSocket}
    BY DEF Typed
  <1>2. CASE Transport = "udp"
    BY <1>1, <1>2 DEF Retired, ClientIs, Clients
  <1>3. CASE Transport # "udp"
    <2>1. client' = Disconnected(client.transport) /\ client.transport \in Transports
      BY <1>1, <1>3 DEF Retired, Transport, Clients
    <2>2. ClientIs(NoSocket, NoSocket, FALSE, NoSocket)
      BY <1>1, <2>1 DEF Disconnected, ClientIs, Clients
    <2>3. QED
      BY <1>3, <2>2
  <1>4. QED
    BY <1>2, <1>3

Errors == {"protocol", "transport", "timeout", "closed", "notConnected",
           "ValueError", "TypeError", "IndexError"}

(* What _exchange raises instead of an error.                              *)
LEMMA ClassifiedFacts ==
    ASSUME NEW t \in Threads, NEW sent \in BOOLEAN, NEW error \in Errors,
           error = "closed" => Adm!Invalidated(t),
           error = "TypeError" => ~sent,
           sent => InUse(t), ~sent => Unsent(t)
    PROVE  Honest(t, Classified(t, error, sent), sent)
  <1>1. PICK outcome : outcome = Classified(t, error, sent)
    OBVIOUS
  <1>2. \/ outcome = error
        \/ outcome = "unknown" /\ Changing(t) /\ sent
        \/ outcome = "closed" /\ Adm!Invalidated(t)
    BY <1>1 DEF Classified
  <1>3. sent /\ Changing(t) => outcome \in {"unknown", "ValueError", "IndexError"}
    <2>1. CASE error \in {"ValueError", "TypeError", "IndexError"}
      BY <1>1, <2>1 DEF Classified
    <2>2. CASE error \notin {"ValueError", "TypeError", "IndexError"} /\ Changing(t) /\ sent
      BY <1>1, <2>2 DEF Classified
    <2>3. QED
      BY <2>1, <2>2
  <1>4. outcome \in Outcomes \ {"none"} /\ outcome \notin {"ok", "plcError"}
    BY <1>2 DEF Outcomes, Errors
  <1>5. /\ outcome = "unknown" => sent
        /\ outcome = "closed" => Adm!Invalidated(t)
    BY <1>2 DEF Errors
  <1>6. Honest(t, outcome, sent)
    BY <1>3, <1>4, <1>5 DEF Honest
  <1>7. QED
    BY <1>1, <1>6

(* A request that fails retires what it used.                              *)
LEMMA FailsMoves ==
    ASSUME Typed, NEW t \in Threads, NEW sent \in BOOLEAN, NEW error \in Errors,
           me[t].at = "x_prepare" \/ InUse(t),
           error = "closed" => Adm!Invalidated(t),
           error = "TypeError" => ~sent,
           sent => InUse(t), ~sent => Unsent(t),
           Fails(t, error, sent)
    PROVE  Ending(t)
  <1>1. PICK outcome : outcome = Classified(t, error, sent)
    OBVIOUS
  <1>2. Honest(t, outcome, sent)
    BY <1>1, ClassifiedFacts
  <1>3. outcome \in Outcomes
    BY <1>2 DEF Honest
  <1>4. Ends(t, outcome, sent)
    BY <1>1, <1>3, FinishFacts DEF Fails
  <1>5. ~Preparing(t)
    BY DEF Preparing, InUse, Sending
  <1>6. RetiredSockets \cup {} = RetiredSockets
    OBVIOUS
  <1>7. Retires(t, outcome, sent)
    BY <1>2, <1>4, <1>5, <1>6, RetiredFacts DEF Retires, Fails
  <1>8. QED
    BY <1>3, <1>7 DEF Ending

(* A UDP socket that cannot be prepared is closed and its call ends.       *)
LEMMA PrepareFailsMoves ==
    ASSUME Typed, NEW t \in Threads, NEW error \in {"TypeError", "timeout", "transport", "closed"},
           Preparing(t), error = "closed" => Adm!Invalidated(t),
           PrepareFails(t, error)
    PROVE  Ending(t)
  <1>1. PICK outcome : outcome = Classified(t, error, FALSE)
    OBVIOUS
  <1>2. Honest(t, outcome, FALSE)
    BY <1>1, ClassifiedFacts DEF Errors, Unsent, Preparing
  <1>3. outcome \in Outcomes
    BY <1>2 DEF Honest
  <1>4. Ends(t, outcome, FALSE)
    BY <1>1, <1>3, FinishFacts DEF PrepareFails
  <1>5. Retires(t, outcome, FALSE)
    BY <1>2, <1>4, RetiredFacts DEF Retires, PrepareFails
  <1>6. QED
    BY <1>3, <1>5 DEF Ending

(* A request starts with the socket there is, prepares one, or ends its    *)
(* call.                                                                   *)
LEMMA ExchangeStartMoves ==
    ASSUME Typed, Control, NEW t \in Threads, ExchangeStart(t)
    PROVE  Ending(t) \/ Going(t)
  <1>1. me[t].at = "x_start" /\ ClientStays /\ wire' = wire
        /\ client.sock \in Sockets \cup {NoSocket} /\ Transport \in {"tcp", "udp"}
    BY ClientKept, PartTypes DEF ExchangeStart, At, Transport
  <1>2. CASE ~Connected
    <2>1. Honest(t, "notConnected", FALSE)
      BY <1>1 DEF Honest, Outcomes, Unsent
    <2>2. "notConnected" \in Outcomes /\ FALSE \in BOOLEAN /\ Finish(t, "notConnected", FALSE)
      BY <1>2 DEF ExchangeStart, Outcomes
    <2>3. Returns(t, "notConnected", FALSE)
      BY <1>1, <2>1, <2>2, FinishFacts DEF Returns
    <2>4. QED
      BY <2>2, <2>3 DEF Ending
  <1>3. CASE Connected
    <2>1. PICK label \in Labels, s \in Sockets \cup {NoSocket} :
            s = client.sock /\ label = IF Transport = "udp" THEN "x_prepare" ELSE "x_check"
      BY <1>1 DEF Labels
    <2>2. me' = [me EXCEPT ![t].at = label, ![t].mine = s]
          /\ UNCHANGED admission /\ UNCHANGED peer
      BY <1>3, <2>1 DEF ExchangeStart
    <2>3. GoesOn(t, label, s, me[t].got) /\ received' = received
      BY <2>2, SocketGoesOn
    <2>4. Transport # "udp" => client.sock # NoSocket
      BY <1>1, <1>3 DEF Connected, Control
    <2>5. Uses(t, label)
      BY <1>1, <2>1, <2>3, <2>4 DEF Uses
    <2>6. QED
      BY <2>5 DEF Going
  <1>4. QED
    BY <1>2, <1>3

(* The UDP socket of a request is created, or there is one, or the call    *)
(* ends.                                                                   *)
LEMMA PrepareSocketMoves ==
    ASSUME Typed, Control, Enough, NEW t \in Threads, PrepareSocket(t)
    PROVE  Ending(t) \/ Going(t)
  <1>1. me[t].at = "x_prepare" /\ Transport = "udp"
        /\ client.sock \in Sockets \cup {NoSocket}
    BY PartTypes DEF PrepareSocket, At, Control, CallIsExact
  <1>2. CASE client.sock # NoSocket
    <2>1. PICK label \in Labels, s \in Sockets \cup {NoSocket} :
            s = client.sock /\ label = "x_check"
      BY <1>1 DEF Labels
    <2>2. me' = [me EXCEPT ![t].at = label, ![t].mine = s]
          /\ UNCHANGED <<admission, client, wire, peer>>
      BY <1>2, <2>1 DEF PrepareSocket
    <2>3. GoesOn(t, label, s, me[t].got) /\ received' = received
      BY <2>2, SocketGoesOn
    <2>4. Uses(t, label)
      BY <1>1, <1>2, <2>1, <2>2, <2>3, ClientKept DEF Uses
    <2>5. QED
      BY <2>4 DEF Going
  <1>3. CASE client.sock = NoSocket /\ ~client.udpConnected
    <2>1. PICK sent \in BOOLEAN, error \in Errors : sent = FALSE /\ error = "notConnected"
      BY DEF Errors
    <2>2. Fails(t, error, sent)
      BY <1>3, <2>1 DEF PrepareSocket
    <2>3. QED
      BY <1>1, <2>1, <2>2, FailsMoves DEF Unsent
  <1>4. CASE client.sock = NoSocket /\ client.udpConnected
    <2>1. NextSocket \in Sockets
      BY <1>1, <1>4, CreatingFacts
    <2>2. PICK label \in Labels, s \in Sockets \cup {NoSocket} :
            s = NextSocket /\ label = "x_bind"
      BY <2>1 DEF Labels
    <2>3. /\ me' = [me EXCEPT ![t].at = label, ![t].mine = s]
          /\ UNCHANGED admission /\ UNCHANGED peer /\ client' = client
          /\ wire' = [wire EXCEPT ![NextSocket].state = "open"]
      BY <1>4, <2>2 DEF PrepareSocket
    <2>4. GoesOn(t, label, s, me[t].got) /\ received' = received
      BY <2>3, SocketGoesOn
    <2>5. Prepares(t)
      BY <1>1, <1>4, <2>2, <2>3, <2>4, ClientKept DEF Prepares
    <2>6. QED
      BY <2>5 DEF Going
  <1>5. QED
    BY <1>2, <1>3, <1>4
(* Connecting the UDP socket to its peer leads to its adoption, or ends    *)
(* the call.                                                               *)
LEMMA BindSocketMoves ==
    ASSUME Typed, NEW t \in Threads, BindSocket(t)
    PROVE  Ending(t) \/ Going(t)
  <1>1. me[t].at = "x_bind" /\ Preparing(t)
    BY DEF BindSocket, At, Preparing
  <1>2. ASSUME NEW error \in {"TypeError", "timeout", "transport"}, PrepareFails(t, error)
        PROVE  Ending(t)
    BY <1>1, <1>2, PrepareFailsMoves
  <1>3. CASE Goto(t, "x_adopt") /\ UNCHANGED <<admission, client, wire, peer>>
    <2>1. PICK label \in Labels : label = "x_adopt"
      BY DEF Labels
    <2>2. QED
      BY <1>1, <1>3, <2>1, GotoMoves
  <1>4. QED
    BY <1>2, <1>3 DEF BindSocket

(* A socket that becomes the client's.                                     *)
LEMMA BindsMoves ==
    ASSUME Typed, NEW t \in Threads, NEW label \in Labels,
           <<me[t].at, label>> \in {<<"x_adopt", "x_check">>, <<"x_accept", "x_decode">>},
           Transport = "udp", ~Adm!Invalidated(t), Goto(t, label),
           UNCHANGED admission, UNCHANGED peer, wire' = wire,
           client' = [client EXCEPT !.sock = me[t].mine]
    PROVE  Going(t)
  <1>1. GoesOn(t, label, me[t].mine, me[t].got) /\ received' = received
    BY GotoGoesOn
  <1>2. ClientIs(me[t].mine, client.connecting, client.udpConnected, client.monitor)
    <2>1. client \in Clients /\ me[t].mine \in Sockets \cup {NoSocket}
      BY PartTypes
    <2>2. QED
      BY <2>1 DEF Clients, ClientIs
  <1>3. Binds(t, label)
    BY <1>1, <1>2 DEF Binds
  <1>4. QED
    BY <1>3 DEF Going

(* Adopting the UDP socket leads to the exchange, or ends the call.        *)
LEMMA AdoptSocketMoves ==
    ASSUME Typed, Control, NEW t \in Threads, AdoptSocket(t)
    PROVE  Ending(t) \/ Going(t)
  <1>1. me[t].at = "x_adopt" /\ Preparing(t) /\ Transport = "udp"
    BY DEF AdoptSocket, At, Preparing, Control, CallIsExact
  <1>2. CASE Adm!Invalidated(t)
    <2>1. PICK error \in {"TypeError", "timeout", "transport", "closed"} : error = "closed"
      OBVIOUS
    <2>2. PrepareFails(t, error)
      BY <1>2, <2>1 DEF AdoptSocket
    <2>3. QED
      BY <1>1, <1>2, <2>2, PrepareFailsMoves
  <1>3. CASE ~Adm!Invalidated(t)
    <2>1. PICK label \in Labels : label = "x_check"
      BY DEF Labels
    <2>2. /\ client' = [client EXCEPT !.sock = me[t].mine]
          /\ Goto(t, label) /\ UNCHANGED <<admission, wire, peer>>
      BY <1>3, <2>1 DEF AdoptSocket
    <2>3. QED
      BY <1>1, <1>3, <2>1, <2>2, BindsMoves
  <1>4. QED
    BY <1>2, <1>3

(* What the input check may raise.                                         *)
LEMMA InputErrorsFacts ==
    ASSUME Typed, NEW s \in Sockets
    PROVE  /\ InputErrors(s) \subseteq {"protocol", "ValueError", "transport"}
           /\ InputErrors(s) = {} => wire[s].inbox = <<>>
  <1>1. QED
    BY DEF InputErrors

(* Looking for stale input leads to the send, or retires the connection.   *)
LEMMA CheckInputMoves ==
    ASSUME Typed, Control, NEW t \in Threads, CheckInput(t)
    PROVE  Ending(t) \/ Going(t)
  <1>1. me[t].at = "x_check" /\ InUse(t) /\ Unsent(t)
    BY DEF CheckInput, At, InUse, Sending, Unsent
  <1>2. PICK s \in Sockets : s = me[t].mine
    BY <1>1 DEF Control, CallIsExact
  <1>3. ASSUME NEW e \in InputErrors(s), Fails(t, e, FALSE) PROVE Ending(t)
    <2>1. PICK sent \in BOOLEAN, error \in Errors : sent = FALSE /\ error = e
          /\ error \notin {"closed", "TypeError"}
      BY InputErrorsFacts DEF Errors
    <2>2. Fails(t, error, sent)
      BY <1>3, <2>1
    <2>3. QED
      BY <1>1, <2>1, <2>2, FailsMoves
  <1>4. CASE /\ InputErrors(s) = {}
             /\ wire' = [wire EXCEPT ![s].checked = me[t].req]
             /\ Goto(t, "x_send")
             /\ UNCHANGED <<admission, client, peer>>
    <2>1. PICK label \in Labels : label = "x_send"
      BY DEF Labels
    <2>2. Goto(t, label)
      BY <1>4, <2>1
    <2>3. GoesOn(t, label, me[t].mine, me[t].got) /\ received' = received
      BY <1>4, <2>2, GotoGoesOn
    <2>4. Checks(t)
      BY <1>1, <1>2, <1>4, <2>1, <2>3, ClientKept, InputErrorsFacts DEF Checks
    <2>5. QED
      BY <2>4 DEF Going
  <1>5. QED
    BY <1>2, <1>3, <1>4 DEF CheckInput

(* The send leads to the receive, or retires the connection.               *)
LEMMA SendRequestMoves ==
    ASSUME Typed, NEW t \in Threads, SendRequest(t)
    PROVE  Ending(t) \/ Going(t)
  <1>1. me[t].at = "x_send" /\ InUse(t) /\ Unsent(t)
    BY DEF SendRequest, At, InUse, Sending, Unsent
  <1>2. ASSUME NEW sent \in BOOLEAN, NEW error \in {"timeout", "transport"},
               Fails(t, error, sent)
        PROVE  Ending(t)
    BY <1>1, <1>2, FailsMoves DEF Errors
  <1>3. CASE /\ wire' = [wire EXCEPT ![me[t].mine].flight = @ \cup {me[t].req}]
             /\ me' = [me EXCEPT ![t].at = "x_receive", ![t].sent = TRUE]
             /\ UNCHANGED <<admission, client, peer>>
    <2>1. PICK label \in Labels : label = "x_receive"
      BY DEF Labels
    <2>2. me' = Changed(t, label, me[t].mine, TRUE, me[t].begun, me[t].got)
      BY <1>3, <2>1, PartTypes DEF Changed, Calls
    <2>3. GoesOn(t, label, me[t].mine, me[t].got) /\ received' = received
      BY <1>3, <2>2, PartTypes, ChangedCall DEF peer
    <2>4. Sends(t)
      BY <1>1, <1>3, <2>1, <2>3, ClientKept DEF Sends
    <2>5. QED
      BY <2>4 DEF Going
  <1>4. QED
    <2>1. CASE Fails(t, "timeout", FALSE)
      BY <1>2, <2>1
    <2>2. CASE Fails(t, "transport", FALSE)
      BY <1>2, <2>2
    <2>3. CASE \E error \in {"timeout", "transport"} : Fails(t, error, TRUE)
      BY <1>2, <2>3
    <2>4. QED
      BY <1>3, <2>1, <2>2, <2>3 DEF SendRequest
(* What has arrived is a reply.                                            *)
LEMMA HeadFacts ==
    ASSUME Typed, NEW s \in Sockets, wire[s].inbox # <<>>
    PROVE  /\ wire[s].inbox \in Seq(Answers) /\ Len(wire[s].inbox) \in Nat
           /\ Len(wire[s].inbox) > 0 /\ Head(wire[s].inbox) = wire[s].inbox[1]
           /\ Head(wire[s].inbox) \in Answers /\ Head(wire[s].inbox) \in Replies
  <1>1. PICK lines : lines = wire[s].inbox
    OBVIOUS
  <1>2. lines \in Seq(Answers) /\ lines # <<>>
    BY <1>1 DEF Typed, Links
  <1>3. Len(lines) \in Nat /\ Len(lines) > 0 /\ Head(lines) = lines[1]
        /\ Head(lines) \in Answers
    BY <1>2
  <1>4. \A r \in Answers : r \in Replies
    BY DEF Answers, Replies
  <1>5. QED
    BY <1>1, <1>2, <1>3, <1>4

(* A call that is given an answer.                                         *)
LEMMA TakesMoves ==
    ASSUME Typed, Control, NEW t \in Threads, NEW got \in Replies,
           NEW label \in {"x_recheck", "x_line"},
           me[t].at = "x_receive", wire[me[t].mine].inbox # <<>>,
           label = IF Transport = "udp" THEN "x_recheck" ELSE "x_line",
           got.req = Head(wire[me[t].mine].inbox).req,
           got.since = Head(wire[me[t].mine].inbox).since,
           me' = [me EXCEPT ![t].at = label, ![t].got = got],
           wire' = [wire EXCEPT ![me[t].mine].inbox = Tail(@)],
           ClientStays, UNCHANGED <<admission, peer>>
    PROVE  Going(t)
  <1>1. me' = Changed(t, label, me[t].mine, me[t].sent, me[t].begun, got)
    BY PartTypes DEF Changed, Calls
  <1>2. label \in Labels
    BY DEF Labels
  <1>3. GoesOn(t, label, me[t].mine, got) /\ received' = received
    BY <1>1, <1>2, PartTypes, ChangedCall DEF peer
  <1>4. Takes(t, label, got)
    BY <1>3 DEF Takes
  <1>5. QED
    BY <1>2, <1>4 DEF Going

(* A request that fails while it waits.                                    *)
LEMMA WaitFailsMoves ==
    ASSUME Typed, NEW t \in Threads, InUse(t), ~Unsent(t),
           NEW error \in {"protocol", "transport", "timeout", "ValueError", "IndexError"},
           Fails(t, error, TRUE)
    PROVE  Ending(t)
  <1>1. PICK sent \in BOOLEAN, e \in Errors : sent = TRUE /\ e = error
        /\ e \notin {"closed", "TypeError"}
    BY DEF Errors
  <1>2. Fails(t, e, sent)
    BY <1>1
  <1>3. QED
    BY <1>1, <1>2, FailsMoves

(* recv() of a datagram takes one answer, or retires the connection.       *)
LEMMA ReceiveDatagramMoves ==
    ASSUME Typed, Control, NEW t \in Threads, ReceiveDatagram(t)
    PROVE  Ending(t) \/ Going(t)
  <1>1. me[t].at = "x_receive" /\ Transport = "udp" /\ InUse(t) /\ ~Unsent(t)
    BY DEF ReceiveDatagram, At, InUse, Sending, Unsent
  <1>2. PICK s \in Sockets : s = me[t].mine
    BY <1>1 DEF Control, CallIsExact
  <1>3. ASSUME NEW error \in {"timeout", "transport", "protocol"}, Fails(t, error, TRUE)
        PROVE  Ending(t)
    BY <1>1, <1>3, WaitFailsMoves
  <1>4. CASE /\ wire[s].inbox # <<>>
             /\ wire' = [wire EXCEPT ![s].inbox = Tail(@)]
             /\ me' = [me EXCEPT ![t].at = "x_recheck", ![t].got = Head(wire[s].inbox)]
             /\ UNCHANGED <<admission, client, peer>>
    <2>1. PICK got \in Replies, label \in {"x_recheck", "x_line"} :
            got = Head(wire[s].inbox) /\ label = "x_recheck"
      BY <1>4, HeadFacts
    <2>2. me' = [me EXCEPT ![t].at = label, ![t].got = got]
      BY <1>4, <2>1
    <2>3. wire[me[t].mine].inbox # <<>>
          /\ wire' = [wire EXCEPT ![me[t].mine].inbox = Tail(@)]
          /\ got.req = Head(wire[me[t].mine].inbox).req
          /\ got.since = Head(wire[me[t].mine].inbox).since
          /\ label = (IF Transport = "udp" THEN "x_recheck" ELSE "x_line")
          /\ ClientStays /\ UNCHANGED <<admission, peer>>
      BY <1>1, <1>2, <1>4, <2>1, ClientKept
    <2>4. QED
      BY <1>1, <2>2, <2>3, TakesMoves
  <1>5. QED
    BY <1>2, <1>3, <1>4 DEF ReceiveDatagram

(* The second look for input leads to the answer, or retires the           *)
(* connection.                                                             *)
LEMMA RecheckInputMoves ==
    ASSUME Typed, Control, NEW t \in Threads, RecheckInput(t)
    PROVE  Ending(t) \/ Going(t)
  <1>1. me[t].at = "x_recheck" /\ InUse(t) /\ ~Unsent(t)
    BY DEF RecheckInput, At, InUse, Sending, Unsent
  <1>2. PICK s \in Sockets : s = me[t].mine
    BY <1>1 DEF Control, CallIsExact
  <1>3. ASSUME NEW e \in InputErrors(s), Fails(t, e, TRUE) PROVE Ending(t)
    <2>1. e \in {"protocol", "ValueError", "transport"}
      BY InputErrorsFacts
    <2>2. QED
      BY <1>1, <1>3, <2>1, WaitFailsMoves
  <1>4. CASE Goto(t, "x_accept") /\ UNCHANGED <<admission, client, wire, peer>>
    <2>1. PICK label \in Labels : label = "x_accept"
      BY DEF Labels
    <2>2. QED
      BY <1>1, <1>4, <2>1, GotoMoves
  <1>5. QED
    BY <1>2, <1>3, <1>4 DEF RecheckInput

(* _rx_buffer is no field that matters here.                               *)
LEMMA BufferStays ==
    ASSUME Typed, NEW b \in BOOLEAN, client' = [client EXCEPT !.rxData = b]
    PROVE  ClientStays
  BY DEF Typed, Clients, ClientStays, ClientIs

(* A part of a line makes the stream hold data, and no more.               *)
LEMMA ReceivePartMoves ==
    ASSUME Typed, NEW t \in Threads, ReceivePart(t)
    PROVE  Going(t)
  <1>1. /\ me[t].at = "x_receive"
        /\ client' = [client EXCEPT !.rxData = TRUE]
        /\ me' = [me EXCEPT ![t].begun = TRUE]
        /\ UNCHANGED <<admission, wire, peer>>
    BY DEF ReceivePart, At
  <1>2. PICK label \in Labels : label = "x_receive"
    BY DEF Labels
  <1>3. me' = Changed(t, label, me[t].mine, me[t].sent, TRUE, me[t].got)
    <2>1. [me[t] EXCEPT !.begun = TRUE] =
          [me[t] EXCEPT !.at = label, !.mine = me[t].mine,
                        !.sent = me[t].sent, !.begun = TRUE, !.got = me[t].got]
      BY <1>1, <1>2, PartTypes DEF Calls
    <2>2. QED
      BY <1>1, <2>1 DEF Changed
  <1>4. GoesOn(t, label, me[t].mine, me[t].got)
    BY <1>1, <1>3, PartTypes, ChangedCall DEF peer
  <1>5. Walks(t, label, me[t].got)
    BY <1>1, <1>2, <1>4, BufferStays DEF Walks, peer
  <1>6. QED
    BY <1>5, PartTypes DEF Going

(* recv() of a line takes one answer, or retires the connection.           *)
LEMMA ReceiveLineMoves ==
    ASSUME Typed, Control, NEW t \in Threads, ReceiveLine(t)
    PROVE  Ending(t) \/ Going(t)
  <1>1. me[t].at = "x_receive" /\ Transport = "tcp" /\ InUse(t) /\ ~Unsent(t)
    BY DEF ReceiveLine, At, InUse, Sending, Unsent
  <1>2. PICK s \in Sockets : s = me[t].mine
    BY <1>1 DEF Control, CallIsExact
  <1>3. ASSUME NEW error \in {"timeout", "transport"}, Fails(t, error, TRUE)
        PROVE  Ending(t)
    BY <1>1, <1>3, WaitFailsMoves
  <1>4. ASSUME wire[s].inbox # <<>>, NEW got \in Replies,
               got.req = Head(wire[s].inbox).req, got.since = Head(wire[s].inbox).since,
               me' = [me EXCEPT ![t].at = "x_line", ![t].got = got],
               wire' = [wire EXCEPT ![s].inbox = Tail(@)],
               client' = [client EXCEPT !.rxData = TRUE],
               UNCHANGED <<admission, peer>>
        PROVE  Going(t)
    <2>1. PICK label \in {"x_recheck", "x_line"} : label = "x_line"
      OBVIOUS
    <2>2. me' = [me EXCEPT ![t].at = label, ![t].got = got]
      BY <1>4, <2>1
    <2>3. wire[me[t].mine].inbox # <<>>
          /\ wire' = [wire EXCEPT ![me[t].mine].inbox = Tail(@)]
          /\ got.req = Head(wire[me[t].mine].inbox).req
          /\ got.since = Head(wire[me[t].mine].inbox).since
          /\ label = (IF Transport = "udp" THEN "x_recheck" ELSE "x_line")
          /\ ClientStays /\ UNCHANGED <<admission, peer>>
      BY <1>1, <1>2, <1>4, <2>1, BufferStays
    <2>4. QED
      BY <1>1, <2>2, <2>3, TakesMoves
  <1>5. ASSUME wire[s].inbox # <<>>
        PROVE  \A got \in Torn(t, Head(wire[s].inbox))
                          \cup {Head(wire[s].inbox), [Head(wire[s].inbox) EXCEPT !.kind = "framing"]} :
                 /\ got \in Replies
                 /\ got.req = Head(wire[s].inbox).req
                 /\ got.since = Head(wire[s].inbox).since
    <2>1. PICK h \in Answers : h = Head(wire[s].inbox) /\ h \in Replies
      BY <1>5, HeadFacts
    <2>2. ASSUME NEW kind \in {"decoding", "ok"}
          PROVE  /\ [h EXCEPT !.whole = FALSE, !.kind = kind] \in Replies
                 /\ [h EXCEPT !.whole = FALSE, !.kind = kind].req = h.req
                 /\ [h EXCEPT !.whole = FALSE, !.kind = kind].since = h.since
      BY DEF Answers, Replies, Kinds
    <2>3. \A got \in Torn(t, h) : got \in Replies /\ got.req = h.req /\ got.since = h.since
      BY <2>2 DEF Torn
    <2>4. [h EXCEPT !.kind = "framing"] \in Replies
          /\ [h EXCEPT !.kind = "framing"].req = h.req
          /\ [h EXCEPT !.kind = "framing"].since = h.since
      BY DEF Answers, Replies, Kinds
    <2>5. QED
      BY <2>1, <2>3, <2>4
  <1>6. \/ \E error \in {"timeout", "transport"} : Fails(t, error, TRUE)
        \/ /\ wire[s].inbox # <<>>
           /\ \E got \in Torn(t, Head(wire[s].inbox))
                         \cup {Head(wire[s].inbox), [Head(wire[s].inbox) EXCEPT !.kind = "framing"]} :
                me' = [me EXCEPT ![t].at = "x_line", ![t].got = got]
           /\ wire' = [wire EXCEPT ![s].inbox = Tail(@)]
           /\ client' = [client EXCEPT !.rxData = TRUE]
           /\ UNCHANGED <<admission, peer>>
    BY <1>2 DEF ReceiveLine
  <1>7. QED
    BY <1>3, <1>4, <1>5, <1>6
(* A line that is taken is the answer, or the connection is retired.       *)
LEMMA TakeLineMoves ==
    ASSUME Typed, Control, NEW t \in Threads, TakeLine(t)
    PROVE  Ending(t) \/ Going(t)
  <1>1. me[t].at = "x_line" /\ InUse(t) /\ ~Unsent(t) /\ Holding(t)
    BY DEF TakeLine, At, InUse, Unsent, Holding
  <1>2. ASSUME NEW error \in {"protocol", "IndexError"}, Fails(t, error, TRUE)
        PROVE  Ending(t)
    BY <1>1, <1>2, WaitFailsMoves
  <1>3. ASSUME NEW label \in {"x_accept", "x_receive"}, NEW got \in Replies,
               NEW begun \in BOOLEAN, NEW b \in BOOLEAN,
               IF label = "x_receive" THEN got = NoReply
                 ELSE got.req = me[t].got.req /\ got.since = me[t].got.since,
               me' = Changed(t, label, me[t].mine, me[t].sent, begun, got),
               client' = [client EXCEPT !.rxData = b],
               UNCHANGED <<admission, wire, peer>>
        PROVE  Going(t)
    <2>1. label \in Labels
      BY DEF Labels
    <2>2. GoesOn(t, label, me[t].mine, got)
      BY <1>3, <2>1, PartTypes, ChangedCall DEF peer
    <2>3. Walks(t, label, got)
      BY <1>1, <1>3, <2>2, BufferStays DEF Walks, peer
    <2>4. QED
      BY <2>1, <2>3 DEF Going
  <1>4. CASE client' = [client EXCEPT !.rxData = FALSE] /\ Goto(t, "x_accept")
             /\ UNCHANGED <<admission, wire, peer>>
    <2>1. me' = Changed(t, "x_accept", me[t].mine, me[t].sent, me[t].begun, me[t].got)
      BY <1>4, PartTypes DEF Goto, Changed, Calls
    <2>2. QED
      BY <1>3, <1>4, <2>1, PartTypes
  <1>5. CASE UNCHANGED <<admission, client, wire, peer>>
             /\ \/ me' = [me EXCEPT ![t].at = "x_receive", ![t].begun = FALSE,
                                 ![t].got = NoReply]
                \/ me' = [me EXCEPT ![t].at = "x_accept",
                       ![t].got = [@ EXCEPT !.whole = FALSE, !.kind = "decoding"]]
    <2>1. client' = [client EXCEPT !.rxData = client.rxData] /\ client.rxData \in BOOLEAN
      BY <1>5 DEF Typed, Clients
    <2>2. CASE me' = [me EXCEPT ![t].at = "x_receive", ![t].begun = FALSE,
                                 ![t].got = NoReply]
      <3>1. me' = Changed(t, "x_receive", me[t].mine, me[t].sent, FALSE, NoReply)
        BY <2>2, PartTypes DEF Changed, Calls
      <3>2. QED
        BY <1>3, <1>5, <2>1, <3>1, FreshFacts
    <2>3. CASE me' = [me EXCEPT ![t].at = "x_accept",
                       ![t].got = [@ EXCEPT !.whole = FALSE, !.kind = "decoding"]]
      <3>1. PICK got : got = [me[t].got EXCEPT !.whole = FALSE, !.kind = "decoding"]
        OBVIOUS
      <3>2. got \in Replies /\ got.req = me[t].got.req /\ got.since = me[t].got.since
        BY <3>1, PartTypes DEF Replies, Kinds
      <3>3. me' = Changed(t, "x_accept", me[t].mine, me[t].sent, me[t].begun, got)
        BY <2>3, <3>1, PartTypes DEF Changed, Calls
      <3>4. QED
        BY <1>3, <1>5, <2>1, <3>2, <3>3, PartTypes
    <2>4. QED
      BY <1>5, <2>2, <2>3
  <1>6. QED
    BY <1>2, <1>4, <1>5 DEF TakeLine

(* The check of the reply leads on, or retires the connection.             *)
LEMMA AcceptReplyMoves ==
    ASSUME Typed, NEW t \in Threads, AcceptReply(t)
    PROVE  Ending(t) \/ Going(t)
  <1>1. me[t].at = "x_accept" /\ InUse(t) /\ ~Unsent(t)
    BY DEF AcceptReply, At, InUse, Sending, Unsent
  <1>2. CASE Adm!Invalidated(t)
    <2>1. PICK sent \in BOOLEAN, error \in Errors : sent = TRUE /\ error = "closed"
      BY DEF Errors
    <2>2. Fails(t, error, sent)
      BY <1>2, <2>1 DEF AcceptReply
    <2>3. QED
      BY <1>1, <1>2, <2>1, <2>2, FailsMoves
  <1>3. CASE ~Adm!Invalidated(t)
    <2>1. PICK label \in Labels : label = "x_decode"
      BY DEF Labels
    <2>2. Goto(t, label) /\ UNCHANGED <<admission, wire, peer>>
      BY <1>3, <2>1 DEF AcceptReply
    <2>3. CASE Transport = "udp"
      <3>1. client' = [client EXCEPT !.sock = me[t].mine]
        BY <1>3, <2>3 DEF AcceptReply
      <3>2. QED
        BY <1>1, <1>3, <2>1, <2>2, <2>3, <3>1, BindsMoves
    <2>4. CASE Transport # "udp"
      <3>1. client' = client
        BY <1>3, <2>4 DEF AcceptReply
      <3>2. QED
        BY <1>1, <2>1, <2>2, <3>1, GotoMoves
    <2>5. QED
      BY <2>3, <2>4
  <1>4. QED
    BY <1>2, <1>3

(* Decoding ends the call, writes the bit back, or goes on to the monitor. *)
LEMMA DecodeReplyMoves ==
    ASSUME Typed, NEW t \in Threads, DecodeReply(t)
    PROVE  Ending(t) \/ Going(t)
  <1>1. me[t].at = "x_decode" /\ InUse(t) /\ ~Unsent(t)
    BY DEF DecodeReply, At, InUse, Sending, Unsent
  <1>2. ASSUME NEW error \in {"timeout", "protocol"}, Fails(t, error, TRUE)
        PROVE  Ending(t)
    BY <1>1, <1>2, WaitFailsMoves
  <1>3. ASSUME NEW outcome \in {"ok", "plcError"}, Finish(t, outcome, TRUE),
               UNCHANGED <<client, wire>>,
               outcome = "ok" => ~(me[t].op = "bit" /\ ~Changing(t))
        PROVE  Ending(t)
    <2>1. outcome \in Outcomes \ {"none"} /\ outcome \notin {"unknown", "closed"}
      BY DEF Outcomes
    <2>2. Honest(t, outcome, TRUE)
      BY <1>1, <1>3, <2>1 DEF Honest
    <2>3. Ends(t, outcome, TRUE)
      BY <1>3, <2>1, FinishFacts
    <2>4. Returns(t, outcome, TRUE)
      BY <1>1, <1>3, <2>2, <2>3, ClientKept DEF Returns
    <2>5. QED
      BY <2>1, <2>4 DEF Ending
  <1>4. CASE me[t].op = "register" /\ Goto(t, "x_note") /\ UNCHANGED <<admission, peer>>
             /\ UNCHANGED <<client, wire>>
    <2>1. PICK label \in Labels : label = "x_note"
      BY DEF Labels
    <2>2. QED
      BY <1>1, <1>4, <2>1, GotoMoves
  <1>5. CASE me[t].op = "bit" /\ ~Changing(t) /\ WriteBack(t) /\ UNCHANGED <<client, wire>>
    <2> DEFINE c == [me[t] EXCEPT
                      !.at = "x_start", !.req = me[t].alters, !.sent = FALSE,
                      !.mine = NoSocket, !.begun = FALSE, !.got = NoReply]
    <2>1. me' = [me EXCEPT ![t] = c] /\ UNCHANGED <<admission, peer>>
      BY <1>5 DEF WriteBack
    <2>2. me[t] \in Calls
      BY PartTypes
    <2>3. c \in Calls
      BY <2>2, FreshFacts DEF Calls, Labels
    <2>4. /\ c.at = "x_start" /\ c.op = me[t].op /\ c.mine = NoSocket
          /\ c.req = me[t].alters /\ c.alters = me[t].alters /\ c.taken = me[t].taken
          /\ c.got = NoReply /\ c.outcome = me[t].outcome
      BY <2>2 DEF Calls
    <2> HIDE DEF c
    <2>5. Keeps(t) /\ me'[t] = c
      BY <2>1, <2>3, <2>4, PartTypes DEF Keeps
    <2>6. WritesBack(t)
      BY <1>1, <1>5, <2>1, <2>4, <2>5, ClientKept DEF WritesBack, peer
    <2>7. QED
      BY <2>6 DEF Going
  <1>6. QED
    BY <1>2, <1>3, <1>4, <1>5 DEF DecodeReply

(* Noting the monitor registration ends the call.                          *)
LEMMA NoteMonitorMoves ==
    ASSUME Typed, Control, NEW t \in Threads, NoteMonitor(t)
    PROVE  Ending(t)
  <1>1. me[t].at = "x_note" /\ me[t].op = "register" /\ wire' = wire
    BY DEF NoteMonitor, At, Control, CallIsExact
  <1>2. "ok" \in Outcomes \ {"none"}
    BY DEF Outcomes
  <1>3. Honest(t, "ok", TRUE)
    BY <1>1, <1>2 DEF Honest
  <1>4. Ends(t, "ok", TRUE)
    BY <1>2, FinishFacts DEF NoteMonitor
  <1>5. ClientIs(client.sock, client.connecting, client.udpConnected, me[t].mine)
    BY PartTypes DEF NoteMonitor, Clients, ClientIs
  <1>6. Notes(t)
    BY <1>1, <1>3, <1>4, <1>5 DEF Notes
  <1>7. QED
    BY <1>6 DEF Ending

(* What a call in its turn does is one of the moves.                       *)
LEMMA ProceedMoves ==
    ASSUME Typed, Control, Enough, NEW t \in Threads, Proceed(t)
    PROVE  \/ Ending(t) \/ Going(t)
           \/ Admitted(t) \/ Rejected(t)
           \/ CloseClear(t) \/ CloseShutdown(t) \/ CloseSocket(t)
  BY ConnectStartMoves, ConnectOpenMoves, ConnectExMoves, ConnectSelectMoves,
     ConnectConfigureMoves, ConnectAdoptMoves, ExchangeStartMoves, PrepareSocketMoves,
     BindSocketMoves, AdoptSocketMoves, CheckInputMoves, SendRequestMoves,
     ReceiveDatagramMoves, RecheckInputMoves, ReceivePartMoves, ReceiveLineMoves,
     TakeLineMoves, AcceptReplyMoves, DecodeReplyMoves, NoteMonitorMoves
  DEF Proceed
-----------------------------------------------------------------------------
(* One call at a time is in its turn, and has no socket to close.          *)
LEMMA InTurnFacts ==
    ASSUME Admission, Typed, Control, NEW t \in Threads, InTurn(t)
    PROVE  /\ pc[t] = "inside" /\ me[t].taken = {}
           /\ \A u \in Threads : InTurn(u) => u = t
  <1>1. \A u \in Threads : pc[u] \in {"outside", "waiting", "inside"} /\ CallIsExact(u)
    BY DEF Admission, Adm!TypeOK, Control
  <1>2. \A u \in Threads : InTurn(u) => pc[u] = "inside"
    BY <1>1 DEF CallIsExact, InTurn
  <1>3. \A u \in Threads : InTurn(u) => u = t
    BY <1>2 DEF Admission, Adm!MutualExclusion, Adm!HasTurn
  <1>4. me[t].taken = {}
    BY <1>1 DEF CallIsExact, InTurn, Closing
  <1>5. QED
    BY <1>2, <1>3, <1>4

(* A call that uses the network has the number of a request.               *)
LEMMA RequestFacts ==
    ASSUME Typed, Control, NEW t \in Threads, Requesting(t)
    PROVE  /\ me[t].req \in 1..requests /\ me[t].req \in 1..MaxRequests
           /\ me[t].req # 0 /\ me[t].req \in Nat
           /\ me[t].op \in {"read", "write", "register", "bit"}
  <1>1. CallIsExact(t) /\ NumbersAreOwn(t) /\ me[t] \in Calls
    BY DEF Control, Typed
  <1>2. Cost(me[t].op) > 0 /\ me[t].op \in AllOperations \cup {"none"}
    BY <1>1 DEF CallIsExact, Calls
  <1>3. me[t].op # "none"
    BY <1>1 DEF CallIsExact, Requesting, Preparing, InUse, Sending
  <1>4. me[t].op \in {"read", "write", "register", "bit"}
    BY <1>2, <1>3 DEF Cost, AllOperations
  <1>5. requests \in 0..MaxRequests /\ MaxRequests \in Nat /\ me[t].req \in Nat
        /\ me[t].alters \in Nat
    BY <1>1, ClientAssumption DEF Typed, Calls
  <1>6. me[t].req \in 1..requests
    BY <1>1, <1>4, <1>5 DEF NumbersAreOwn
  <1>7. QED
    BY <1>4, <1>5, <1>6

(* Sockets that are closed are empty; no other changes.                    *)
LEMMA ClosedFacts ==
    ASSUME Typed, NEW S, wire' = WithClosed(wire, S)
    PROVE  /\ wire' \in [Sockets -> Links]
           /\ \A s \in Sockets \ S : wire'[s] = wire[s]
           /\ \A s \in Sockets : State(s) = "unused" => wire'[s] = wire[s]
           /\ \A s \in Sockets : s \in S /\ State(s) # "unused" =>
                wire'[s] = Emptied(wire[s].flight)
           /\ \A s \in Sockets : wire'[s].flight = wire[s].flight
           /\ \A s \in Sockets : State(s)' = "unused" <=> State(s) = "unused"
           /\ \A s \in Sockets : s \in S => State(s)' \in {"unused", "closed"}
  <1>1. /\ wire' \in [Sockets -> Links]
        /\ \A s \in Sockets \ S : wire'[s] = wire[s]
        /\ \A s \in Sockets : State(s) = "unused" => wire'[s] = wire[s]
        /\ \A s \in Sockets : s \in S /\ State(s) # "unused" =>
             wire'[s] = Emptied(wire[s].flight)
    <2>1. \A s \in Sockets :
            wire'[s] = IF s \in S /\ State(s) # "unused"
                         THEN Emptied(wire[s].flight) ELSE wire[s]
      BY DEF WithClosed, State, Emptied
    <2>2. wire' = [s \in Sockets |-> wire'[s]]
      BY DEF WithClosed
    <2>3. \A s \in Sockets :
            wire[s] \in Links /\ wire[s].flight \in SUBSET (1..MaxRequests)
      BY DEF Typed, Links
    <2>4. \A s \in Sockets : Emptied(wire[s].flight) \in Links
      BY <2>3, EmptiedFacts
    <2>5. \A s \in Sockets : wire'[s] \in Links
      BY <2>1, <2>3, <2>4
    <2>6. wire' \in [Sockets -> Links]
      BY <2>2, <2>5
    <2>7. QED
      BY <2>1, <2>6
  <1>2. \A s \in Sockets : wire[s].flight \in SUBSET (1..MaxRequests)
    BY DEF Typed, Links
  <1>3. \A s \in Sockets : s \in S /\ State(s) # "unused" =>
          wire'[s].state = "closed" /\ wire'[s].flight = wire[s].flight
    BY <1>1, <1>2, EmptiedFacts
  <1>4. QED
    BY <1>1, <1>3 DEF State

(* A change of one field of a socket.                                      *)
LEMMA StateFacts ==
    ASSUME Typed, NEW s \in Sockets, NEW state \in {"open", "shut", "closed"},
           wire' = [wire EXCEPT ![s].state = state]
    PROVE  /\ wire' \in [Sockets -> Links]
           /\ \A u \in Sockets \ {s} : wire'[u] = wire[u]
           /\ wire'[s].state = state /\ wire'[s].inbox = wire[s].inbox
           /\ wire'[s].pending = wire[s].pending /\ wire'[s].checked = wire[s].checked
           /\ wire'[s].eof = wire[s].eof /\ wire'[s].flight = wire[s].flight
  <1>1. PICK w \in Links : w = wire[s]
    BY DEF Typed
  <1>2. PICK v : v = [w EXCEPT !.state = state]
    OBVIOUS
  <1>3. v \in Links /\ v.state = state /\ v.inbox = w.inbox /\ v.eof = w.eof
        /\ v.pending = w.pending /\ v.checked = w.checked /\ v.flight = w.flight
    BY <1>2 DEF Links
  <1>4. wire' = [wire EXCEPT ![s] = v]
    BY <1>1, <1>2
  <1>5. QED
    BY <1>1, <1>3, <1>4 DEF Typed

(* Any other change of one socket.                                         *)
LEMMA LinkFacts ==
    ASSUME Typed, NEW s \in Sockets, NEW v \in Links, wire' = [wire EXCEPT ![s] = v]
    PROVE  /\ wire' \in [Sockets -> Links] /\ wire'[s] = v
           /\ \A u \in Sockets \ {s} : wire'[u] = wire[u]
  BY DEF Typed
-----------------------------------------------------------------------------
(* The second layer: types, labels and numbers of the calls, and sockets.  *)
(* There are sockets enough when no call needs one that did not.           *)
LEMMA NeedingShrinks ==
    ASSUME IsFiniteSet(Needing), Cardinality(Unused) >= Cardinality(Needing),
           Needing' \subseteq Needing, Unused' = Unused
    PROVE  IsFiniteSet(Needing') /\ Cardinality(Unused') >= Cardinality(Needing')
  <1>1. IsFiniteSet(Needing') /\ Cardinality(Needing') <= Cardinality(Needing)
    BY FS_Subset
  <1>2. Cardinality(Needing) \in Nat /\ Cardinality(Needing') \in Nat
    BY <1>1, FS_CardinalityType
  <1>3. IsFiniteSet(Unused) /\ Cardinality(Unused) \in Nat
    <2>1. IsFiniteSet(Sockets)
      BY FS_Interval, ClientAssumption DEF Sockets
    <2>2. QED
      BY <2>1, FS_Subset, FS_CardinalityType DEF Unused
  <1>4. QED
    BY <1>1, <1>2, <1>3

(* So there are when a call that needs one takes one.                      *)
LEMMA NeedingTakes ==
    ASSUME IsFiniteSet(Needing), Cardinality(Unused) >= Cardinality(Needing),
           IsFiniteSet(Unused), NEW t \in Needing, NEW s \in Unused,
           Needing' \subseteq Needing \ {t}, Unused' = Unused \ {s}
    PROVE  IsFiniteSet(Needing') /\ Cardinality(Unused') >= Cardinality(Needing')
  <1>1. /\ IsFiniteSet(Needing \ {t}) /\ IsFiniteSet(Unused \ {s})
        /\ Cardinality(Needing \ {t}) = Cardinality(Needing) - 1
        /\ Cardinality(Unused \ {s}) = Cardinality(Unused) - 1
    BY FS_RemoveElement
  <1>2. IsFiniteSet(Needing') /\ Cardinality(Needing') <= Cardinality(Needing \ {t})
    BY <1>1, FS_Subset
  <1>3. Cardinality(Unused') = Cardinality(Unused \ {s})
    OBVIOUS
  <1>4. Cardinality(Needing) \in Nat /\ Cardinality(Needing') \in Nat
        /\ Cardinality(Unused) \in Nat /\ Cardinality(Needing \ {t}) \in Nat
    BY <1>1, <1>2, FS_CardinalityType
  <1>5. QED
    BY <1>1, <1>2, <1>3, <1>4
(* A call that does nothing stays exact.                                   *)
LEMMA OthersControl ==
    ASSUME Typed, Control, NEW u \in Threads, me'[u] = me[u], pc'[u] = pc[u],
           generation \in Nat, generation' \in Nat, generation' >= generation,
           requests' \in Nat, requests' >= requests,
           client'.transport = client.transport
    PROVE  CallIsExact(u)' /\ NumbersAreOwn(u)'
  <1>1. CallIsExact(u) /\ NumbersAreOwn(u) /\ requests \in Nat
    BY ClientAssumption DEF Control, Typed
  <1>2. me[u].req \in Nat /\ me[u].alters \in Nat
    BY DEF Typed, Calls
  <1>3. CallIsExact(u)'
    BY <1>1 DEF CallIsExact, Closing, Trying, Preparing, InUse, Sending, Connecting,
       Requesting, Transport
  <1>4. NumbersAreOwn(u)'
    <2>1. \A n \in Nat : n \in 1..requests => n \in 1..requests'
      BY <1>1
    <2>2. \A n \in Nat : n \in 2..requests => n \in 2..requests'
      BY <1>1
    <2>3. QED
      BY <1>1, <1>2, <2>1, <2>2 DEF NumbersAreOwn
  <1>5. QED
    BY <1>3, <1>4

(* The labels of a call in its turn, and what each of them asks for.       *)
Onward(t, label, s) ==
    /\ label \in Labels \ {"idle", "enter", "k_clear", "k_shutdown", "k_close"}
    /\ label \in {"c_start", "c_open", "c_connect", "c_select", "c_configure", "c_adopt"} =>
         me[t].op = "connect"
    /\ label \in {"x_start", "x_prepare", "x_bind", "x_adopt", "x_check", "x_send",
                  "x_receive", "x_line", "x_recheck", "x_accept", "x_decode", "x_note"} =>
         Cost(me[t].op) > 0
    /\ label = "x_note" => me[t].op = "register"
    /\ label \in {"x_prepare", "x_recheck", "x_bind", "x_adopt"} => Transport = "udp"
    /\ label = "x_line" => Transport = "tcp"
    /\ label \notin {"c_start", "c_open", "x_start", "x_prepare"} => s \in Sockets

(* A call that goes on stays exact, and so do the others.                  *)
LEMMA OnwardControl ==
    ASSUME Admission, Typed, Control, NEW t \in Threads, InTurn(t),
           NEW label, NEW s, Onward(t, label, s), Keeps(t),
           me'[t].at = label, me'[t].mine = s, me'[t].outcome = me[t].outcome,
           me'[t].req = me[t].req \/ (me[t].op = "bit" /\ me'[t].req = me[t].alters),
           UNCHANGED admission, requests' = requests,
           client'.transport = client.transport
    PROVE  \A u \in Threads : CallIsExact(u)' /\ NumbersAreOwn(u)'
  <1>1. /\ UNCHANGED <<pc, generation>> /\ generation \in Nat
        /\ requests \in Nat /\ CallIsExact(t) /\ NumbersAreOwn(t)
    BY ClientAssumption DEF admission, Admission, Adm!TypeOK, Typed, Control
  <1>2. ASSUME NEW u \in Threads \ {t} PROVE CallIsExact(u)' /\ NumbersAreOwn(u)'
    <2>1. /\ me'[u] = me[u] /\ pc'[u] = pc[u] /\ generation' \in Nat
          /\ generation' >= generation /\ requests' \in Nat /\ requests' >= requests
      BY <1>1 DEF Keeps
    <2>2. QED
      BY <1>1, <2>1, OthersControl
  <1>3. CallIsExact(t)'
    <2>1. /\ me[t].taken = {} /\ pc[t] = "inside" /\ pc'[t] = "inside"
          /\ me[t].outcome = "none" /\ me[t].op \notin {"close", "none"}
      BY <1>1, InTurnFacts DEF CallIsExact, InTurn
    <2>2. /\ me'[t].taken = {} /\ me'[t].op = me[t].op /\ me'[t].outcome = "none"
      BY <2>1 DEF Keeps
    <2>3. me'[t].at \notin {"idle", "enter", "k_clear", "k_shutdown", "k_close"}
      BY DEF Onward
    <2>4. CallIsExact(t)' =
            LET c == me'[t] IN
            /\ c.at = "enter" <=> pc'[t] = "waiting"
            /\ c.at = "idle" \/ Closing(t)' <=> pc'[t] = "outside"
            /\ c.taken # {} => c.at \in {"k_shutdown", "k_close"}
            /\ Closing(t)' <=> c.op = "close" /\ c.at # "idle"
            /\ Closing(t)' => generation' > 0
            /\ c.at # "idle" => c.op # "none"
            /\ Connecting(t)' => c.op = "connect"
            /\ Requesting(t)' => Cost(c.op) > 0
            /\ c.at = "x_note" => c.op = "register"
            /\ c.at \in {"x_prepare", "x_recheck"} \/ Preparing(t)' => client'.transport = "udp"
            /\ c.at = "x_line" => client'.transport = "tcp"
            /\ c.at = "enter" /\ c.op = "bit" => c.req # c.alters
            /\ c.at # "idle" => c.outcome = "none"
            /\ Trying(t)' \/ Preparing(t)' \/ InUse(t)' => c.mine \in Sockets
      BY DEF CallIsExact, Transport
    <2>5. QED
      BY <2>1, <2>2, <2>3, <2>4 DEF Onward, Closing, Connecting, Requesting, Preparing,
         Trying, InUse, Sending, Transport
  <1>4. NumbersAreOwn(t)'
    BY <1>1 DEF NumbersAreOwn, Keeps
  <1>5. QED
    BY <1>2, <1>3, <1>4

(* When a call ends the turn passes on, and the others stay exact.         *)
LEMMA EndsControl ==
    ASSUME Admission, Typed, Control, NEW t \in Threads, InTurn(t),
           NEW outcome, NEW sent, Ends(t, outcome, sent),
           client'.transport = client.transport
    PROVE  \A u \in Threads : CallIsExact(u)' /\ NumbersAreOwn(u)'
  <1>1. /\ pc' = [pc EXCEPT ![t] = "outside"] /\ generation' = generation
        /\ pc \in [Threads -> {"outside", "waiting", "inside"}]
        /\ generation \in Nat /\ requests \in Nat /\ requests' = requests
        /\ CallIsExact(t) /\ NumbersAreOwn(t)
    BY ClientAssumption DEF Ends, Admission, Adm!TypeOK, Adm!Exit, Typed, Control
  <1>2. ASSUME NEW u \in Threads \ {t} PROVE CallIsExact(u)' /\ NumbersAreOwn(u)'
    <2>1. /\ me'[u] = me[u] /\ pc'[u] = pc[u] /\ generation' \in Nat
          /\ generation' >= generation /\ requests' \in Nat /\ requests' >= requests
      BY <1>1 DEF Keeps, Ends
    <2>2. QED
      BY <1>1, <2>1, OthersControl
  <1>3. CallIsExact(t)'
    <2>1. /\ me'[t].at = "idle" /\ me'[t].taken = {} /\ pc'[t] = "outside"
      BY <1>1, InTurnFacts DEF Ends, Keeps
    <2>2. QED
      BY <2>1 DEF CallIsExact, Closing, Connecting, Requesting, Preparing, Trying,
         InUse, Sending
  <1>4. NumbersAreOwn(t)'
    BY <1>1 DEF NumbersAreOwn, Keeps, Ends
  <1>5. QED
    BY <1>2, <1>3, <1>4

(* The label a call of a move has.                                         *)
LEMMA EndingInTurn ==
    ASSUME NEW t \in Threads, Ending(t) PROVE InTurn(t)
  BY DEF Ending, Returns, Retires, GivesUp, Burns, Adopts, Notes, InTurn, Closing,
     Preparing, InUse, Sending, Trying

(* A call that goes on has the turn before the step and after it.          *)
LEMMA GoingInTurn ==
    ASSUME NEW t \in Threads, Going(t) PROVE InTurn(t)
  BY DEF Going, Walks, Takes, Uses, Binds, Opens, Prepares, Checks, Sends, WritesBack,
     InTurn, Closing
(* A call that goes on is where such a call may be.                        *)
LEMMA GoingOnward ==
    ASSUME Admission, Typed, Control, Enough, NEW t \in Threads, Going(t)
    PROVE  /\ Keeps(t) /\ me'[t].outcome = me[t].outcome
           /\ Onward(t, me'[t].at, me'[t].mine)
           /\ me'[t].req = me[t].req \/ (me[t].op = "bit" /\ me'[t].req = me[t].alters)
           /\ UNCHANGED admission /\ UNCHANGED <<late, requests, repeats>>
           /\ client' \in Clients /\ client'.transport = client.transport
  <1>1. CallIsExact(t) /\ Transport \in {"tcp", "udp"}
        /\ client.sock \in Sockets \cup {NoSocket} /\ me[t].at \in Labels
    BY PartTypes DEF Control, Transport
  <1>2. ASSUME NEW label \in Labels, NEW got \in Replies, Walks(t, label, got)
        PROVE  /\ GoesOn(t, label, me[t].mine, got)
               /\ Onward(t, label, me[t].mine) /\ ClientStays
    <2>1. /\ GoesOn(t, label, me[t].mine, got) /\ ClientStays
          /\ label = "x_note" => me[t].op = "register"
      BY <1>2 DEF Walks
    <2>2. CASE <<me[t].at, label>> \in
                 {<<"c_start", "c_open">>, <<"c_connect", "c_select">>,
                  <<"c_connect", "c_configure">>, <<"c_select", "c_configure">>,
                  <<"c_configure", "c_adopt">>}
      <3>1. me[t].op = "connect" /\ (me[t].at # "c_start" => me[t].mine \in Sockets)
        BY <1>1, <2>2 DEF CallIsExact, Connecting, Trying
      <3>2. Onward(t, label, me[t].mine)
        BY <2>2, <3>1 DEF Onward
      <3>3. QED
        BY <2>1, <3>2
    <2>3. CASE <<me[t].at, label>> \in
                 {<<"x_bind", "x_adopt">>,
                  <<"x_recheck", "x_accept">>, <<"x_receive", "x_receive">>,
                  <<"x_line", "x_accept">>, <<"x_line", "x_receive">>,
                  <<"x_accept", "x_decode">>, <<"x_decode", "x_note">>}
      <3>1. Cost(me[t].op) > 0 /\ me[t].mine \in Sockets
            /\ (me[t].at = "x_bind" => Transport = "udp")
        BY <1>1, <2>3 DEF CallIsExact, Requesting, Preparing, InUse, Sending
      <3>2. label \in {"x_adopt", "x_accept", "x_receive", "x_decode", "x_note"}
            /\ (label = "x_adopt" => me[t].at = "x_bind")
            /\ (label = "x_note" => me[t].op = "register")
        BY <2>1, <2>3
      <3>3. Onward(t, label, me[t].mine)
        BY <3>1, <3>2 DEF Onward
      <3>4. QED
        BY <2>1, <3>3
    <2>4. QED
      BY <1>2, <2>1, <2>2, <2>3 DEF Walks
  <1>3. ASSUME NEW label \in Labels, NEW got \in Replies, Takes(t, label, got)
        PROVE  /\ GoesOn(t, label, me[t].mine, got)
               /\ Onward(t, label, me[t].mine) /\ ClientStays
    BY <1>1, <1>3 DEF Takes, CallIsExact, Requesting, InUse, Sending, Onward
  <1>4. ASSUME NEW label \in Labels, Uses(t, label)
        PROVE  /\ GoesOn(t, label, client.sock, me[t].got)
               /\ Onward(t, label, client.sock) /\ ClientStays
    BY <1>1, <1>4 DEF Uses, CallIsExact, Requesting, Onward
  <1>5. ASSUME NEW label \in Labels, Binds(t, label)
        PROVE  /\ GoesOn(t, label, me[t].mine, me[t].got)
               /\ Onward(t, label, me[t].mine)
    BY <1>1, <1>5 DEF Binds, CallIsExact, Requesting, Preparing, InUse, Sending, Onward
  <1>6. ASSUME Opens(t)
        PROVE  /\ GoesOn(t, "c_connect", NextSocket, me[t].got)
               /\ Onward(t, "c_connect", NextSocket)
    <2>1. NextSocket \in Sockets
      BY <1>6, CreatingFacts DEF Opens
    <2>2. QED
      BY <1>1, <1>6, <2>1 DEF Opens, CallIsExact, Connecting, Onward, Labels
  <1>7. ASSUME Prepares(t)
        PROVE  /\ GoesOn(t, "x_bind", NextSocket, me[t].got)
               /\ Onward(t, "x_bind", NextSocket) /\ ClientStays
    <2>1. NextSocket \in Sockets
      BY <1>7, CreatingFacts DEF Prepares
    <2>2. QED
      BY <1>1, <1>7, <2>1 DEF Prepares, CallIsExact, Requesting, Onward, Labels
  <1>8. ASSUME Checks(t)
        PROVE  /\ GoesOn(t, "x_send", me[t].mine, me[t].got)
               /\ Onward(t, "x_send", me[t].mine) /\ ClientStays
    BY <1>1, <1>8 DEF Checks, CallIsExact, Requesting, InUse, Sending, Onward, Labels
  <1>9. ASSUME Sends(t)
        PROVE  /\ GoesOn(t, "x_receive", me[t].mine, me[t].got)
               /\ Onward(t, "x_receive", me[t].mine) /\ ClientStays
    BY <1>1, <1>9 DEF Sends, CallIsExact, Requesting, InUse, Sending, Onward, Labels
  <1>10. ASSUME WritesBack(t)
         PROVE  Onward(t, "x_start", me'[t].mine)
    BY <1>1, <1>10 DEF WritesBack, CallIsExact, Requesting, InUse, Sending, Onward, Labels
  <1>11. CASE WritesBack(t)
    BY <1>10, <1>11 DEF WritesBack, ClientStays, ClientIs
  <1>12. CASE \/ \E label \in Labels, got \in Replies : Walks(t, label, got) \/ Takes(t, label, got)
              \/ \E label \in Labels : Uses(t, label)
              \/ Prepares(t) \/ Checks(t) \/ Sends(t)
    BY <1>2, <1>3, <1>4, <1>7, <1>8, <1>9, <1>12 DEF GoesOn, ClientStays, ClientIs
  <1>13. CASE (\E label \in Labels : Binds(t, label)) \/ Opens(t)
    BY <1>5, <1>6, <1>13 DEF Binds, Opens, GoesOn, ClientIs
  <1>14. QED
    BY <1>11, <1>12, <1>13 DEF Going

(* What a call that goes on does to the sockets.                           *)
LEMMA GoingWire ==
    ASSUME Typed, Control, Enough, NEW t \in Threads, Going(t)
    PROVE  /\ wire' \in [Sockets -> Links]
           /\ received' = received
           /\ \/ \A s \in Sockets : State(s)' = State(s)
              \/ /\ Opens(t) \/ Prepares(t)
                 /\ \A s \in Sockets \ {NextSocket} : State(s)' = State(s)
                 /\ wire'[NextSocket].state = "open"
  <1>1. wire \in [Sockets -> Links] /\ CallIsExact(t)
    BY DEF Typed, Control
  <1>2. CASE \/ \E label \in Labels, got \in Replies : Walks(t, label, got)
             \/ \E label \in Labels : Uses(t, label) \/ Binds(t, label)
             \/ WritesBack(t)
    BY <1>1, <1>2 DEF Walks, Uses, Binds, WritesBack, State
  <1>3. ASSUME NEW v, v \in Links, me[t].mine \in Sockets,
               wire' = [wire EXCEPT ![me[t].mine] = v], v.state = wire[me[t].mine].state
        PROVE  /\ wire' \in [Sockets -> Links]
               /\ \A s \in Sockets : State(s)' = State(s)
    BY <1>1, <1>3 DEF State
  <1>4. CASE \E label \in Labels, got \in Replies : Takes(t, label, got)
    <2>1. me[t].mine \in Sockets /\ received' = received
          /\ wire' = [wire EXCEPT ![me[t].mine].inbox = Tail(@)]
          /\ wire[me[t].mine].inbox # <<>>
      BY <1>1, <1>4 DEF Takes, CallIsExact, InUse, Sending
    <2>2. PICK w \in Links : w = wire[me[t].mine]
      BY <1>1, <2>1
    <2>3. PICK rest \in Seq(Answers) : rest = Tail(w.inbox)
      <3>1. PICK lines \in Seq(Answers) : lines = w.inbox
        BY DEF Links
      <3>2. Tail(lines) \in Seq(Answers)
        BY <2>1, <2>2, <3>1
      <3>3. QED
        BY <3>1, <3>2
    <2>4. PICK v : v = [w EXCEPT !.inbox = rest]
      OBVIOUS
    <2>5. v \in Links /\ v.state = w.state
      BY <2>4 DEF Links
    <2>6. wire' = [wire EXCEPT ![me[t].mine] = v]
      BY <2>1, <2>2, <2>3, <2>4
    <2>7. QED
      BY <1>1, <1>3, <2>1, <2>2, <2>5, <2>6
  <1>5. CASE Checks(t)
    <2>1. me[t].mine \in Sockets /\ received' = received /\ me[t].req \in Nat
          /\ wire' = [wire EXCEPT ![me[t].mine].checked = me[t].req]
      BY <1>1, <1>5, PartTypes DEF Checks, CallIsExact, InUse, Sending, Calls
    <2>2. PICK w \in Links, r \in Nat : w = wire[me[t].mine] /\ r = me[t].req
      BY <1>1, <2>1
    <2>3. PICK v : v = [w EXCEPT !.checked = r]
      OBVIOUS
    <2>4. v \in Links /\ v.state = w.state
      BY <2>3 DEF Links
    <2>5. wire' = [wire EXCEPT ![me[t].mine] = v]
      BY <2>1, <2>2, <2>3
    <2>6. QED
      BY <1>1, <1>3, <2>1, <2>2, <2>4, <2>5
  <1>6. CASE Sends(t)
    <2>1. me[t].mine \in Sockets /\ me[t].req \in 1..MaxRequests
      BY <1>1, <1>6, RequestFacts DEF Sends, CallIsExact, InUse, Sending, Requesting
    <2>2. PICK w \in Links, r \in 1..MaxRequests : w = wire[me[t].mine] /\ r = me[t].req
      BY <1>1, <2>1
    <2>3. wire' = [wire EXCEPT ![me[t].mine].flight = @ \cup {me[t].req}]
          /\ received' = received
      BY <1>6 DEF Sends
    <2>4. PICK v : v = [w EXCEPT !.flight = @ \cup {r}]
      OBVIOUS
    <2>5. w.flight \cup {r} \in SUBSET (1..MaxRequests)
      BY DEF Links
    <2>6. v \in Links /\ v.state = w.state
      BY <2>4, <2>5 DEF Links
    <2>7. wire' = [wire EXCEPT ![me[t].mine] = v]
      BY <2>2, <2>3, <2>4
    <2>8. QED
      BY <1>3, <2>1, <2>2, <2>3, <2>6, <2>7
  <1>7. CASE Opens(t) \/ Prepares(t)
    <2>1. NextSocket \in Sockets /\ received' = received
          /\ wire' = [wire EXCEPT ![NextSocket].state = "open"]
      BY <1>7, CreatingFacts DEF Opens, Prepares
    <2>2. PICK s \in Sockets, state \in {"open", "shut", "closed"} :
            s = NextSocket /\ state = "open"
      BY <2>1
    <2>3. wire' = [wire EXCEPT ![s].state = state]
      BY <2>1, <2>2
    <2>4. /\ wire' \in [Sockets -> Links] /\ wire'[s].state = state
          /\ \A u \in Sockets \ {s} : wire'[u] = wire[u]
      BY <2>3, StateFacts
    <2>5. /\ wire'[NextSocket].state = "open"
          /\ \A u \in Sockets \ {NextSocket} : State(u)' = State(u)
      BY <2>2, <2>4 DEF State
    <2>6. QED
      BY <1>1, <1>7, <2>1, <2>4, <2>5
  <1>8. QED
    BY <1>2, <1>4, <1>5, <1>6, <1>7 DEF Going
-----------------------------------------------------------------------------
(* What a call may yet need is a matter of it alone.                       *)
LEMMA NeedingOfOne ==
    ASSUME NEW t \in Threads, \A u \in Threads \ {t} : me'[u] = me[u],
           client'.transport = client.transport,
           t \in Needing' => t \in Needing
    PROVE  Needing' \subseteq Needing
  BY DEF Needing, Creates, Transport, Again, Changing

(* Only the call in its turn relies on the client's socket.                *)
LEMMA OthersRely ==
    ASSUME Admission, Typed, Control, NEW t \in Threads, InTurn(t),
           \A u \in Threads \ {t} : me'[u] = me[u],
           IsFiniteSet(Needing'), Cardinality(Unused') >= Cardinality(Needing'),
           InUse(t)' \/ (me'[t].at \in {"x_start", "x_prepare"} /\ Again(t)') =>
             client'.sock # NoSocket \/ ~client'.udpConnected
    PROVE  Enough'
  <1>1. ASSUME NEW u \in Threads,
               InUse(u)' \/ (me'[u].at \in {"x_start", "x_prepare"} /\ Again(u)')
        PROVE  client'.sock # NoSocket \/ ~client'.udpConnected
    <2>1. CASE u = t
      BY <1>1, <2>1
    <2>2. CASE u # t
      <3>1. me'[u] = me[u]
        BY <2>2
      <3>2. InTurn(u)
        BY <1>1, <3>1 DEF InUse, Sending, InTurn, Closing
      <3>3. QED
        BY <2>2, <3>2, InTurnFacts
    <2>3. QED
      BY <2>1, <2>2
  <1>2. QED
    BY <1>1 DEF Enough

(* What is needed of the end of a call.                                    *)
LEMMA EndingFacts ==
    ASSUME Typed, Control, Enough, NEW t \in Threads, Ending(t)
    PROVE  /\ \E outcome \in Outcomes \ {"none"}, sent \in BOOLEAN :
                Honest(t, outcome, sent) /\ Ends(t, outcome, sent)
           /\ client' \in Clients /\ client'.transport = client.transport
           /\ Transport = "tcp" => ~client'.udpConnected
           /\ wire' \in [Sockets -> Links]
           /\ \/ Unused' = Unused
              \/ t \in Needing /\ NextSocket \in Unused /\ Unused' = Unused \ {NextSocket}
  <1>1. wire \in [Sockets -> Links] /\ Transport \in {"tcp", "udp"}
        /\ (Transport = "tcp" => ~client.udpConnected)
    BY PartTypes DEF Typed, Control, Transport
  <1>2. ASSUME NEW S, wire' = WithClosed(wire, S)
        PROVE  wire' \in [Sockets -> Links] /\ Unused' = Unused
    BY <1>2, ClosedFacts DEF Unused, State
  <1>3. ASSUME NEW outcome \in Outcomes, NEW sent \in BOOLEAN, Returns(t, outcome, sent)
        PROVE  /\ Honest(t, outcome, sent) /\ Ends(t, outcome, sent)
               /\ ClientStays /\ wire' = wire /\ Unused' = Unused
    BY <1>3 DEF Returns, Unused
  <1>4. ASSUME NEW outcome \in Outcomes, NEW sent \in BOOLEAN, Retires(t, outcome, sent)
        PROVE  /\ Honest(t, outcome, sent) /\ Ends(t, outcome, sent)
               /\ client' \in Clients /\ client'.transport = client.transport
               /\ client'.udpConnected = (Transport = "udp" /\ client.udpConnected)
               /\ wire' \in [Sockets -> Links] /\ Unused' = Unused
    <2>1. wire' \in [Sockets -> Links] /\ Unused' = Unused
      BY <1>2, <1>4 DEF Retires
    <2>2. client.udpConnected \in BOOLEAN
      BY DEF Typed, Clients
    <2>3. QED
      BY <1>4, <2>1, <2>2 DEF Retires, ClientIs
  <1>5. ASSUME NEW outcome \in Outcomes, GivesUp(t, outcome)
        PROVE  /\ Honest(t, outcome, FALSE) /\ Ends(t, outcome, FALSE)
               /\ client' \in Clients /\ client'.transport = client.transport
               /\ client'.udpConnected = client.udpConnected
               /\ wire' \in [Sockets -> Links] /\ Unused' = Unused
    BY <1>2, <1>5 DEF GivesUp, ClientIs
  <1>6. ASSUME NEW outcome \in Outcomes, Burns(t, outcome)
        PROVE  /\ Honest(t, outcome, FALSE) /\ Ends(t, outcome, FALSE)
               /\ ClientStays /\ wire' \in [Sockets -> Links]
               /\ t \in Needing /\ NextSocket \in Unused
               /\ Unused' = Unused \ {NextSocket}
    <2>1. /\ me[t].at = "c_open" /\ wire' = [wire EXCEPT ![NextSocket].state = "closed"]
          /\ Honest(t, outcome, FALSE) /\ Ends(t, outcome, FALSE) /\ ClientStays
      BY <1>6 DEF Burns
    <2>2. t \in Needing /\ NextSocket \in Sockets /\ State(NextSocket) = "unused"
      BY <2>1, CreatingFacts
    <2>3. PICK s \in Sockets, state \in {"open", "shut", "closed"} :
            s = NextSocket /\ state = "closed"
      BY <2>2
    <2>4. /\ wire' \in [Sockets -> Links] /\ wire'[s].state = state
          /\ \A u \in Sockets \ {s} : wire'[u] = wire[u]
      <3>1. wire' = [wire EXCEPT ![s].state = state]
        BY <2>1, <2>3
      <3>2. QED
        BY <3>1, StateFacts
    <2>5. Unused' = Unused \ {s}
      BY <2>3, <2>4 DEF Unused
    <2>6. QED
      BY <2>1, <2>2, <2>3, <2>4, <2>5 DEF Unused, State
  <1>7. ASSUME NEW outcome \in Outcomes, NEW connected \in BOOLEAN, Adopts(t, outcome, connected)
        PROVE  /\ Honest(t, outcome, FALSE) /\ Ends(t, outcome, FALSE)
               /\ client' \in Clients /\ client'.transport = client.transport
               /\ (Transport = "tcp" => ~client'.udpConnected)
               /\ wire' = wire /\ Unused' = Unused
    BY <1>1, <1>7 DEF Adopts, ClientIs, Unused
  <1>8. ASSUME Notes(t)
        PROVE  /\ Honest(t, "ok", TRUE) /\ Ends(t, "ok", TRUE)
               /\ client' \in Clients /\ client'.transport = client.transport
               /\ client'.udpConnected = client.udpConnected
               /\ wire' = wire /\ Unused' = Unused
    BY <1>8 DEF Notes, ClientIs, Unused
  <1>9. CASE \E outcome \in Outcomes, sent \in BOOLEAN :
               Returns(t, outcome, sent) \/ Retires(t, outcome, sent)
    <2>1. PICK outcome \in Outcomes, sent \in BOOLEAN :
            Returns(t, outcome, sent) \/ Retires(t, outcome, sent)
      BY <1>9
    <2>2. Honest(t, outcome, sent) /\ Ends(t, outcome, sent) /\ outcome # "none"
      BY <1>3, <1>4, <2>1 DEF Honest
    <2>3. QED
      BY <1>1, <1>3, <1>4, <2>1, <2>2 DEF ClientStays, ClientIs
  <1>10. CASE \E outcome \in Outcomes : GivesUp(t, outcome) \/ Burns(t, outcome)
    <2>1. PICK outcome \in Outcomes : GivesUp(t, outcome) \/ Burns(t, outcome)
      BY <1>10
    <2>2. Honest(t, outcome, FALSE) /\ Ends(t, outcome, FALSE) /\ outcome # "none"
          /\ FALSE \in BOOLEAN
      BY <1>5, <1>6, <2>1 DEF Honest
    <2>3. QED
      BY <1>1, <1>5, <1>6, <2>1, <2>2 DEF ClientStays, ClientIs
  <1>11. CASE \E outcome \in Outcomes, connected \in BOOLEAN : Adopts(t, outcome, connected)
    <2>1. PICK outcome \in Outcomes, connected \in BOOLEAN : Adopts(t, outcome, connected)
      BY <1>11
    <2>2. Honest(t, outcome, FALSE) /\ Ends(t, outcome, FALSE) /\ outcome # "none"
          /\ FALSE \in BOOLEAN
      BY <1>7, <2>1 DEF Honest
    <2>3. QED
      BY <1>1, <1>7, <2>1, <2>2
  <1>12. CASE Notes(t)
    <2>1. Honest(t, "ok", TRUE) /\ Ends(t, "ok", TRUE)
          /\ "ok" \in Outcomes \ {"none"} /\ TRUE \in BOOLEAN
      BY <1>8, <1>12 DEF Outcomes
    <2>2. QED
      BY <1>1, <1>8, <1>12, <2>1
  <1>13. QED
    BY <1>9, <1>10, <1>11, <1>12 DEF Ending

(* When a call ends, types, calls and sockets stay as they should be.      *)
LEMMA EndingFirst ==
    ASSUME Admission, Typed, Control, Enough, NEW t \in Threads, Ending(t)
    PROVE  Typed' /\ Control' /\ Enough'
  <1>1. InTurn(t)
    BY EndingInTurn
  <1>2. PICK outcome \in Outcomes \ {"none"}, sent \in BOOLEAN : Ends(t, outcome, sent)
    BY EndingFacts
  <1>3. /\ client' \in Clients /\ client'.transport = client.transport
        /\ Transport = "tcp" => ~client'.udpConnected
        /\ wire' \in [Sockets -> Links]
    BY EndingFacts
  <1>4. /\ me'[t].at = "idle" /\ me' \in [Threads -> Calls]
        /\ \A u \in Threads \ {t} : me'[u] = me[u]
        /\ UNCHANGED <<received, late, requests, repeats>>
    BY <1>2 DEF Ends, Keeps
  <1>5. Typed'
    BY <1>3, <1>4 DEF Typed
  <1>6. Control'
    <2>1. \A u \in Threads : CallIsExact(u)' /\ NumbersAreOwn(u)'
      BY <1>1, <1>2, <1>3, EndsControl
    <2>2. QED
      BY <1>3, <2>1 DEF Control, Transport
  <1>7. Needing' \subseteq Needing /\ t \notin Needing'
    <2>1. t \notin Needing'
      BY <1>4 DEF Needing
    <2>2. QED
      BY <1>3, <1>4, <2>1, NeedingOfOne
  <1>8. IsFiniteSet(Needing') /\ Cardinality(Unused') >= Cardinality(Needing')
    <2>1. CASE Unused' = Unused
      BY <1>7, <2>1, NeedingShrinks DEF Enough
    <2>2. CASE t \in Needing /\ NextSocket \in Unused /\ Unused' = Unused \ {NextSocket}
      <3>1. PICK s \in Unused : s = NextSocket
        BY <2>2
      <3>2. IsFiniteSet(Unused)
        BY <2>2, NextSocketFacts
      <3>3. Needing' \subseteq Needing \ {t} /\ t \in Needing /\ Unused' = Unused \ {s}
        BY <1>7, <2>2, <3>1
      <3>4. QED
        BY <3>2, <3>3, NeedingTakes DEF Enough
    <2>3. QED
      BY <2>1, <2>2, EndingFacts
  <1>9. Enough'
    <2>1. ~(InUse(t)' \/ (me'[t].at \in {"x_start", "x_prepare"} /\ Again(t)'))
      BY <1>4 DEF InUse, Sending
    <2>2. QED
      BY <1>1, <1>4, <1>8, <2>1, OthersRely
  <1>10. QED
    BY <1>5, <1>6, <1>9

(* When a call goes on, too.                                               *)
LEMMA GoingRelies ==
    ASSUME Typed, Control, Enough, NEW t \in Threads, Going(t),
           InUse(t)' \/ (me'[t].at \in {"x_start", "x_prepare"} /\ Again(t)')
    PROVE  client'.sock # NoSocket \/ ~client'.udpConnected
  <1>1. CallIsExact(t) /\ (InUse(t) \/ (me[t].at \in {"x_start", "x_prepare"} /\ Again(t)) =>
          client.sock # NoSocket \/ ~client.udpConnected)
    BY DEF Control, Enough
  <1>2. CASE ClientStays /\ InUse(t)
    BY <1>1, <1>2 DEF ClientStays, ClientIs
  <1>3. CASE \E label \in Labels, got \in Replies : Walks(t, label, got)
    <2>1. PICK label \in Labels, got \in Replies : Walks(t, label, got)
      BY <1>3
    <2>2. ClientStays /\ me'[t].at = label
          /\ me[t].at \in {"x_recheck", "x_receive", "x_line", "x_accept", "x_decode"}
      BY <2>1 DEF Walks, GoesOn, InUse, Sending
    <2>3. QED
      BY <1>2, <2>2 DEF InUse, Sending
  <1>4. CASE \E label \in Labels, got \in Replies : Takes(t, label, got)
    BY <1>2, <1>4 DEF Takes, InUse, Sending
  <1>5. CASE \E label \in Labels : Uses(t, label)
    <2>1. PICK label \in Labels : Uses(t, label)
      BY <1>5
    <2>2. CASE me[t].at = "x_start" /\ label = "x_prepare"
      <3>1. me'[t].at = "x_prepare" /\ (Again(t)' <=> Again(t)) /\ ClientStays
        BY <2>1, <2>2 DEF Uses, GoesOn, Keeps, Again, Changing
      <3>2. QED
        BY <1>1, <2>2, <3>1 DEF InUse, Sending, ClientStays, ClientIs
    <2>3. CASE client.sock # NoSocket
      BY <2>1, <2>3 DEF Uses, ClientStays, ClientIs
    <2>4. QED
      BY <2>1, <2>2, <2>3 DEF Uses
  <1>6. CASE \E label \in Labels : Binds(t, label)
    <2>1. PICK label \in Labels : Binds(t, label)
      BY <1>6
    <2>2. me[t].mine \in Sockets /\ client'.sock = me[t].mine
      BY <1>1, <2>1 DEF Binds, ClientIs, CallIsExact, Preparing, InUse, Sending
    <2>3. QED
      BY <2>2 DEF Sockets, NoSocket
  <1>7. CASE Opens(t) \/ Prepares(t)
    BY <1>7 DEF Opens, Prepares, GoesOn, InUse, Sending
  <1>8. CASE Checks(t) \/ Sends(t)
    BY <1>2, <1>8 DEF Checks, Sends, InUse, Sending
  <1>9. CASE WritesBack(t)
    BY <1>2, <1>9 DEF WritesBack, InUse, Sending
  <1>10. QED
    BY <1>3, <1>4, <1>5, <1>6, <1>7, <1>8, <1>9 DEF Going

(* A call that goes on needs a socket only if it did before.               *)
LEMMA GoingNeeds ==
    ASSUME Typed, Control, NEW t \in Threads, Going(t),
           Keeps(t), client'.transport = client.transport, t \in Needing'
    PROVE  t \in Needing /\ ~Opens(t) /\ ~Prepares(t)
  <1>1. /\ me'[t].op = me[t].op /\ me'[t].alters = me[t].alters
        /\ Creates(me[t].op)
        /\ me'[t].at \in {"enter", "c_start", "c_open", "x_start", "x_prepare"}
        /\ me'[t].at \in {"x_start", "x_prepare"} => ~Again(t)'
    BY DEF Keeps, Needing, Creates, Transport
  <1>2. CASE \E label \in Labels, got \in Replies : Walks(t, label, got)
    BY <1>1, <1>2 DEF Walks, GoesOn, Needing, Opens, Prepares
  <1>3. CASE \E label \in Labels, got \in Replies : Takes(t, label, got)
    BY <1>1, <1>3 DEF Takes, GoesOn
  <1>4. CASE \E label \in Labels : Uses(t, label)
    BY <1>1, <1>4 DEF Uses, GoesOn, Needing, Again, Changing, Opens, Prepares
  <1>5. CASE \E label \in Labels : Binds(t, label)
    BY <1>1, <1>5 DEF Binds, GoesOn
  <1>6. CASE Opens(t) \/ Prepares(t) \/ Checks(t) \/ Sends(t)
    BY <1>1, <1>6 DEF Opens, Prepares, Checks, Sends, GoesOn
  <1>7. CASE WritesBack(t)
    BY <1>1, <1>7 DEF WritesBack, Again, Changing
  <1>8. QED
    BY <1>2, <1>3, <1>4, <1>5, <1>6, <1>7 DEF Going

(* A call that goes on keeps the types, the labels and the supply of       *)
(* sockets.                                                                *)
LEMMA GoingFirst ==
    ASSUME Admission, Typed, Control, Enough, NEW t \in Threads, Going(t)
    PROVE  Typed' /\ Control' /\ Enough'
  <1>1. InTurn(t)
    BY GoingInTurn
  <1>2. /\ Keeps(t) /\ me'[t].outcome = me[t].outcome
        /\ Onward(t, me'[t].at, me'[t].mine)
        /\ me'[t].req = me[t].req \/ (me[t].op = "bit" /\ me'[t].req = me[t].alters)
        /\ UNCHANGED admission /\ UNCHANGED <<late, requests, repeats>>
        /\ client' \in Clients /\ client'.transport = client.transport
    BY GoingOnward
  <1>3. me' \in [Threads -> Calls] /\ \A u \in Threads \ {t} : me'[u] = me[u]
    BY <1>2 DEF Keeps
  <1>4. Typed'
    BY <1>2, <1>3, GoingWire DEF Typed
  <1>5. PICK label, s : label = me'[t].at /\ s = me'[t].mine
    OBVIOUS
  <1>6. Control'
    <2>1. Onward(t, label, s) /\ me'[t].at = label /\ me'[t].mine = s
          /\ requests' = requests /\ UNCHANGED admission
      BY <1>2, <1>5
    <2>2. \A u \in Threads : CallIsExact(u)' /\ NumbersAreOwn(u)'
      BY <1>1, <1>2, <2>1, OnwardControl
    <2>3. Transport = "tcp" => ~client'.udpConnected
      BY DEF Control, Going, Walks, Takes, Uses, Binds, Opens, Prepares, Checks, Sends,
         WritesBack, ClientStays, ClientIs
    <2>4. QED
      BY <1>2, <2>2, <2>3 DEF Control, Transport
  <1>7. Needing' \subseteq Needing /\ (t \in Needing' => ~Opens(t) /\ ~Prepares(t))
    BY <1>2, <1>3, GoingNeeds, NeedingOfOne
  <1>8. IsFiniteSet(Needing') /\ Cardinality(Unused') >= Cardinality(Needing')
    <2>1. CASE \A s_1 \in Sockets : State(s_1)' = State(s_1)
      <3>1. Unused' = Unused
        BY <2>1 DEF Unused, State
      <3>2. QED
        BY <1>7, <3>1, NeedingShrinks DEF Enough
    <2>2. CASE /\ Opens(t) \/ Prepares(t)
               /\ \A s_1 \in Sockets \ {NextSocket} : State(s_1)' = State(s_1)
               /\ wire'[NextSocket].state = "open"
      <3>1. /\ t \in Needing /\ NextSocket \in Unused /\ IsFiniteSet(Unused)
        BY <2>2, CreatingFacts DEF Opens, Prepares, Unused, State
      <3>2. PICK n \in Unused : n = NextSocket
        BY <3>1
      <3>3. Unused' = Unused \ {n}
        BY <2>2, <3>2 DEF Unused, State
      <3>4. Needing' \subseteq Needing \ {t}
        BY <1>7, <2>2
      <3>5. QED
        BY <3>1, <3>3, <3>4, NeedingTakes DEF Enough
    <2>3. QED
      BY <2>1, <2>2, GoingWire
  <1>9. Enough'
    BY <1>1, <1>3, <1>8, GoingRelies, OthersRely
  <1>10. QED
    BY <1>4, <1>6, <1>9
-----------------------------------------------------------------------------
(* A call that begins.                                                     *)
Begins(t, o) ==
    /\ me' \in [Threads -> Calls]
    /\ \A u \in Threads \ {t} : me'[u] = me[u]
    /\ me'[t].at = "enter" /\ me'[t].op = o /\ me'[t].mine = NoSocket
    /\ me'[t].taken = {} /\ me'[t].got = NoReply /\ me'[t].outcome = "none"
    /\ me'[t].req = (IF Cost(o) = 0 THEN 0 ELSE requests + 1)
    /\ me'[t].alters = (IF o \in {"write", "register", "bit"}
                          THEN requests + Cost(o) ELSE 0)

(* A call that neither begins nor is in its turn.                          *)
Turns(t, label) ==
    /\ me' \in [Threads -> Calls]
    /\ \A u \in Threads \ {t} : me'[u] = me[u]
    /\ me'[t].at = label /\ me'[t].op = me[t].op /\ me'[t].mine = me[t].mine
    /\ me'[t].req = me[t].req /\ me'[t].alters = me[t].alters
    /\ me'[t].got = me[t].got /\ me'[t].sent = me[t].sent

(* The call that begins has the fields that Begin gives it.                *)
LEMMA BeginsFacts ==
    ASSUME Typed, NEW t \in Threads, NEW o \in Operations, Begin(t, o)
    PROVE  Begins(t, o)
  <1> DEFINE req == IF Cost(o) = 0 THEN 0 ELSE requests + 1
             alters == IF o \in {"write", "register", "bit"}
                         THEN requests + Cost(o) ELSE 0
             c == [Idle EXCEPT !.at = "enter", !.op = o, !.req = req, !.alters = alters]
  <1>1. req \in Nat /\ alters \in Nat /\ o \in AllOperations
    BY ClientAssumption DEF Typed, Cost
  <1>2. Idle \in Calls /\ Idle.mine = NoSocket /\ Idle.taken = {}
        /\ Idle.got = NoReply /\ Idle.outcome = "none"
    BY FreshFacts DEF Idle, Calls, Labels, Outcomes
  <1>3. me' = [me EXCEPT ![t] = c]
    BY DEF Begin
  <1> HIDE DEF req, alters
  <1>4. /\ c \in Calls /\ c.at = "enter" /\ c.op = o /\ c.req = req
        /\ c.alters = alters /\ c.mine = NoSocket /\ c.taken = {}
        /\ c.got = NoReply /\ c.outcome = "none"
    BY <1>1, <1>2 DEF Calls, Labels
  <1> HIDE DEF c
  <1>5. QED
    BY <1>3, <1>4 DEF Typed, Begins, req, alters

(* The numbers of the call that begins are new.                            *)
LEMMA NewNumbers ==
    ASSUME Typed, Control, NEW t \in Threads, NEW o \in Operations \ {"close"},
           Begins(t, o), requests' = requests + Cost(o), requests' <= MaxRequests
    PROVE  /\ requests' \in 0..MaxRequests /\ requests' >= requests
           /\ NumbersAreOwn(t)'
           /\ me'[t].op = "bit" => me'[t].req # me'[t].alters
           /\ me'[t].req # 0 => me'[t].req > requests
           /\ me'[t].alters # 0 => me'[t].alters > requests
           /\ \A u \in Threads : /\ me[u].req \in Nat /\ me[u].req <= requests
                                 /\ me[u].alters \in Nat /\ me[u].alters <= requests
           /\ me'[t].req \in Nat /\ me'[t].alters \in Nat /\ requests \in Nat
  <1>1. /\ o \in {"connect", "read", "write", "register", "bit"}
        /\ requests \in 0..MaxRequests /\ requests \in Nat /\ MaxRequests \in Nat
    BY ClientAssumption DEF Typed, AllOperations
  <1>2. /\ me'[t].req = (IF Cost(o) = 0 THEN 0 ELSE requests + 1)
        /\ me'[t].alters = (IF o \in {"write", "register", "bit"}
                              THEN requests + Cost(o) ELSE 0)
        /\ me'[t].op = o
    BY DEF Begins
  <1>3. ASSUME NEW u \in Threads
        PROVE  /\ me[u].req \in Nat /\ me[u].req <= requests
               /\ me[u].alters \in Nat /\ me[u].alters <= requests
    <2>1. NumbersAreOwn(u) /\ me[u].op \in AllOperations \cup {"none"}
          /\ me[u].req \in Nat /\ me[u].alters \in Nat
      BY DEF Control, Typed, Calls
    <2>2. QED
      BY <1>1, <2>1 DEF NumbersAreOwn, AllOperations
  <1>4. CASE o = "connect"
    BY <1>1, <1>2, <1>3, <1>4 DEF NumbersAreOwn, Cost
  <1>5. CASE o = "read"
    BY <1>1, <1>2, <1>3, <1>5 DEF NumbersAreOwn, Cost
  <1>6. CASE o \in {"write", "register"}
    BY <1>1, <1>2, <1>3, <1>6 DEF NumbersAreOwn, Cost
  <1>7. CASE o = "bit"
    BY <1>1, <1>2, <1>3, <1>7 DEF NumbersAreOwn, Cost
  <1>8. QED
    BY <1>1, <1>4, <1>5, <1>6, <1>7

(* A call that may create a socket finds one that nobody else may need.    *)
LEMMA BeginsEnough ==
    ASSUME Admission, Typed, Control, Enough, NEW t \in Threads, NEW o \in Operations,
           Begins(t, o), me[t].at = "idle",
           Creates(o) => Cardinality(Unused) > Cardinality(Claims),
           UNCHANGED <<client, wire>>
    PROVE  IsFiniteSet(Needing') /\ Cardinality(Unused') >= Cardinality(Needing')
  <1>1. Needing \subseteq Claims /\ IsFiniteSet(Needing) /\ IsFiniteSet(Claims)
    <2>1. Needing \subseteq Claims /\ IsFiniteSet(Needing)
      BY DEF Needing, Claims, Enough
    <2>2. CASE Claims = Needing
      BY <2>1, <2>2
    <2>3. CASE Claims # Needing
      <3>1. PICK v \in Claims : v \notin Needing
        BY <2>1, <2>3
      <3>2. InTurn(v) /\ v \in Threads
        BY <3>1 DEF Claims, Needing, InTurn, Closing
      <3>3. ASSUME NEW u \in Claims PROVE u \in Needing \cup {v}
        <4>1. CASE InTurn(u)
          BY <3>2, <4>1, InTurnFacts DEF Claims
        <4>2. CASE ~InTurn(u)
          BY <4>2 DEF Claims, Needing, InTurn, Closing
        <4>3. QED
          BY <4>1, <4>2
      <3>4. IsFiniteSet(Needing \cup {v})
        BY <2>1, FS_AddElement
      <3>5. QED
        BY <2>1, <3>3, <3>4, FS_Subset
    <2>4. QED
      BY <2>2, <2>3
  <1>2. Cardinality(Needing) <= Cardinality(Claims)
        /\ Cardinality(Needing) \in Nat /\ Cardinality(Claims) \in Nat
    BY <1>1, FS_Subset, FS_CardinalityType
  <1>3. Unused' = Unused /\ \A p : Creates(p)' <=> Creates(p)
    BY DEF Unused, Creates, Transport
  <1>4. t \notin Needing
    BY DEF Needing
  <1>5. Needing' \subseteq (IF Creates(o) THEN Needing \cup {t} ELSE Needing)
    BY <1>3 DEF Needing, Creates, Begins, Again, Changing
  <1>6. CASE ~Creates(o)
    BY <1>3, <1>5, <1>6, NeedingShrinks DEF Enough
  <1>7. CASE Creates(o)
    <2>2. /\ IsFiniteSet(Needing \cup {t})
          /\ Cardinality(Needing \cup {t}) = Cardinality(Needing) + 1
      BY <1>1, <1>4, FS_AddElement
    <2>3. /\ IsFiniteSet(Needing') /\ Cardinality(Needing') \in Nat
          /\ Cardinality(Needing') <= Cardinality(Needing) + 1
      BY <1>5, <1>7, <2>2, FS_Subset, FS_CardinalityType
    <2>4. Cardinality(Unused) \in Nat
      <3>1. IsFiniteSet(Sockets)
        BY FS_Interval, ClientAssumption DEF Sockets
      <3>2. QED
        BY <3>1, FS_Subset, FS_CardinalityType DEF Unused
    <2>5. Cardinality(Unused)' = Cardinality(Unused)
      BY <1>3
    <2>6. QED
      BY <1>2, <1>7, <2>3, <2>4, <2>5
  <1>8. QED
    BY <1>6, <1>7

(* When a call begins, types, calls and sockets stay as they should be.    *)
LEMMA BeginFirst ==
    ASSUME Admission, Typed, Control, Enough, NEW t \in Threads,
           NEW o \in Operations, Begin(t, o)
    PROVE  Typed' /\ Control' /\ Enough'
  <1>1. /\ Begins(t, o) /\ o \in Operations \ {"close"}
        /\ me[t].at = "idle"
        /\ Creates(o) => Cardinality(Unused) > Cardinality(Claims)
        /\ UNCHANGED <<client, wire, received, late, repeats>>
        /\ requests' = requests + Cost(o) /\ requests' <= MaxRequests
        /\ pc[t] = "outside" /\ pc' = [pc EXCEPT ![t] = "waiting"]
        /\ generation' = generation
    BY BeginsFacts DEF Begin, At, Adm!Enter, Adm!EnterIf
  <1>2. /\ requests' \in 0..MaxRequests /\ requests' >= requests
        /\ NumbersAreOwn(t)' /\ (me'[t].op = "bit" => me'[t].req # me'[t].alters)
    BY <1>1, NewNumbers
  <1>3. /\ me' \in [Threads -> Calls] /\ \A u \in Threads \ {t} : me'[u] = me[u]
        /\ me'[t].at = "enter" /\ me'[t].taken = {} /\ me'[t].outcome = "none"
        /\ me'[t].op = o /\ o \notin {"none", "close"}
    BY <1>1, ClientAssumption DEF Begins, AllOperations
  <1>4. Typed'
    BY <1>1, <1>2, <1>3 DEF Typed
  <1>5. Control'
    <2>1. /\ pc \in [Threads -> {"outside", "waiting", "inside"}] /\ generation \in Nat
          /\ requests \in Nat /\ requests' \in Nat
      BY <1>2, ClientAssumption DEF Admission, Adm!TypeOK, Typed
    <2>2. ASSUME NEW u \in Threads \ {t} PROVE CallIsExact(u)' /\ NumbersAreOwn(u)'
      <3>1. /\ me'[u] = me[u] /\ pc'[u] = pc[u] /\ generation' \in Nat
            /\ generation' >= generation /\ requests' \in Nat /\ requests' >= requests
            /\ client'.transport = client.transport
        BY <1>1, <1>2, <1>3, <2>1
      <3>2. QED
        BY <2>1, <3>1, OthersControl
    <2>3. CallIsExact(t)'
      <3>1. pc'[t] = "waiting"
        BY <1>1, <2>1
      <3>2. QED
        BY <1>2, <1>3, <3>1 DEF CallIsExact, Closing, Connecting, Requesting, Preparing,
           Trying, InUse, Sending
    <2>4. QED
      BY <1>1, <1>2, <2>2, <2>3 DEF Control, Transport
  <1>6. IsFiniteSet(Needing') /\ Cardinality(Unused') >= Cardinality(Needing')
    BY <1>1, BeginsEnough
  <1>7. Enough'
    <2>1. ASSUME NEW u \in Threads,
                 InUse(u)' \/ (me'[u].at \in {"x_start", "x_prepare"} /\ Again(u)')
          PROVE  client'.sock # NoSocket \/ ~client'.udpConnected
      <3>1. u # t /\ me'[u] = me[u]
        BY <1>3, <2>1 DEF InUse, Sending
      <3>2. QED
        BY <1>1, <2>1, <3>1 DEF Enough, InUse, Sending, Again, Changing
    <2>2. QED
      BY <1>6, <2>1 DEF Enough
  <1>8. QED
    BY <1>4, <1>5, <1>7
-----------------------------------------------------------------------------
(* A call whose turn begins, and one that is turned away.                  *)
LEMMA AdmittedTurns ==
    ASSUME Typed, Control, NEW t \in Threads, Admitted(t)
    PROVE  \E label \in {"c_start", "x_start"} :
             /\ Turns(t, label) /\ me[t].at = "enter"
             /\ me'[t].outcome = "none" /\ me'[t].taken = me[t].taken
             /\ IF label = "c_start" THEN me[t].op = "connect" ELSE Cost(me[t].op) > 0
  <1>1. PICK label \in {"c_start", "x_start"} :
          label = IF me[t].op = "connect" THEN "c_start" ELSE "x_start"
    OBVIOUS
  <1>2. me[t].at = "enter" /\ me' = [me EXCEPT ![t].at = label] /\ me[t] \in Calls
    BY <1>1 DEF Admitted, At, Typed
  <1>3. PICK c : c = [me[t] EXCEPT !.at = label]
    OBVIOUS
  <1>4. /\ c \in Calls /\ c.at = label /\ c.op = me[t].op /\ c.mine = me[t].mine
        /\ c.req = me[t].req /\ c.alters = me[t].alters /\ c.got = me[t].got
        /\ c.sent = me[t].sent /\ c.taken = me[t].taken /\ c.outcome = me[t].outcome
    BY <1>2, <1>3 DEF Calls, Labels
  <1>5. me' = [me EXCEPT ![t] = c]
    BY <1>2, <1>3
  <1>6. Turns(t, label) /\ me'[t].taken = me[t].taken /\ me'[t].outcome = me[t].outcome
    BY <1>4, <1>5 DEF Turns, Typed
  <1>7. me[t].outcome = "none" /\ me[t].op \in AllOperations \ {"close"}
    BY <1>2 DEF Control, CallIsExact, Closing, Calls
  <1>8. QED
    BY <1>1, <1>2, <1>6, <1>7 DEF Cost, AllOperations

(* A waiter that finds the client closed ends, with nothing but its own    *)
(* call changed.                                                           *)
LEMMA RejectedTurns ==
    ASSUME Typed, Control, NEW t \in Threads, Rejected(t)
    PROVE  /\ Turns(t, "idle") /\ me[t].at = "enter"
           /\ me'[t].outcome = "closed" /\ me'[t].retired
           /\ me'[t].taken = me[t].taken
  <1>1. /\ me[t].at = "enter" /\ me[t] \in Calls
        /\ me' = [me EXCEPT ![t].at = "idle", ![t].outcome = "closed",
                            ![t].retired = TRUE]
    BY DEF Rejected, At, Typed
  <1>2. PICK c : c = [me[t] EXCEPT !.at = "idle", !.outcome = "closed", !.retired = TRUE]
    OBVIOUS
  <1>3. /\ c \in Calls /\ c.at = "idle" /\ c.op = me[t].op /\ c.mine = me[t].mine
        /\ c.req = me[t].req /\ c.alters = me[t].alters /\ c.got = me[t].got
        /\ c.sent = me[t].sent /\ c.taken = me[t].taken /\ c.outcome = "closed"
        /\ c.retired
    BY <1>1, <1>2 DEF Calls, Labels, Outcomes
  <1>4. me' = [me EXCEPT ![t] = c]
    BY <1>1, <1>2 DEF Typed, Calls
  <1>5. QED
    BY <1>1, <1>3, <1>4 DEF Turns, Typed

(* The four steps of a close().                                            *)
LEMMA CloseBegins ==
    ASSUME Typed, NEW t \in Threads, CloseInvalidate(t)
    PROVE  /\ me' \in [Threads -> Calls] /\ \A u \in Threads \ {t} : me'[u] = me[u]
           /\ me'[t].at = "k_clear" /\ me'[t].op = "close" /\ me'[t].taken = {}
           /\ me'[t].req = 0 /\ me'[t].alters = 0 /\ me'[t].outcome = "none"
           /\ me'[t].got = NoReply
  <1>1. Idle \in Calls /\ Idle.taken = {} /\ Idle.req = 0 /\ Idle.alters = 0
        /\ Idle.outcome = "none" /\ Idle.got = NoReply
    BY FreshFacts DEF Idle, Calls, Labels, Outcomes
  <1>2. PICK c : c = [Idle EXCEPT !.at = "k_clear", !.op = "close"]
    OBVIOUS
  <1>3. c \in Calls /\ c.taken = {} /\ c.req = 0 /\ c.alters = 0 /\ c.at = "k_clear"
        /\ c.op = "close" /\ c.outcome = "none" /\ c.got = NoReply
    BY <1>1, <1>2 DEF Calls, Labels, AllOperations
  <1>4. me' = [me EXCEPT ![t] = c]
    BY <1>2 DEF CloseInvalidate
  <1>5. QED
    BY <1>3, <1>4 DEF Typed

(* close() takes the sockets of the client, and the client keeps none.     *)
LEMMA CloseClearTurns ==
    ASSUME Typed, NEW t \in Threads, CloseClear(t)
    PROVE  /\ Turns(t, "k_shutdown") /\ me[t].at = "k_clear"
           /\ me'[t].outcome = me[t].outcome
           /\ me'[t].taken = {client.sock, client.connecting} \ {NoSocket}
           /\ ClientIs(NoSocket, NoSocket, FALSE, NoSocket)
           /\ UNCHANGED <<admission, wire, peer>>
  <1>1. /\ me[t].at = "k_clear" /\ me[t] \in Calls
        /\ client' = Disconnected(client.transport) /\ client \in Clients
        /\ UNCHANGED <<admission, wire, peer>>
    BY DEF CloseClear, At, Typed, Transport
  <1>2. PICK S \in SUBSET Sockets : S = {client.sock, client.connecting} \ {NoSocket}
    BY <1>1 DEF Clients
  <1>3. PICK c : c = [me[t] EXCEPT !.at = "k_shutdown", !.taken = S]
    OBVIOUS
  <1>4. /\ c \in Calls /\ c.at = "k_shutdown" /\ c.op = me[t].op /\ c.mine = me[t].mine
        /\ c.req = me[t].req /\ c.alters = me[t].alters /\ c.got = me[t].got
        /\ c.sent = me[t].sent /\ c.taken = S /\ c.outcome = me[t].outcome
    BY <1>1, <1>3 DEF Calls, Labels
  <1>5. me' = [me EXCEPT ![t] = c]
    BY <1>1, <1>2, <1>3 DEF CloseClear, Typed, Calls
  <1>6. Turns(t, "k_shutdown") /\ me'[t].taken = S /\ me'[t].outcome = me[t].outcome
    BY <1>4, <1>5 DEF Turns, Typed
  <1>7. ClientIs(NoSocket, NoSocket, FALSE, NoSocket)
    BY <1>1 DEF ClientIs, Disconnected, Clients
  <1>8. QED
    BY <1>1, <1>2, <1>6, <1>7

(* close() shuts down the sockets it took, and touches no other.           *)
LEMMA CloseShutdownTurns ==
    ASSUME Typed, NEW t \in Threads, CloseShutdown(t)
    PROVE  /\ Turns(t, "k_close") /\ me[t].at = "k_shutdown"
           /\ me'[t].outcome = me[t].outcome /\ me'[t].taken = me[t].taken
           /\ UNCHANGED <<admission, client, peer>>
           /\ wire' \in [Sockets -> Links]
           /\ \A s \in Sockets \ me[t].taken : wire'[s] = wire[s]
           /\ \A s \in Sockets : State(s) # "open" => wire'[s] = wire[s]
           /\ \A s \in Sockets : State(s) = "open" =>
                /\ State(s)' \in {"open", "shut"}
                /\ s \in me[t].taken => State(s)' = "shut"
           /\ \A s \in Sockets :
                /\ wire'[s].inbox = wire[s].inbox /\ wire'[s].pending = wire[s].pending
                /\ wire'[s].checked = wire[s].checked /\ wire'[s].flight = wire[s].flight
  <1>1. /\ me[t].at = "k_shutdown" /\ me[t] \in Calls
        /\ UNCHANGED <<admission, client, peer>>
        /\ wire' = [s \in Sockets |->
                      IF s \in me[t].taken /\ State(s) = "open"
                        THEN [wire[s] EXCEPT !.state = "shut"] ELSE wire[s]]
    BY DEF CloseShutdown, At, Typed
  <1>2. ASSUME NEW s \in Sockets
        PROVE  LET v == [wire[s] EXCEPT !.state = "shut"] IN
               /\ v \in Links /\ v.state = "shut" /\ v.inbox = wire[s].inbox
               /\ v.pending = wire[s].pending /\ v.checked = wire[s].checked
               /\ v.flight = wire[s].flight
    <2>1. wire[s] \in Links
      BY DEF Typed
    <2>2. QED
      BY <2>1 DEF Links
  <1>3. \A s \in Sockets :
          wire'[s] = IF s \in me[t].taken /\ State(s) = "open"
                       THEN [wire[s] EXCEPT !.state = "shut"] ELSE wire[s]
    BY <1>1
  <1>4. /\ wire' \in [Sockets -> Links]
        /\ \A s \in Sockets \ me[t].taken : wire'[s] = wire[s]
        /\ \A s \in Sockets : State(s) # "open" => wire'[s] = wire[s]
        /\ \A s \in Sockets : s \in me[t].taken /\ State(s) = "open" => wire'[s].state = "shut"
        /\ \A s \in Sockets :
             /\ wire'[s].inbox = wire[s].inbox /\ wire'[s].pending = wire[s].pending
             /\ wire'[s].checked = wire[s].checked /\ wire'[s].flight = wire[s].flight
    BY <1>1, <1>2, <1>3 DEF Typed
  <1>5. PICK c : c = [me[t] EXCEPT !.at = "k_close"]
    OBVIOUS
  <1>6. /\ c \in Calls /\ c.at = "k_close" /\ c.op = me[t].op /\ c.mine = me[t].mine
        /\ c.req = me[t].req /\ c.alters = me[t].alters /\ c.got = me[t].got
        /\ c.sent = me[t].sent /\ c.taken = me[t].taken /\ c.outcome = me[t].outcome
    BY <1>1, <1>5 DEF Calls, Labels
  <1>7. me' = [me EXCEPT ![t] = c]
    BY <1>5 DEF CloseShutdown, Goto
  <1>8. Turns(t, "k_close") /\ me'[t].taken = me[t].taken /\ me'[t].outcome = me[t].outcome
    BY <1>6, <1>7 DEF Turns, Typed
  <1>9. \A s \in Sockets : State(s) = "open" =>
          /\ State(s)' \in {"open", "shut"}
          /\ s \in me[t].taken => State(s)' = "shut"
    BY <1>4 DEF State
  <1>10. QED
    BY <1>1, <1>4, <1>8, <1>9

(* close() closes the sockets it took, and ends.                           *)
LEMMA CloseSocketTurns ==
    ASSUME Typed, NEW t \in Threads, CloseSocket(t)
    PROVE  /\ Turns(t, "idle") /\ me[t].at = "k_close"
           /\ me'[t].outcome = "ok" /\ me'[t].taken = {}
           /\ UNCHANGED <<admission, client, peer>>
           /\ wire' = WithClosed(wire, me[t].taken)
  <1>1. /\ me[t].at = "k_close" /\ me[t] \in Calls
        /\ UNCHANGED <<admission, client, peer>>
        /\ wire' = WithClosed(wire, me[t].taken)
    BY DEF CloseSocket, At, Typed
  <1>2. PICK c : c = [me[t] EXCEPT !.at = "idle", !.outcome = "ok", !.taken = {}]
    OBVIOUS
  <1>3. /\ c \in Calls /\ c.at = "idle" /\ c.op = me[t].op /\ c.mine = me[t].mine
        /\ c.req = me[t].req /\ c.alters = me[t].alters /\ c.got = me[t].got
        /\ c.sent = me[t].sent /\ c.taken = {} /\ c.outcome = "ok"
    BY <1>1, <1>2 DEF Calls, Labels, Outcomes
  <1>4. me' = [me EXCEPT ![t] = c]
    BY <1>2 DEF CloseSocket, Typed, Calls
  <1>5. QED
    BY <1>1, <1>3, <1>4 DEF Turns, Typed
-----------------------------------------------------------------------------
(* Steps outside the turn leave enough sockets to the calls in it.         *)
LEMMA OutsideEnough ==
    ASSUME Enough, NEW t \in Threads, \A u \in Threads \ {t} : me'[u] = me[u],
           client'.transport = client.transport, Unused' = Unused,
           t \in Needing' => t \in Needing,
           ~(InUse(t)' \/ (me'[t].at \in {"x_start", "x_prepare"} /\ Again(t)')),
           \/ client'.sock = client.sock /\ client'.udpConnected = client.udpConnected
           \/ ~client'.udpConnected
    PROVE  Enough'
  <1>1. IsFiniteSet(Needing') /\ Cardinality(Unused') >= Cardinality(Needing')
    BY NeedingOfOne, NeedingShrinks DEF Enough
  <1>2. ASSUME NEW u \in Threads,
               InUse(u)' \/ (me'[u].at \in {"x_start", "x_prepare"} /\ Again(u)')
        PROVE  client'.sock # NoSocket \/ ~client'.udpConnected
    <2>1. u # t /\ me'[u] = me[u]
      BY <1>2
    <2>2. client.sock # NoSocket \/ ~client.udpConnected
      BY <1>2, <2>1 DEF Enough, InUse, Sending, Again, Changing
    <2>3. QED
      BY <2>2
  <1>3. QED
    BY <1>1, <1>2 DEF Enough

(* The call whose step it is, and the others.                              *)
LEMMA OutsideControl ==
    ASSUME Admission, Typed, Control, NEW t \in Threads,
           \A u \in Threads \ {t} : me'[u] = me[u] /\ pc'[u] = pc[u],
           generation' \in Nat, generation' >= generation, requests' = requests,
           client'.transport = client.transport,
           \/ client'.udpConnected = client.udpConnected \/ ~client'.udpConnected,
           CallIsExact(t)' /\ NumbersAreOwn(t)'
    PROVE  Control'
  <1>1. generation \in Nat /\ requests' \in Nat /\ requests' >= requests
    BY ClientAssumption DEF Admission, Adm!TypeOK, Typed
  <1>2. ASSUME NEW u \in Threads \ {t} PROVE CallIsExact(u)' /\ NumbersAreOwn(u)'
    <2>1. me'[u] = me[u] /\ pc'[u] = pc[u]
      OBVIOUS
    <2>2. QED
      BY <1>1, <2>1, OthersControl
  <1>3. QED
    BY <1>2 DEF Control, Transport

(* The numbers of a call stay its own while it keeps them.                 *)
LEMMA NumbersKept ==
    ASSUME Control, NEW t \in Threads, requests' = requests,
           me'[t].op = me[t].op, me'[t].req = me[t].req, me'[t].alters = me[t].alters
    PROVE  NumbersAreOwn(t)'
  BY DEF Control, NumbersAreOwn

(* Taking the turn keeps the types, the labels and the supply of sockets.  *)
LEMMA AdmittedFirst ==
    ASSUME Admission, Typed, Control, Enough, NEW t \in Threads, Admitted(t)
    PROVE  Typed' /\ Control' /\ Enough'
  <1>1. PICK label \in {"c_start", "x_start"} :
          /\ Turns(t, label) /\ me[t].at = "enter"
          /\ me'[t].outcome = "none" /\ me'[t].taken = me[t].taken
          /\ IF label = "c_start" THEN me[t].op = "connect" ELSE Cost(me[t].op) > 0
    BY AdmittedTurns
  <1>2. /\ UNCHANGED <<client, wire, received, late, requests, repeats>>
        /\ pc' = [pc EXCEPT ![t] = "inside"] /\ generation' = generation
        /\ pc \in [Threads -> {"outside", "waiting", "inside"}] /\ generation \in Nat
        /\ CallIsExact(t)
    BY DEF Admitted, peer, Adm!Admitted, Adm!shared, Admission, Adm!TypeOK, Control
  <1>3. /\ me' \in [Threads -> Calls] /\ \A u \in Threads \ {t} : me'[u] = me[u]
        /\ me'[t].at = label /\ me'[t].op = me[t].op
        /\ me'[t].req = me[t].req /\ me'[t].alters = me[t].alters
    BY <1>1 DEF Turns
  <1>4. Typed'
    BY <1>2, <1>3 DEF Typed
  <1>5. Control'
    <2>1. me[t].taken = {} /\ me[t].op \notin {"close", "none"}
      BY <1>1, <1>2 DEF CallIsExact, Closing
    <2>2. CallIsExact(t)'
      BY <1>1, <1>2, <1>3, <2>1 DEF CallIsExact, Closing, Connecting, Requesting,
         Preparing, Trying, InUse, Sending
    <2>3. NumbersAreOwn(t)'
      BY <1>2, <1>3, NumbersKept
    <2>4. QED
      BY <1>2, <1>3, <2>2, <2>3, OutsideControl
  <1>6. Enough'
    <2>1. ~Again(t)'
      BY <1>1, <1>2, <1>3 DEF CallIsExact, Again, Changing
    <2>2. t \in Needing' => t \in Needing
      BY <1>1, <1>2, <1>3 DEF Needing, Creates, Transport
    <2>3. ~InUse(t)' /\ Unused' = Unused
      BY <1>2, <1>3 DEF InUse, Sending, Unused
    <2>4. QED
      BY <1>2, <1>3, <2>1, <2>2, <2>3, OutsideEnough
  <1>7. QED
    BY <1>4, <1>5, <1>6

(* A rejected waiter keeps the types, the labels and the supply of         *)
(* sockets.                                                                *)
LEMMA RejectedFirst ==
    ASSUME Admission, Typed, Control, Enough, NEW t \in Threads, Rejected(t)
    PROVE  Typed' /\ Control' /\ Enough'
  <1>1. /\ Turns(t, "idle") /\ me[t].at = "enter" /\ me'[t].taken = me[t].taken
    BY RejectedTurns
  <1>2. /\ UNCHANGED <<client, wire, received, late, requests, repeats>>
        /\ pc' = [pc EXCEPT ![t] = "outside"] /\ generation' = generation
        /\ pc \in [Threads -> {"outside", "waiting", "inside"}] /\ generation \in Nat
        /\ CallIsExact(t)
    BY DEF Rejected, peer, Adm!Rejected, Adm!shared, Admission, Adm!TypeOK, Control
  <1>3. /\ me' \in [Threads -> Calls] /\ \A u \in Threads \ {t} : me'[u] = me[u]
        /\ me'[t].at = "idle" /\ me'[t].op = me[t].op
        /\ me'[t].req = me[t].req /\ me'[t].alters = me[t].alters
    BY <1>1 DEF Turns
  <1>4. Typed'
    BY <1>2, <1>3 DEF Typed
  <1>5. Control'
    <2>1. me[t].taken = {}
      BY <1>1, <1>2 DEF CallIsExact
    <2>2. CallIsExact(t)'
      BY <1>1, <1>2, <1>3, <2>1 DEF CallIsExact, Closing, Connecting, Requesting,
         Preparing, Trying, InUse, Sending
    <2>3. NumbersAreOwn(t)'
      BY <1>2, <1>3, NumbersKept
    <2>4. QED
      BY <1>2, <1>3, <2>2, <2>3, OutsideControl
  <1>6. Enough'
    <2>1. t \notin Needing' /\ ~InUse(t)' /\ Unused' = Unused
      BY <1>2, <1>3 DEF Needing, InUse, Sending, Unused
    <2>2. QED
      BY <1>2, <1>3, <2>1, OutsideEnough
  <1>7. QED
    BY <1>4, <1>5, <1>6

(* Every step of close() keeps the types, the labels and the supply of     *)
(* sockets.                                                                *)
LEMMA CloseFirst ==
    ASSUME Admission, Typed, Control, Enough, NEW t \in Threads,
           CloseInvalidate(t) \/ CloseClear(t) \/ CloseShutdown(t) \/ CloseSocket(t)
    PROVE  Typed' /\ Control' /\ Enough'
  <1>1. /\ pc' = pc /\ generation \in Nat /\ generation' \in Nat
        /\ generation' >= generation /\ (me[t].at = "idle" => generation' > 0)
        /\ UNCHANGED <<received, late, requests, repeats>>
        /\ CallIsExact(t) /\ NumbersAreOwn(t)
        /\ pc \in [Threads -> {"outside", "waiting", "inside"}]
    <2>1. CASE CloseInvalidate(t)
      BY <2>1 DEF CloseInvalidate, peer, Adm!Invalidate, Admission, Adm!TypeOK, Control
    <2>2. CASE CloseClear(t) \/ CloseShutdown(t) \/ CloseSocket(t)
      BY <2>2 DEF CloseClear, CloseShutdown, CloseSocket, At, peer, admission, Admission,
         Adm!TypeOK, Control
    <2>3. QED
      BY <2>1, <2>2
  <1>2. /\ me' \in [Threads -> Calls] /\ \A u \in Threads \ {t} : me'[u] = me[u]
        /\ client' \in Clients /\ client'.transport = client.transport
        /\ \/ client'.sock = client.sock /\ client'.udpConnected = client.udpConnected
           \/ ~client'.udpConnected
        /\ wire' \in [Sockets -> Links] /\ Unused' = Unused
        /\ \/ /\ me[t].at = "idle" /\ me'[t].at = "k_clear" /\ me'[t].op = "close"
              /\ me'[t].taken = {} /\ me'[t].req = 0 /\ me'[t].alters = 0
              /\ me'[t].outcome = "none"
           \/ /\ me[t].at \in {"k_clear", "k_shutdown", "k_close"}
              /\ me'[t].at \in {"k_shutdown", "k_close", "idle"}
              /\ me'[t].at = "idle" => me'[t].taken = {}
              /\ me'[t].at # "idle" => me'[t].outcome = me[t].outcome
              /\ me'[t].op = me[t].op /\ me'[t].req = me[t].req
              /\ me'[t].alters = me[t].alters
    <2>1. client \in Clients /\ wire \in [Sockets -> Links]
      BY DEF Typed
    <2>2. CASE CloseInvalidate(t)
      BY <2>1, <2>2, CloseBegins DEF CloseInvalidate, At, Unused
    <2>3. CASE CloseClear(t)
      BY <2>1, <2>3, CloseClearTurns DEF Turns, ClientIs, Unused
    <2>4. CASE CloseShutdown(t)
      <3>1. Unused' = Unused
        BY <2>4, CloseShutdownTurns DEF Unused, State
      <3>2. QED
        BY <2>1, <2>4, <3>1, CloseShutdownTurns DEF Turns
    <2>5. CASE CloseSocket(t)
      <3>1. wire' \in [Sockets -> Links] /\ Unused' = Unused
        BY <2>5, CloseSocketTurns, ClosedFacts DEF Unused, State
      <3>2. QED
        BY <2>1, <2>5, <3>1, CloseSocketTurns DEF Turns
    <2>6. QED
      BY <2>2, <2>3, <2>4, <2>5
  <1>3. Typed'
    BY <1>1, <1>2 DEF Typed
  <1>4. Control'
    <2>1. CallIsExact(t)'
      BY <1>1, <1>2 DEF CallIsExact, Closing, Connecting, Requesting, Preparing, Trying,
         InUse, Sending
    <2>2. NumbersAreOwn(t)'
      BY <1>1, <1>2 DEF NumbersAreOwn
    <2>3. QED
      BY <1>1, <1>2, <2>1, <2>2, OutsideControl
  <1>5. Enough'
    <2>1. t \notin Needing' /\ ~InUse(t)' /\ me'[t].at \notin {"x_start", "x_prepare"}
      BY <1>2 DEF Needing, InUse, Sending
    <2>2. QED
      BY <1>2, <2>1, OutsideEnough
  <1>6. QED
    BY <1>3, <1>4, <1>5
-----------------------------------------------------------------------------
(* A reply arrives, and is not awaited any more unless it is repeated.     *)
ReplyComes(s, r, kind, repeat) ==
    /\ r \in wire[s].pending
    /\ wire'[s].inbox = Append(wire[s].inbox,
                               [req |-> r, kind |-> kind, since |-> wire[s].checked,
                                whole |-> TRUE])
    /\ wire'[s].pending = IF repeat = 1 THEN wire[s].pending ELSE wire[s].pending \ {r}
    /\ wire'[s].flight = wire[s].flight
    /\ repeats' = repeats + repeat

(* A request reaches the PLC, awaited by its call or too late.             *)
Awaited(r) == \E t \in Threads : At(t, "x_receive") /\ me[t].req = r
RequestComes(s, r) ==
    /\ r \in wire[s].flight
    /\ received' = Append(received, r)
    /\ late' = IF Awaited(r) THEN late ELSE late \cup {r}
    /\ wire'[s].flight = wire[s].flight \ {r}
    /\ wire'[s].inbox = wire[s].inbox
    /\ wire'[s].pending \in {wire[s].pending, wire[s].pending \cup {r}}

(* One socket changes, and nothing of its state.                           *)
OnWire(s) ==
    /\ wire' \in [Sockets -> Links]
    /\ \A u \in Sockets \ {s} : wire'[u] = wire[u]
    /\ wire'[s].state = wire[s].state /\ wire'[s].checked = wire[s].checked

(* An answer of the PLC reaches one open socket, and nothing else changes. *)
LEMMA AnswerFacts ==
    ASSUME Typed, NEW s \in Sockets, Answer(s)
    PROVE  /\ OnWire(s) /\ repeats' \in Nat /\ State(s) \in {"open", "shut"}
           /\ UNCHANGED <<admission, client, me, received, late, requests>>
           /\ \E r \in 1..MaxRequests, kind \in Kinds, repeat \in {0, 1} :
                ReplyComes(s, r, kind, repeat)
  <1>1. /\ State(s) \in {"open", "shut"}
        /\ UNCHANGED <<admission, client, me, received, late, requests>>
    BY DEF Answer
  <1>2. PICK r \in wire[s].pending, kind \in Kinds, repeat \in {0, 1} :
          /\ repeats' = repeats + repeat
          /\ wire' = [wire EXCEPT
                        ![s].inbox = Append(@, [req |-> r, kind |-> kind,
                                                since |-> wire[s].checked,
                                                whole |-> TRUE]),
                        ![s].pending = IF repeat = 1 THEN @ ELSE @ \ {r}]
    BY DEF Answer
  <1>3. PICK w \in Links : w = wire[s]
    BY DEF Typed
  <1>4. PICK reply : reply = [req |-> r, kind |-> kind, since |-> w.checked,
                              whole |-> TRUE]
    OBVIOUS
  <1>5. r \in 1..MaxRequests /\ reply \in Answers
    BY <1>2, <1>3, <1>4, ClientAssumption DEF Links, Answers
  <1>6. PICK inbox \in Seq(Answers) : inbox = Append(w.inbox, reply)
    <2>1. PICK lines \in Seq(Answers) : lines = w.inbox
      BY DEF Links
    <2>2. Append(lines, reply) \in Seq(Answers)
      BY <1>5, <2>1
    <2>3. QED
      BY <2>1, <2>2
  <1>7. PICK pending \in SUBSET (1..MaxRequests) :
          pending = IF repeat = 1 THEN w.pending ELSE w.pending \ {r}
    <2>1. PICK p \in SUBSET (1..MaxRequests) : p = w.pending
      BY DEF Links
    <2>2. QED
      BY <2>1
  <1>8. PICK v : v = [w EXCEPT !.inbox = inbox, !.pending = pending]
    OBVIOUS
  <1>9. v \in Links /\ v.state = w.state /\ v.checked = w.checked
        /\ v.inbox = inbox /\ v.pending = pending /\ v.flight = w.flight
    BY <1>8 DEF Links
  <1>10. wire' = [wire EXCEPT ![s] = v]
    <2>1. wire \in [Sockets -> Links]
      BY DEF Typed
    <2>2. wire' = [wire EXCEPT
                     ![s] = [w EXCEPT !.inbox = inbox, !.pending = pending]]
      <3>1. wire' = [wire EXCEPT
                       ![s].inbox = inbox, ![s].pending = pending]
        BY <1>2, <1>3, <1>4, <1>6, <1>7, <2>1 DEF Links
      <3>2. QED
        BY <1>3, <2>1, <3>1 DEF Links
    <2>3. QED
      BY <1>8, <2>2
  <1>11. OnWire(s) /\ wire'[s] = v
    BY <1>3, <1>9, <1>10, LinkFacts DEF OnWire
  <1>12. ReplyComes(s, r, kind, repeat)
    BY <1>2, <1>3, <1>4, <1>6, <1>7, <1>9, <1>11 DEF ReplyComes
  <1>13. repeats' \in Nat
    BY <1>2 DEF Typed
  <1>14. QED
    BY <1>1, <1>5, <1>11, <1>12, <1>13

(* A peer that hangs up ends what was pending on one socket, not what has  *)
(* arrived.                                                                *)
LEMMA HangUpFacts ==
    ASSUME Typed, NEW s \in Sockets, HangUp(s)
    PROVE  /\ OnWire(s) /\ UNCHANGED <<admission, client, me, peer>>
           /\ wire'[s].inbox = wire[s].inbox /\ wire'[s].pending = {}
           /\ wire'[s].flight = wire[s].flight /\ State(s) = "open"
  <1>1. /\ State(s) = "open" /\ UNCHANGED <<admission, client, me, peer>>
        /\ wire' = [wire EXCEPT ![s].eof = TRUE, ![s].pending = {}]
    BY DEF HangUp
  <1>2. PICK w \in Links : w = wire[s]
    BY DEF Typed
  <1>3. PICK v : v = [w EXCEPT !.eof = TRUE, !.pending = {}]
    OBVIOUS
  <1>4. v \in Links /\ v.state = w.state /\ v.checked = w.checked
        /\ v.inbox = w.inbox /\ v.pending = {} /\ v.flight = w.flight
    BY <1>3 DEF Links
  <1>5. wire' = [wire EXCEPT ![s] = v]
    BY <1>1, <1>2, <1>3 DEF Typed, Links
  <1>6. OnWire(s) /\ wire'[s] = v
    BY <1>2, <1>4, <1>5, LinkFacts DEF OnWire
  <1>7. QED
    BY <1>1, <1>2, <1>4, <1>6

(* A request that gets to the PLC leaves one socket, and nothing else      *)
(* changes.                                                                *)
LEMMA ArriveFacts ==
    ASSUME Typed, NEW s \in Sockets, Arrive(s)
    PROVE  /\ OnWire(s)
           /\ UNCHANGED <<admission, client, me, requests, repeats>>
           /\ received' \in Seq(1..MaxRequests) /\ late' \subseteq 1..MaxRequests
           /\ \E r \in 1..MaxRequests : RequestComes(s, r)
  <1>1. UNCHANGED <<admission, client, me, requests, repeats>>
    BY DEF Arrive
  <1>2. PICK r \in wire[s].flight :
          /\ received' = Append(received, r)
          /\ late' = IF Awaited(r) THEN late ELSE late \cup {r}
          /\ wire' = [wire EXCEPT
                        ![s].flight = @ \ {r},
                        ![s].pending = IF State(s) = "closed" \/ wire[s].eof
                                         THEN @ ELSE @ \cup {r}]
    BY DEF Arrive, Awaited
  <1>3. PICK w \in Links : w = wire[s]
    BY DEF Typed
  <1>4. r \in 1..MaxRequests
    BY <1>2, <1>3 DEF Links
  <1>5. PICK flight \in SUBSET (1..MaxRequests) : flight = w.flight \ {r}
    <2>1. PICK p \in SUBSET (1..MaxRequests) : p = w.flight
      BY DEF Links
    <2>2. QED
      BY <2>1
  <1>6. PICK pending \in SUBSET (1..MaxRequests) :
          /\ pending = IF State(s) = "closed" \/ wire[s].eof
                         THEN w.pending ELSE w.pending \cup {r}
          /\ pending \in {w.pending, w.pending \cup {r}}
    <2>1. PICK p \in SUBSET (1..MaxRequests) : p = w.pending
      BY DEF Links
    <2>2. QED
      BY <1>4, <2>1
  <1>7. PICK v : v = [w EXCEPT !.flight = flight, !.pending = pending]
    OBVIOUS
  <1>8. v \in Links /\ v.state = w.state /\ v.checked = w.checked
        /\ v.inbox = w.inbox /\ v.pending = pending /\ v.flight = flight
    BY <1>7 DEF Links
  <1>9. wire' = [wire EXCEPT ![s] = v]
    <2>1. wire \in [Sockets -> Links]
      BY DEF Typed
    <2>2. wire' = [wire EXCEPT ![s].flight = flight, ![s].pending = pending]
      BY <1>2, <1>3, <1>5, <1>6, <2>1 DEF Links
    <2>3. wire' = [wire EXCEPT
                     ![s] = [w EXCEPT !.flight = flight, !.pending = pending]]
      BY <1>3, <2>1, <2>2 DEF Links
    <2>4. QED
      BY <1>7, <2>3
  <1>10. OnWire(s) /\ wire'[s] = v
    BY <1>3, <1>8, <1>9, LinkFacts DEF OnWire
  <1>11. received' \in Seq(1..MaxRequests) /\ late' \subseteq 1..MaxRequests
    BY <1>2, <1>4 DEF Typed
  <1>12. RequestComes(s, r)
    BY <1>2, <1>3, <1>5, <1>6, <1>8, <1>10 DEF RequestComes
  <1>13. QED
    BY <1>1, <1>4, <1>10, <1>11, <1>12

(* What the peer does concerns no call.                                    *)
LEMMA PeerFirst ==
    ASSUME Typed, Control, Enough, NEW s \in Sockets,
           Arrive(s) \/ Answer(s) \/ HangUp(s)
    PROVE  Typed' /\ Control' /\ Enough'
  <1>1. /\ OnWire(s) /\ UNCHANGED <<admission, client, me, requests>>
        /\ repeats' \in Nat
        /\ received' \in Seq(1..MaxRequests) /\ late' \subseteq 1..MaxRequests
    BY ArriveFacts, AnswerFacts, HangUpFacts DEF peer, Typed
  <1>2. Typed'
    BY <1>1 DEF Typed, OnWire
  <1>3. Control'
    BY <1>1 DEF Control, CallIsExact, NumbersAreOwn, Closing, Connecting, Requesting,
       Preparing, Trying, InUse, Sending, Transport, admission
  <1>4. Unused' = Unused /\ Needing' = Needing
    BY <1>1 DEF OnWire, Unused, Needing, Again, Changing, Creates, Transport
  <1>5. Enough'
    BY <1>1, <1>4 DEF Enough, InUse, Sending, Again, Changing
  <1>6. QED
    BY <1>2, <1>3, <1>5

(* A step that changes nothing keeps the first layers.                     *)
LEMMA StutterFirst ==
    ASSUME Typed, Control, Enough, UNCHANGED vars PROVE Typed' /\ Control' /\ Enough'
  <1>1. UNCHANGED <<admission, client, me, wire, received, late, requests, repeats>>
    BY DEF vars, peer
  <1>2. Typed'
    BY <1>1 DEF Typed
  <1>3. Control'
    BY <1>1 DEF Control, CallIsExact, NumbersAreOwn, Closing, Connecting, Requesting,
       Preparing, Trying, InUse, Sending, Transport, admission
  <1>4. Unused' = Unused /\ Needing' = Needing
    BY <1>1 DEF Unused, Needing, Again, Changing, Creates, Transport
  <1>5. Enough'
    BY <1>1, <1>4 DEF Enough, InUse, Sending, Again, Changing
  <1>6. QED
    BY <1>2, <1>3, <1>5

(* The first layers hold of a new client.                                  *)
LEMMA InitFirst == Init => Typed /\ Control /\ Enough
  <1> SUFFICES ASSUME Init PROVE Typed /\ Control /\ Enough
    OBVIOUS
  <1>1. /\ Idle \in Calls /\ Idle.at = "idle" /\ Idle.taken = {} /\ Idle.op = "none"
        /\ Idle.req = 0 /\ Idle.alters = 0
    BY FreshFacts DEF Idle, Calls, Labels, Outcomes, AllOperations
  <1>2. \A t \in Threads : me[t] = Idle /\ pc[t] = "outside"
    BY DEF Init, Adm!Init
  <1>3. client \in Clients /\ ~client.udpConnected
    <2>1. PICK transport \in Transports : client = Disconnected(transport)
      BY DEF Init
    <2>2. Disconnected(transport) \in Clients /\ Disconnected(transport).udpConnected = FALSE
      BY DEF Disconnected, Clients
    <2>3. QED
      BY <2>1, <2>2
  <1>4. Typed
    BY <1>1, <1>3, FreshFacts, ClientAssumption DEF Init, Typed
  <1>5. Control
    BY <1>1, <1>2, <1>3 DEF Control, CallIsExact, NumbersAreOwn, Closing, Connecting,
       Requesting, Preparing, Trying, InUse, Sending
  <1>6. Enough
    <2>1. Needing = {}
      BY <1>1, <1>2 DEF Needing
    <2>2. IsFiniteSet(Unused)
      <3>1. IsFiniteSet(Sockets)
        BY FS_Interval, ClientAssumption DEF Sockets
      <3>2. QED
        BY <3>1, FS_Subset DEF Unused
    <2>3. IsFiniteSet(Needing) /\ Cardinality(Unused) >= Cardinality(Needing)
      BY <2>1, <2>2, FS_EmptySet, FS_CardinalityType
    <2>4. \A t \in Threads : ~InUse(t) /\ me[t].at \notin {"x_start", "x_prepare"}
      BY <1>1, <1>2 DEF InUse, Sending
    <2>5. QED
      BY <2>3, <2>4 DEF Enough
  <1>7. QED
    BY <1>4, <1>5, <1>6

(* The second layer holds in every reachable state.                        *)
First == Admission /\ Typed /\ Control /\ Enough

(* Every step keeps the first layers.                                      *)
LEMMA StepFirst == First /\ [Next]_vars => Typed' /\ Control' /\ Enough'
  <1> SUFFICES ASSUME First, [Next]_vars PROVE Typed' /\ Control' /\ Enough'
    OBVIOUS
  <1> USE DEF First
  <1>1. CASE \E t \in Threads : Proceed(t)
    BY <1>1, ProceedMoves, EndingFirst, GoingFirst, AdmittedFirst, RejectedFirst, CloseFirst
  <1>2. CASE \E t \in Threads : CloseInvalidate(t)
    BY <1>2, CloseFirst
  <1>3. CASE \E t \in Threads, o \in Operations : Begin(t, o)
    BY <1>3, BeginFirst
  <1>4. CASE \E s \in Sockets : Arrive(s) \/ Answer(s) \/ HangUp(s)
    BY <1>4, PeerFirst
  <1>5. CASE Done \/ UNCHANGED vars
    BY <1>5, StutterFirst DEF Done
  <1>6. QED
    BY <1>1, <1>2, <1>3, <1>4, <1>5 DEF Next

(* The first layers hold in every reachable state.                         *)
LEMMA FirstHolds == Spec => []First
  <1>1. Init => Typed /\ Control /\ Enough
    BY InitFirst
  <1>2. Admission /\ (Typed /\ Control /\ Enough) /\ [Next]_vars =>
          (Typed /\ Control /\ Enough)'
    BY StepFirst DEF First
  <1>3. First <=> Admission /\ (Typed /\ Control /\ Enough)
    BY DEF First
  <1>4. QED
    BY <1>1, <1>2, <1>3, AdmissionHolds, PTL DEF Spec
-----------------------------------------------------------------------------
(* The third layer: whose each socket is, seen from the call in its turn.  *)
TakenByOthers(t, s) == \E u \in Threads \ {t} : s \in me[u].taken

Owns(t) ==
    /\ client.connecting # NoSocket => Trying(t) /\ me[t].mine = client.connecting
    /\ client.sock # NoSocket => State(client.sock) # "unused"
    /\ CallHasSocket(t)
    /\ generation = 0 =>
         /\ CallKeepsSocket(t)
         /\ Transport = "udp" /\ client.sock # NoSocket => client.udpConnected
    /\ \A s \in Sockets : State(s) = "unused" => wire[s] = Fresh
    /\ \A s \in Sockets : State(s) \in {"open", "shut"} =>
         \/ s \in {client.sock, client.connecting}
         \/ Preparing(t) /\ s = me[t].mine
         \/ TakenByOthers(t, s)
    /\ SteadyConnection

(* A call in its turn owns what no other call does.                        *)
LEMMA OwnsOne ==
    ASSUME First, Ownership, NEW t \in Threads, InTurn(t) PROVE Owns(t)
  <1>1. me[t].taken = {} /\ \A u \in Threads : InTurn(u) => u = t
    BY InTurnFacts DEF First
  <1>2. \A u \in Threads : Trying(u) \/ Preparing(u) => InTurn(u)
    BY DEF Trying, Preparing, InTurn, Closing
  <1>3. client.connecting # NoSocket => Trying(t) /\ me[t].mine = client.connecting
    BY <1>1, <1>2 DEF Ownership
  <1>4. ASSUME NEW s \in Sockets, State(s) \in {"open", "shut"}
        PROVE  \/ s \in {client.sock, client.connecting}
               \/ Preparing(t) /\ s = me[t].mine
               \/ TakenByOthers(t, s)
    <2>1. \/ s \in {client.sock, client.connecting}
          \/ \E u \in Threads : s \in me[u].taken \/ (s = me[u].mine /\ Preparing(u))
      BY <1>4 DEF Ownership, OpenSocketsAreOwned, Preparing
    <2>2. QED
      BY <1>1, <1>2, <2>1 DEF TakenByOthers
  <1>5. QED
    BY <1>3, <1>4 DEF Ownership, Owns

(* So everybody does, when it does.                                        *)
LEMMA OwnsAll ==
    ASSUME First, Ownership, NEW t \in Threads, InTurn(t), Keeps(t), Owns(t)',
           generation' = generation,
           \A s \in Sockets : State(s)' = "unused" => State(s) = "unused"
    PROVE  Ownership'
  <1>1. \A u \in Threads : me'[u].taken = me[u].taken /\ (u # t => me'[u] = me[u])
    BY DEF Keeps
  <1>2. ASSUME NEW u \in Threads, u # t
        PROVE  CallHasSocket(u)' /\ CallKeepsSocket(u)'
    <2>1. ~InTurn(u) /\ me'[u] = me[u]
      BY <1>1, <1>2, InTurnFacts DEF First
    <2>2. ~Connecting(u)' /\ ~Trying(u)' /\ ~Preparing(u)' /\ ~InUse(u)'
      BY <2>1 DEF InTurn, Closing, Connecting, Trying, Preparing, InUse, Sending
    <2>3. QED
      BY <2>2 DEF CallHasSocket, CallKeepsSocket
  <1>3. client'.connecting # NoSocket =>
          \E u \in Threads : Trying(u)' /\ me'[u].mine = client'.connecting
    BY DEF Owns
  <1>4. ASSUME NEW u \in Threads, NEW s \in me'[u].taken PROVE State(s)' # "unused"
    <2>1. s \in Sockets /\ State(s) # "unused"
      BY <1>1, <1>4 DEF Ownership, First, Typed, Calls
    <2>2. QED
      BY <2>1
  <1>5. OpenSocketsAreOwned'
    <2>1. ASSUME NEW s \in Sockets, State(s)' \in {"open", "shut"}
          PROVE  \/ s \in {client'.sock, client'.connecting}
                 \/ \E u \in Threads : s \in me'[u].taken \/ (s = me'[u].mine /\ Preparing(u)')
      BY <2>1 DEF Owns, TakenByOthers
    <2>2. QED
      BY <2>1 DEF OpenSocketsAreOwned, Preparing
  <1>6. \A u \in Threads : CallHasSocket(u)'
    BY <1>2 DEF Owns
  <1>7. generation' = 0 => \A u \in Threads : CallKeepsSocket(u)'
    BY <1>2 DEF Owns
  <1>8. QED
    BY <1>3, <1>4, <1>5, <1>6, <1>7 DEF Ownership, Owns

(* What no call in its turn changes.                                       *)
Untaken(t) ==
    /\ Keeps(t) /\ generation' = generation
    /\ \A s \in Sockets : TakenByOthers(t, s)' <=> TakenByOthers(t, s)
    /\ client'.transport = client.transport /\ client' \in Clients

(* A call in its turn, of those that end or go on, has taken nothing as a  *)
(* close().                                                                *)
LEMMA MovesUntaken ==
    ASSUME First, NEW t \in Threads, Ending(t) \/ Going(t)
    PROVE  Untaken(t) /\ InTurn(t)
  <1>1. Keeps(t) /\ client' \in Clients /\ client'.transport = client.transport
        /\ (UNCHANGED admission \/ Adm!Exit(t))
    BY EndingFacts, GoingOnward DEF First, Ends
  <1>2. generation' = generation
    BY <1>1 DEF admission, Adm!Exit
  <1>3. \A s \in Sockets : TakenByOthers(t, s)' <=> TakenByOthers(t, s)
    BY <1>1 DEF TakenByOthers, Keeps
  <1>4. QED
    BY <1>1, <1>2, <1>3, EndingInTurn, GoingInTurn DEF Untaken

(* An ended call has no socket.                                            *)
LEMMA EndedHasNone ==
    ASSUME NEW t \in Threads, me'[t].at = "idle"
    PROVE  /\ CallHasSocket(t)' /\ CallKeepsSocket(t)'
           /\ ~Trying(t)' /\ ~Preparing(t)'
  BY DEF CallHasSocket, CallKeepsSocket, Connecting, Trying, Preparing, InUse, Sending
-----------------------------------------------------------------------------
(* The ends of a call, one by one.                                         *)
LEMMA ReturnsOwns ==
    ASSUME First, NEW t \in Threads, Owns(t), Untaken(t),
           NEW outcome, NEW sent, Returns(t, outcome, sent)
    PROVE  Owns(t)' /\ \A s \in Sockets : State(s)' = "unused" => State(s) = "unused"
  <1>1. /\ ClientStays /\ wire' = wire /\ me'[t].at = "idle" /\ generation' = generation
        /\ me[t].at \in {"c_start", "x_start", "x_decode"}
    BY DEF Returns, Ends, Untaken
  <1>2. ~Trying(t) /\ ~Preparing(t) /\ client.connecting = NoSocket
    BY <1>1 DEF Owns, Trying, Preparing
  <1>3. SteadyConnection'
    BY <1>1 DEF Owns, SteadyConnection, MonitorIsOfConnection, PublishedSocketIsOpen,
       ClientStays, ClientIs, State, Transport
  <1>4. ASSUME NEW s \in Sockets, State(s)' \in {"open", "shut"}
        PROVE  s \in {client'.sock, client'.connecting} \/ TakenByOthers(t, s)'
    BY <1>1, <1>2, <1>4 DEF Owns, ClientStays, ClientIs, Untaken, State
  <1>5. QED
    BY <1>1, <1>2, <1>3, <1>4, EndedHasNone DEF Owns, ClientStays, ClientIs, State, Transport

(* A call that closes its new socket and ends leaves every socket owned.   *)
LEMMA GivesUpOwns ==
    ASSUME First, NEW t \in Threads, Owns(t), Untaken(t),
           NEW outcome, GivesUp(t, outcome)
    PROVE  Owns(t)' /\ \A s \in Sockets : State(s)' = "unused" => State(s) = "unused"
  <1>1. /\ Trying(t) /\ me'[t].at = "idle" /\ generation' = generation
        /\ ClientIs(client.sock,
                IF client.connecting = me[t].mine THEN NoSocket ELSE client.connecting,
                client.udpConnected, client.monitor)
        /\ wire' = WithClosed(wire, {me[t].mine})
    BY DEF GivesUp, Ends, Untaken
  <1>2. CallIsExact(t) /\ CallHasSocket(t)
    BY DEF First, Control, Owns
  <1>3. /\ me[t].mine \in Sockets /\ client.sock = NoSocket /\ ~client.udpConnected
        /\ client'.sock = NoSocket /\ client'.connecting = NoSocket
        /\ client.connecting \in {NoSocket, me[t].mine}
    BY <1>1, <1>2 DEF CallIsExact, CallHasSocket, Connecting, Trying, ClientIs
  <1>4. /\ \A s \in Sockets \ {me[t].mine} : wire'[s] = wire[s]
        /\ \A s \in Sockets : State(s) = "unused" => wire'[s] = wire[s]
        /\ \A s \in Sockets : State(s)' = "unused" <=> State(s) = "unused"
        /\ wire'[me[t].mine].state \in {"unused", "closed"}
    <2>1. PICK S : S = {me[t].mine}
      OBVIOUS
    <2>2. wire' = WithClosed(wire, S)
      BY <1>1, <2>1
    <2>3. /\ \A s \in Sockets \ S : wire'[s] = wire[s]
          /\ \A s \in Sockets : State(s) = "unused" => wire'[s] = wire[s]
          /\ \A s \in Sockets : State(s)' = "unused" <=> State(s) = "unused"
          /\ \A s \in Sockets : s \in S => State(s)' \in {"unused", "closed"}
      BY <2>2, ClosedFacts DEF First
    <2>4. wire'[me[t].mine].state \in {"unused", "closed"}
      BY <1>3, <2>1, <2>3 DEF State
    <2>5. QED
      BY <2>1, <2>3, <2>4
  <1>5. SteadyConnection'
    BY <1>1, <1>3 DEF Owns, SteadyConnection, MonitorIsOfConnection, PublishedSocketIsOpen,
       ClientIs, Transport
  <1>6. ASSUME NEW s \in Sockets, State(s)' \in {"open", "shut"}
        PROVE  TakenByOthers(t, s)'
    <2>1. s # me[t].mine /\ wire'[s] = wire[s]
      BY <1>4, <1>6 DEF State
    <2>2. s # NoSocket /\ ~Preparing(t)
      BY <1>1 DEF Sockets, NoSocket, Trying, Preparing
    <2>3. TakenByOthers(t, s)
      BY <1>3, <1>6, <2>1, <2>2 DEF Owns, State
    <2>4. QED
      BY <2>3 DEF Untaken
  <1>7. QED
    BY <1>1, <1>3, <1>4, <1>5, <1>6, EndedHasNone DEF Owns, ClientIs, State, Transport

(* A call that closes the socket it has just created leaves every socket   *)
(* owned.                                                                  *)
LEMMA BurnsOwns ==
    ASSUME First, NEW t \in Threads, Owns(t), Untaken(t),
           NEW outcome, Burns(t, outcome)
    PROVE  Owns(t)' /\ \A s \in Sockets : State(s)' = "unused" => State(s) = "unused"
  <1>1. /\ me[t].at = "c_open" /\ me'[t].at = "idle" /\ generation' = generation
        /\ ClientStays /\ wire' = [wire EXCEPT ![NextSocket].state = "closed"]
    BY DEF Burns, Ends, Untaken
  <1>2. /\ client.sock = NoSocket /\ ~client.udpConnected /\ client.connecting = NoSocket
        /\ ~Preparing(t)
    BY <1>1 DEF Owns, CallHasSocket, Connecting, Trying, Preparing
  <1>3. NextSocket \in Sockets /\ State(NextSocket) = "unused"
    BY <1>1, CreatingFacts DEF First
  <1>4. PICK n \in Sockets, state \in {"open", "shut", "closed"} :
          n = NextSocket /\ state = "closed"
    BY <1>3
  <1>5. wire' = [wire EXCEPT ![n].state = state]
    BY <1>1, <1>4
  <1>6. wire'[n].state = "closed" /\ \A s \in Sockets \ {n} : wire'[s] = wire[s]
    BY <1>4, <1>5, StateFacts DEF First
  <1>7. SteadyConnection'
    BY <1>1, <1>2 DEF Owns, SteadyConnection, MonitorIsOfConnection, PublishedSocketIsOpen,
       ClientStays, ClientIs, Transport
  <1>8. ASSUME NEW s \in Sockets, State(s)' \in {"open", "shut"}
        PROVE  TakenByOthers(t, s)'
    <2>1. s # n /\ wire'[s] = wire[s] /\ s # NoSocket
      BY <1>6, <1>8 DEF State, Sockets, NoSocket
    <2>2. TakenByOthers(t, s)
      BY <1>2, <1>8, <2>1 DEF Owns, State
    <2>3. QED
      BY <2>2 DEF Untaken
  <1>9. \A s \in Sockets : State(s)' = "unused" => State(s) = "unused" /\ wire'[s] = wire[s]
    BY <1>6 DEF State
  <1>10. QED
    BY <1>1, <1>2, <1>7, <1>8, <1>9, EndedHasNone DEF Owns, ClientStays, ClientIs, State, Transport

(* A call that hands its socket to the client leaves every socket owned.   *)
LEMMA AdoptsOwns ==
    ASSUME First, NEW t \in Threads, Owns(t), Untaken(t),
           NEW outcome, NEW connected, Adopts(t, outcome, connected)
    PROVE  Owns(t)' /\ \A s \in Sockets : State(s)' = "unused" => State(s) = "unused"
  <1>1. /\ me[t].at = "c_adopt" /\ Trying(t) /\ me'[t].at = "idle"
        /\ generation' = generation /\ wire' = wire
        /\ ClientIs(me[t].mine, NoSocket, connected, client.monitor)
    BY DEF Adopts, Ends, Untaken, Trying
  <1>2. /\ client.sock = NoSocket /\ ~client.udpConnected
        /\ client.connecting \in {NoSocket, me[t].mine} /\ me[t].mine \in Sockets
        /\ State(me[t].mine) # "unused" /\ ~Preparing(t)
        /\ (generation = 0 => State(me[t].mine) = "open")
    BY <1>1 DEF First, Control, CallIsExact, Owns, CallHasSocket, CallKeepsSocket, Connecting,
       Trying, Preparing
  <1>3. generation = 0 => (Transport = "udp" => connected)
    BY <1>2 DEF Adopts
  <1>4. SteadyConnection'
    <2>1. ASSUME generation = 0 PROVE client.monitor = NoSocket
      BY <1>2, <2>1 DEF Owns, SteadyConnection, MonitorIsOfConnection
    <2>2. QED
      BY <1>1, <1>2, <2>1 DEF SteadyConnection, MonitorIsOfConnection, PublishedSocketIsOpen,
         ClientIs, State
  <1>5. ASSUME NEW s \in Sockets, State(s)' \in {"open", "shut"}
        PROVE  s = client'.sock \/ TakenByOthers(t, s)'
    <2>1. s # NoSocket
      BY DEF Sockets, NoSocket
    <2>2. s = me[t].mine \/ TakenByOthers(t, s)
      BY <1>1, <1>2, <1>5, <2>1 DEF Owns, State
    <2>3. QED
      BY <1>1, <2>2 DEF Untaken, ClientIs
  <1>6. QED
    BY <1>1, <1>2, <1>3, <1>4, <1>5, EndedHasNone DEF Owns, ClientIs, State, Transport

(* A call that retires the connection leaves every socket owned.           *)
LEMMA RetiresOwns ==
    ASSUME First, NEW t \in Threads, Owns(t), Untaken(t),
           NEW outcome, NEW sent, Retires(t, outcome, sent)
    PROVE  Owns(t)' /\ \A s \in Sockets : State(s)' = "unused" => State(s) = "unused"
  <1>1. /\ me[t].at = "x_prepare" \/ Preparing(t) \/ InUse(t)
        /\ me'[t].at = "idle" /\ generation' = generation
        /\ IF Transport = "udp"
             THEN ClientIs(NoSocket, client.connecting, client.udpConnected, client.monitor)
             ELSE ClientIs(NoSocket, NoSocket, FALSE, NoSocket)
    BY DEF Retires, Ends, Untaken
  <1>2. PICK S : S = RetiredSockets \cup (IF Preparing(t) THEN {me[t].mine} ELSE {})
    OBVIOUS
  <1>3. /\ \A s \in Sockets \ S : wire'[s] = wire[s]
        /\ \A s \in Sockets : State(s) = "unused" => wire'[s] = wire[s]
        /\ \A s \in Sockets : State(s)' = "unused" <=> State(s) = "unused"
        /\ \A s \in Sockets : s \in S => State(s)' \in {"unused", "closed"}
    <2>1. wire' = WithClosed(wire, S)
      BY <1>2 DEF Retires
    <2>2. QED
      BY <2>1, ClosedFacts DEF First
  <1>4. ~Trying(t) /\ client.connecting = NoSocket
    BY <1>1 DEF Owns, Trying, Preparing, InUse, Sending
  <1>5. client'.sock = NoSocket /\ client'.connecting = NoSocket
        /\ client'.transport = client.transport
        /\ (Transport = "udp" => client'.udpConnected = client.udpConnected
                                  /\ client'.monitor = client.monitor)
        /\ (Transport # "udp" => client'.monitor = NoSocket)
    BY <1>1, <1>4 DEF ClientIs
  <1>6. SteadyConnection'
    BY <1>1, <1>5 DEF Owns, SteadyConnection, MonitorIsOfConnection, PublishedSocketIsOpen,
       Transport
  <1>7. ASSUME NEW s \in Sockets, State(s)' \in {"open", "shut"}
        PROVE  TakenByOthers(t, s)'
    <2>1. s \notin S /\ wire'[s] = wire[s] /\ s # NoSocket
      BY <1>3, <1>7 DEF State, Sockets, NoSocket
    <2>2. s # client.sock /\ ~(Preparing(t) /\ s = me[t].mine)
      BY <1>2, <2>1 DEF RetiredSockets
    <2>3. TakenByOthers(t, s)
      BY <1>4, <1>7, <2>1, <2>2 DEF Owns, State
    <2>4. QED
      BY <2>3 DEF Untaken
  <1>8. QED
    BY <1>1, <1>3, <1>5, <1>6, <1>7, EndedHasNone DEF Owns, State, Transport

(* A call that notes the monitor leaves every socket owned.                *)
LEMMA NotesOwns ==
    ASSUME First, NEW t \in Threads, Owns(t), Untaken(t), Notes(t)
    PROVE  Owns(t)' /\ \A s \in Sockets : State(s)' = "unused" => State(s) = "unused"
  <1>1. /\ me[t].at = "x_note" /\ InUse(t) /\ me'[t].at = "idle"
        /\ generation' = generation /\ wire' = wire
        /\ ClientIs(client.sock, client.connecting, client.udpConnected, me[t].mine)
    BY DEF Notes, Ends, Untaken, InUse, Sending
  <1>2. ~Trying(t) /\ ~Preparing(t) /\ client.connecting = NoSocket
    BY <1>1 DEF Owns, Trying, Preparing
  <1>3. generation = 0 => client.sock = me[t].mine
    BY <1>1 DEF Owns, CallKeepsSocket
  <1>4. SteadyConnection'
    BY <1>1, <1>3, PartTypes DEF Owns, SteadyConnection, MonitorIsOfConnection,
       PublishedSocketIsOpen, ClientIs, State, Transport, First
  <1>5. ASSUME NEW s \in Sockets, State(s)' \in {"open", "shut"}
        PROVE  s \in {client'.sock, client'.connecting} \/ TakenByOthers(t, s)'
    BY <1>1, <1>2, <1>5 DEF Owns, ClientIs, Untaken, State
  <1>6. QED
    BY <1>1, <1>2, <1>4, <1>5, EndedHasNone DEF Owns, ClientIs, State, Transport
-----------------------------------------------------------------------------
(* The other steps of a call, one by one.                                  *)
(* Those that leave sockets and client alone.                              *)
LEMMA SteadyStays ==
    ASSUME SteadyConnection, ClientStays, generation' = generation,
           client.sock # NoSocket =>
             (State(client.sock) = "open" => wire'[client.sock].state = "open")
    PROVE  SteadyConnection'
  BY DEF SteadyConnection, MonitorIsOfConnection, PublishedSocketIsOpen, ClientStays,
     ClientIs, State, Transport

(* The same socket in another part of its use.                             *)
LEMMA SameSocketOwns ==
    ASSUME NEW t \in Threads, Owns(t), Untaken(t), ClientStays,
           me'[t].mine = me[t].mine,
           Trying(t)' <=> Trying(t), Preparing(t)' <=> Preparing(t), InUse(t)' => InUse(t),
           me'[t].at = "c_open" => ~Connected,
           \A s \in Sockets : State(s)' = State(s) /\ (State(s) = "unused" => wire'[s] = wire[s]),
           client.sock \in Sockets \cup {NoSocket}, me[t].mine \in Sockets \cup {NoSocket},
           Trying(t) \/ Preparing(t) \/ InUse(t) => me[t].mine \in Sockets
    PROVE  Owns(t)'
  <1>1. /\ client'.sock = client.sock /\ client'.connecting = client.connecting
        /\ client'.udpConnected = client.udpConnected
        /\ client'.transport = client.transport /\ generation' = generation
    BY DEF ClientStays, ClientIs, Untaken
  <1>2. client.sock # NoSocket => wire'[client.sock].state = State(client.sock)
    BY DEF State
  <1>3. SteadyConnection'
    BY <1>1, <1>2, SteadyStays DEF Owns
  <1>4. CallHasSocket(t)'
    <2>1. Trying(t) \/ Preparing(t) \/ InUse(t) => State(me[t].mine)' = State(me[t].mine)
      BY DEF State
    <2>2. Connecting(t)' /\ me'[t].at # "c_start" => Trying(t) \/ me'[t].at = "c_open"
      BY DEF Connecting, Trying
    <2>3. Connecting(t)' /\ me'[t].at # "c_start" =>
            client.sock = NoSocket /\ ~client.udpConnected
      BY <2>2 DEF Owns, CallHasSocket, Connecting, Connected, Trying
    <2>4. Trying(t) \/ Preparing(t) \/ InUse(t) =>
            wire'[me'[t].mine].state = State(me[t].mine)
      BY DEF State
    <2>5. QED
      BY <1>1, <2>3, <2>4 DEF Owns, CallHasSocket, State
  <1>5. generation' = 0 => CallKeepsSocket(t)'
    <2>1. Trying(t) \/ Preparing(t) \/ InUse(t) =>
            wire'[me'[t].mine].state = State(me[t].mine)
      BY DEF State
    <2>2. QED
      BY <1>1, <2>1 DEF Owns, CallKeepsSocket, State, Transport
  <1>6. ASSUME NEW s \in Sockets, State(s)' \in {"open", "shut"}
        PROVE  \/ s \in {client'.sock, client'.connecting}
               \/ Preparing(t)' /\ s = me'[t].mine
               \/ TakenByOthers(t, s)'
    BY <1>1, <1>6 DEF Owns, Untaken
  <1>7. QED
    BY <1>1, <1>2, <1>3, <1>4, <1>5, <1>6 DEF Owns, State, Transport

(* Which of the moves are like that.                                       *)
LEMMA QuietlyOwns ==
    ASSUME First, NEW t \in Threads, Owns(t), Untaken(t),
           \/ \E label \in Labels, got \in Replies : Walks(t, label, got) \/ Takes(t, label, got)
           \/ Checks(t) \/ Sends(t)
    PROVE  Owns(t)' /\ \A s \in Sockets : State(s)' = "unused" => State(s) = "unused"
  <1>1. Going(t) /\ CallIsExact(t) /\ ClientStays /\ me'[t].mine = me[t].mine
    BY DEF Going, First, Control, Walks, Takes, Checks, Sends, GoesOn
  <1>2. /\ Trying(t)' <=> Trying(t)
        /\ Preparing(t)' <=> Preparing(t)
        /\ InUse(t)' => InUse(t)
        /\ me'[t].at = "c_open" => ~Connected
    BY DEF Walks, Takes, Checks, Sends, GoesOn, Trying, Preparing, InUse, Sending
  <1>3. /\ client.sock \in Sockets \cup {NoSocket} /\ me[t].mine \in Sockets \cup {NoSocket}
        /\ Trying(t) \/ Preparing(t) \/ InUse(t) => me[t].mine \in Sockets
    BY <1>1, PartTypes DEF CallIsExact, First
  <1>4. \A s \in Sockets : State(s)' = State(s)
    BY <1>1, GoingWire DEF First, Walks, Takes, Checks, Sends, Opens, Prepares
  <1>5. ASSUME NEW s \in Sockets, State(s) = "unused" PROVE wire'[s] = wire[s]
    <2>1. CASE wire' = wire
      BY <2>1
    <2>2. CASE wire' # wire
      <3>1. InUse(t)
        BY <2>2 DEF Walks, Takes, Checks, Sends, InUse, Sending
      <3>2. s # me[t].mine
        BY <1>5, <3>1 DEF Owns, CallHasSocket
      <3>3. wire \in [Sockets -> Links]
        BY DEF First, Typed
      <3>4. QED
        BY <2>2, <3>2, <3>3 DEF Walks, Takes, Checks, Sends
    <2>3. QED
      BY <2>1, <2>2
  <1>6. Owns(t)'
    BY <1>1, <1>2, <1>3, <1>4, <1>5, SameSocketOwns
  <1>7. QED
    BY <1>4, <1>6

(* A call that goes on with the socket of the client leaves it owned.      *)
LEMMA UsesOwns ==
    ASSUME First, NEW t \in Threads, Owns(t), Untaken(t),
           NEW label \in Labels, Uses(t, label)
    PROVE  Owns(t)' /\ \A s \in Sockets : State(s)' = "unused" => State(s) = "unused"
  <1>1. /\ wire' = wire /\ ClientStays /\ me'[t].mine = client.sock /\ me'[t].at = label
        /\ me[t].at \in {"x_start", "x_prepare"} /\ generation' = generation
        /\ \/ label = "x_prepare"
           \/ label = "x_check" /\ client.sock # NoSocket
    BY DEF Uses, GoesOn, Untaken
  <1>2. ~Trying(t) /\ ~Preparing(t) /\ client.connecting = NoSocket
        /\ ~Trying(t)' /\ ~Preparing(t)' /\ ~Connecting(t)'
    BY <1>1 DEF Owns, Trying, Preparing, Connecting
  <1>3. SteadyConnection'
    BY <1>1, SteadyStays DEF Owns, State
  <1>4. CallHasSocket(t)' /\ CallKeepsSocket(t)'
    BY <1>1, <1>2 DEF Owns, CallHasSocket, CallKeepsSocket, InUse, Sending, State,
       ClientStays, ClientIs, Transport
  <1>5. ASSUME NEW s \in Sockets, State(s)' \in {"open", "shut"}
        PROVE  s \in {client'.sock, client'.connecting} \/ TakenByOthers(t, s)'
    BY <1>1, <1>2, <1>5 DEF Owns, ClientStays, ClientIs, Untaken, State
  <1>6. QED
    BY <1>1, <1>2, <1>3, <1>4, <1>5 DEF Owns, ClientStays, ClientIs, State, Transport

(* A call that creates a socket owns it.                                   *)
LEMMA CreatesOwns ==
    ASSUME First, NEW t \in Threads, Owns(t), Untaken(t), Opens(t) \/ Prepares(t)
    PROVE  Owns(t)' /\ \A s \in Sockets : State(s)' = "unused" => State(s) = "unused"
  <1>1. NextSocket \in Sockets /\ State(NextSocket) = "unused"
    BY CreatingFacts DEF First, Opens, Prepares
  <1>2. PICK n \in Sockets, state \in {"open", "shut", "closed"} :
          n = NextSocket /\ state = "open"
    BY <1>1
  <1>3. wire' = [wire EXCEPT ![n].state = state]
    BY <1>2 DEF Opens, Prepares
  <1>4. wire'[n].state = "open" /\ \A s \in Sockets \ {n} : wire'[s] = wire[s]
    BY <1>2, <1>3, StateFacts DEF First
  <1>5. /\ client.sock = NoSocket /\ client'.sock = NoSocket
        /\ ~Preparing(t) /\ ~Trying(t) /\ client.connecting = NoSocket
        /\ me'[t].mine = n /\ generation' = generation
        /\ client'.monitor = client.monitor
        /\ client'.udpConnected = client.udpConnected
        /\ client'.transport = client.transport
        /\ \/ /\ me'[t].at = "c_connect" /\ client'.connecting = n /\ ~client.udpConnected
           \/ /\ me'[t].at = "x_bind" /\ client'.connecting = NoSocket /\ client.udpConnected
    BY <1>2 DEF Owns, CallHasSocket, Connecting, Trying, Preparing, Opens, Prepares, GoesOn,
       Untaken, ClientStays, ClientIs
  <1>6. SteadyConnection'
    BY <1>5 DEF Owns, SteadyConnection, MonitorIsOfConnection, PublishedSocketIsOpen,
       Transport
  <1>7. CallHasSocket(t)' /\ CallKeepsSocket(t)'
    <2>1. State(n)' = "open"
      BY <1>4 DEF State
    <2>2. wire'[me'[t].mine].state = "open"
      BY <1>4, <1>5
    <2>3. QED
      BY <1>5, <2>2 DEF CallHasSocket, CallKeepsSocket, Connecting, Trying, Preparing, InUse,
         Sending, State
  <1>8. ASSUME NEW s \in Sockets, State(s)' \in {"open", "shut"}
        PROVE  \/ s \in {client'.sock, client'.connecting}
               \/ Preparing(t)' /\ s = me'[t].mine
               \/ TakenByOthers(t, s)'
    <2>1. CASE s = n
      BY <1>5, <2>1 DEF Preparing
    <2>2. CASE s # n
      <3>1. TakenByOthers(t, s)
        BY <1>4, <1>5, <1>8, <2>2 DEF Owns, State, Sockets, NoSocket
      <3>2. QED
        BY <3>1 DEF Untaken
    <2>3. QED
      BY <2>1, <2>2
  <1>9. client'.connecting # NoSocket => Trying(t)' /\ me'[t].mine = client'.connecting
    BY <1>5 DEF Trying
  <1>10. \A s \in Sockets : State(s)' = "unused" => State(s) = "unused" /\ wire'[s] = wire[s]
    BY <1>4 DEF State
  <1>11. QED
    BY <1>5, <1>6, <1>7, <1>8, <1>9, <1>10 DEF Owns, State

(* A call that binds its own new socket still owns it.                     *)
LEMMA BindsOwns ==
    ASSUME First, NEW t \in Threads, Owns(t), Untaken(t),
           NEW label \in Labels, Binds(t, label)
    PROVE  Owns(t)' /\ \A s \in Sockets : State(s)' = "unused" => State(s) = "unused"
  <1>1. /\ wire' = wire /\ me'[t].mine = me[t].mine /\ me'[t].at = label
        /\ me[t].at \in {"x_adopt", "x_accept"} /\ label \in {"x_check", "x_decode"}
        /\ Preparing(t) \/ InUse(t)
        /\ generation' = generation /\ Transport = "udp"
        /\ ClientIs(me[t].mine, client.connecting, client.udpConnected, client.monitor)
    BY DEF Binds, GoesOn, Untaken, Preparing, InUse, Sending
  <1>2. /\ me[t].mine \in Sockets /\ State(me[t].mine) # "unused"
        /\ client.sock \in {NoSocket, me[t].mine}
        /\ ~Trying(t) /\ client.connecting = NoSocket
        /\ generation = 0 => State(me[t].mine) = "open" /\ client.udpConnected
    <2>1. me[t].mine \in Sockets /\ me[t].mine # NoSocket
      BY <1>1 DEF First, Control, CallIsExact, Sockets, NoSocket
    <2>2. ~Trying(t) /\ client.connecting = NoSocket
      BY <1>1 DEF Owns, Trying
    <2>3. ASSUME generation = 0
          PROVE State(me[t].mine) = "open" /\ client.udpConnected
      BY <1>1, <2>1, <2>3 DEF Owns, CallKeepsSocket, SteadyConnection, PublishedSocketIsOpen
    <2>4. QED
      BY <1>1, <2>1, <2>2, <2>3 DEF Owns, CallHasSocket
  <1>3. SteadyConnection'
    BY <1>1, <1>2 DEF Owns, SteadyConnection, MonitorIsOfConnection, PublishedSocketIsOpen,
       ClientIs, State, Transport
  <1>4. CallHasSocket(t)' /\ CallKeepsSocket(t)' /\ ~Trying(t)' /\ ~Preparing(t)'
    BY <1>1, <1>2 DEF CallHasSocket, CallKeepsSocket, Connecting, Trying, Preparing, InUse,
       Sending, State, ClientIs, Transport
  <1>5. ASSUME NEW s \in Sockets, State(s)' \in {"open", "shut"}
        PROVE  s \in {client'.sock, client'.connecting} \/ TakenByOthers(t, s)'
    <2>1. s = me[t].mine \/ TakenByOthers(t, s)
      BY <1>1, <1>2, <1>5 DEF Owns, State, Sockets, NoSocket
    <2>2. QED
      BY <1>1, <2>1 DEF Untaken, ClientIs
  <1>6. QED
    BY <1>1, <1>2, <1>3, <1>4, <1>5 DEF Owns, ClientIs, State, Transport

(* The second request of a bit goes on with the socket of the first.       *)
LEMMA WritesBackOwns ==
    ASSUME First, NEW t \in Threads, Owns(t), Untaken(t), WritesBack(t)
    PROVE  Owns(t)' /\ \A s \in Sockets : State(s)' = "unused" => State(s) = "unused"
  <1>1. /\ wire' = wire /\ ClientStays /\ me'[t].at = "x_start"
        /\ me[t].at = "x_decode" /\ generation' = generation
    BY DEF WritesBack, Untaken
  <1>2. ~Trying(t) /\ ~Preparing(t) /\ client.connecting = NoSocket
        /\ ~Trying(t)' /\ ~Preparing(t)' /\ ~Connecting(t)' /\ ~InUse(t)'
    BY <1>1 DEF Owns, Trying, Preparing, Connecting, InUse, Sending
  <1>3. SteadyConnection'
    BY <1>1, SteadyStays DEF Owns, State
  <1>4. CallHasSocket(t)' /\ CallKeepsSocket(t)'
    BY <1>2 DEF CallHasSocket, CallKeepsSocket
  <1>5. ASSUME NEW s \in Sockets, State(s)' \in {"open", "shut"}
        PROVE  s \in {client'.sock, client'.connecting} \/ TakenByOthers(t, s)'
    BY <1>1, <1>2, <1>5 DEF Owns, ClientStays, ClientIs, Untaken, State
  <1>6. QED
    BY <1>1, <1>2, <1>3, <1>4, <1>5 DEF Owns, ClientStays, ClientIs, State, Transport

(* A step of a call in its turn takes no socket from anybody.              *)
LEMMA MovesOwn ==
    ASSUME First, Ownership, NEW t \in Threads, Ending(t) \/ Going(t)
    PROVE  Ownership'
  <1>1. Untaken(t) /\ InTurn(t) /\ Owns(t) /\ Keeps(t) /\ generation' = generation
    BY MovesUntaken, OwnsOne DEF Untaken
  <1>2. Owns(t)' /\ \A s \in Sockets : State(s)' = "unused" => State(s) = "unused"
    <2>1. CASE Ending(t)
      BY <1>1, <2>1, ReturnsOwns, RetiresOwns, GivesUpOwns, BurnsOwns, AdoptsOwns, NotesOwns
      DEF Ending
    <2>2. CASE Going(t)
      <3>1. CASE \/ \E label \in Labels, got \in Replies :
                      Walks(t, label, got) \/ Takes(t, label, got)
                 \/ Checks(t) \/ Sends(t)
        BY <1>1, <3>1, QuietlyOwns
      <3>2. CASE \/ \E label \in Labels : Uses(t, label) \/ Binds(t, label)
                 \/ Opens(t) \/ Prepares(t) \/ WritesBack(t)
        BY <1>1, <3>2, UsesOwns, BindsOwns, CreatesOwns, WritesBackOwns
      <3>3. QED
        BY <2>2, <3>1, <3>2 DEF Going
    <2>3. QED
      BY <2>1, <2>2
  <1>3. QED
    BY <1>1, <1>2, OwnsAll
-----------------------------------------------------------------------------
(* The steps of calls that are not in their turn.                          *)
(* A call that begins, is admitted or is turned away has no socket.        *)
LEMMA OutsideOwn ==
    ASSUME First, Ownership, NEW t \in Threads,
           \A u \in Threads \ {t} : me'[u] = me[u],
           ~Trying(t), ~Preparing(t), ~Trying(t)', ~Preparing(t)', ~InUse(t)',
           me'[t].at # "c_open", me'[t].taken = me[t].taken,
           UNCHANGED <<client, wire>>, generation' = generation
    PROVE  Ownership'
  <1>1. CallHasSocket(t)' /\ CallKeepsSocket(t)'
    BY DEF CallHasSocket, CallKeepsSocket, Connecting, Trying
  <1>2. ASSUME NEW u \in Threads
        PROVE  /\ CallHasSocket(u)'
               /\ generation' = 0 => CallKeepsSocket(u)'
               /\ Trying(u)' <=> Trying(u)
               /\ Preparing(u)' <=> Preparing(u)
               /\ Trying(u) \/ Preparing(u) => me'[u].mine = me[u].mine
               /\ me'[u].taken = me[u].taken
    <2>1. CASE u = t
      BY <1>1, <2>1
    <2>2. CASE u # t
      BY <2>2 DEF Ownership, CallHasSocket, CallKeepsSocket, Connecting, Trying, Preparing,
         InUse, Sending, State, Transport
    <2>3. QED
      BY <2>1, <2>2
  <1>3. SteadyConnection'
    BY DEF Ownership, SteadyConnection, MonitorIsOfConnection, PublishedSocketIsOpen, State,
       Transport
  <1>4. OpenSocketsAreOwned'
    <2>1. ASSUME NEW s \in Sockets, State(s)' \in {"open", "shut"}
          PROVE  \/ s \in {client'.sock, client'.connecting}
                 \/ \E u \in Threads : s \in me'[u].taken \/ (s = me'[u].mine /\ Preparing(u)')
      <3>1. \/ s \in {client.sock, client.connecting}
            \/ \E u \in Threads : s \in me[u].taken \/ (s = me[u].mine /\ Preparing(u))
        BY <2>1 DEF Ownership, OpenSocketsAreOwned, State, Preparing
      <3>2. QED
        BY <1>2, <3>1
    <2>2. QED
      BY <2>1 DEF OpenSocketsAreOwned, Preparing
  <1>5. client'.connecting # NoSocket =>
          \E u \in Threads : Trying(u)' /\ me'[u].mine = client'.connecting
    BY <1>2 DEF Ownership
  <1>6. QED
    BY <1>2, <1>3, <1>4, <1>5 DEF Ownership, State, Transport

(* A call that enters the queue changes the owner of no socket.            *)
LEMMA BeginOwns ==
    ASSUME First, Ownership, NEW t \in Threads, NEW o \in Operations, Begin(t, o)
    PROVE  Ownership'
  <1>1. /\ Begins(t, o) /\ me[t].at = "idle" /\ UNCHANGED <<client, wire>>
        /\ generation' = generation
    BY BeginsFacts DEF Begin, At, Adm!Enter, Adm!EnterIf, First
  <1>2. me[t].taken = {}
    BY <1>1 DEF First, Control, CallIsExact
  <1>3. /\ \A u \in Threads \ {t} : me'[u] = me[u]
        /\ me'[t].at = "enter" /\ me'[t].taken = {}
    BY <1>1 DEF Begins
  <1>4. ~Trying(t) /\ ~Preparing(t) /\ ~Trying(t)' /\ ~Preparing(t)' /\ ~InUse(t)'
    BY <1>1, <1>3 DEF Trying, Preparing, InUse, Sending
  <1>5. QED
    BY <1>1, <1>2, <1>3, <1>4, OutsideOwn

(* A call that leaves the queue changes the owner of no socket.            *)
LEMMA TurnsOwn ==
    ASSUME First, Ownership, NEW t \in Threads, Admitted(t) \/ Rejected(t)
    PROVE  Ownership'
  <1>1. /\ me[t].at = "enter" /\ me'[t].at \in {"c_start", "x_start", "idle"}
        /\ me'[t].taken = me[t].taken /\ \A u \in Threads \ {t} : me'[u] = me[u]
    BY AdmittedTurns, RejectedTurns DEF First, Turns
  <1>2. UNCHANGED <<client, wire>> /\ generation' = generation
    BY DEF Admitted, Rejected, Adm!Admitted, Adm!Rejected, Adm!shared
  <1>3. ~Trying(t) /\ ~Preparing(t) /\ ~Trying(t)' /\ ~Preparing(t)' /\ ~InUse(t)'
    BY <1>1 DEF Trying, Preparing, InUse, Sending
  <1>4. QED
    BY <1>1, <1>2, <1>3, OutsideOwn

(* A close() takes what the client shows, shuts it and closes it.          *)
LEMMA CloseOwns ==
    ASSUME First, Ownership, NEW t \in Threads,
           CloseInvalidate(t) \/ CloseClear(t) \/ CloseShutdown(t) \/ CloseSocket(t)
    PROVE  Ownership'
  <1>1. /\ \A u \in Threads \ {t} : me'[u] = me[u]
        /\ me[t].at \in {"idle", "k_clear", "k_shutdown", "k_close"}
        /\ me'[t].at \in {"idle", "k_clear", "k_shutdown", "k_close"}
        /\ client'.transport = client.transport
    BY CloseBegins, CloseClearTurns, CloseShutdownTurns, CloseSocketTurns
    DEF First, Turns, CloseInvalidate, At, ClientIs
  <1>2. /\ ~Trying(t) /\ ~Preparing(t) /\ ~Trying(t)' /\ ~Preparing(t)' /\ ~InUse(t)'
        /\ ~Connecting(t)'
    BY <1>1 DEF Trying, Preparing, InUse, Sending, Connecting
  <1>3. generation' # 0
    <2>1. generation \in Nat /\ CallIsExact(t)
      BY DEF First, Admission, Adm!TypeOK, Control
    <2>2. CASE CloseInvalidate(t)
      BY <2>1, <2>2 DEF CloseInvalidate, Adm!Invalidate
    <2>3. CASE CloseClear(t) \/ CloseShutdown(t) \/ CloseSocket(t)
      BY <2>1, <2>3 DEF CloseClear, CloseShutdown, CloseSocket, At, CallIsExact, Closing,
         admission
    <2>4. QED
      BY <2>2, <2>3
  <1>4. /\ \A s \in Sockets : (State(s)' = "unused" <=> State(s) = "unused")
        /\ \A s \in Sockets : State(s) = "unused" => wire'[s] = wire[s]
        /\ \A s \in Sockets : State(s)' \in {"open", "shut"} => State(s) \in {"open", "shut"}
    <2>1. CASE wire' = wire
      BY <2>1 DEF State
    <2>2. CASE CloseShutdown(t)
      BY <2>2, CloseShutdownTurns DEF First, State
    <2>3. CASE CloseSocket(t)
      <3>1. wire' = WithClosed(wire, me[t].taken)
        BY <2>3, CloseSocketTurns DEF First
      <3>2. /\ \A s \in Sockets \ me[t].taken : wire'[s] = wire[s]
            /\ \A s \in Sockets : State(s) = "unused" => wire'[s] = wire[s]
            /\ \A s \in Sockets : State(s)' = "unused" <=> State(s) = "unused"
            /\ \A s \in Sockets : s \in me[t].taken => State(s)' \in {"unused", "closed"}
        BY <3>1, ClosedFacts DEF First
      <3>3. QED
        BY <3>2 DEF State
    <2>4. QED
      BY <2>1, <2>2, <2>3 DEF CloseInvalidate, CloseClear
  <1>5. \/ client' = client
        \/ client'.sock = NoSocket /\ client'.connecting = NoSocket /\ ~client'.udpConnected
    BY CloseClearTurns DEF CloseInvalidate, CloseShutdown, CloseSocket, First, ClientIs
  <1>6. \A u \in Threads : CallHasSocket(u)'
    <2>1. CallHasSocket(t)'
      BY <1>2 DEF CallHasSocket
    <2>2. ASSUME NEW u \in Threads \ {t} PROVE CallHasSocket(u)'
      <3>1. CallHasSocket(u) /\ CallIsExact(u) /\ me'[u] = me[u]
        BY <1>1 DEF Ownership, First, Control
      <3>2. Trying(u) \/ Preparing(u) \/ InUse(u) => State(me[u].mine) # "unused"
                                                     /\ me[u].mine \in Sockets
        BY <3>1 DEF CallHasSocket, CallIsExact
      <3>3. Trying(u) \/ Preparing(u) \/ InUse(u) => wire'[me'[u].mine].state # "unused"
        BY <1>4, <3>1, <3>2 DEF State
      <3>4. QED
        BY <1>5, <3>1, <3>3 DEF CallHasSocket, Connecting, Trying, Preparing, InUse, Sending,
           State
    <2>3. QED
      BY <2>1, <2>2
  <1>7. client'.connecting # NoSocket =>
          \E u \in Threads : Trying(u)' /\ me'[u].mine = client'.connecting
    BY <1>1, <1>2, <1>5 DEF Ownership, Trying
  <1>8. client'.sock # NoSocket =>
          client'.sock = client.sock /\ wire'[client.sock].state # "unused"
    <2>1. client.sock \in Sockets \cup {NoSocket}
      BY PartTypes DEF First
    <2>2. QED
      BY <1>4, <1>5, <2>1 DEF Ownership, State
  <1>9. ASSUME NEW u \in Threads, NEW s \in me'[u].taken
        PROVE  s \in Sockets /\ State(s) # "unused"
    <2>1. CASE s \in me[u].taken
      BY <2>1 DEF Ownership, First, Typed, Calls
    <2>2. CASE s \notin me[u].taken
      <3>1. u = t /\ CloseClear(t) /\ s \in {client.sock, client.connecting} \ {NoSocket}
        <4>1. u = t
          BY <1>1, <1>9, <2>2
        <4>2. ~CloseInvalidate(t)
          BY <1>9, <2>2, <4>1, CloseBegins DEF First
        <4>3. ~CloseShutdown(t) /\ ~CloseSocket(t)
          BY <1>9, <2>2, <4>1, CloseShutdownTurns, CloseSocketTurns DEF First
        <4>4. QED
          BY <1>9, <4>1, <4>2, <4>3, CloseClearTurns DEF First
      <3>2. s \in Sockets
        BY <3>1, PartTypes DEF First
      <3>3. State(s) # "unused"
        BY <3>1 DEF Ownership, CallHasSocket
      <3>4. QED
        BY <3>2, <3>3
    <2>3. QED
      BY <2>1, <2>2
  <1>10. OpenSocketsAreOwned'
    <2>1. ASSUME NEW s \in Sockets, State(s)' \in {"open", "shut"}
          PROVE  \/ s \in {client'.sock, client'.connecting}
                 \/ \E u \in Threads : s \in me'[u].taken \/ (s = me'[u].mine /\ Preparing(u)')
      <3>1. \/ s \in {client.sock, client.connecting}
            \/ \E u \in Threads : s \in me[u].taken \/ (s = me[u].mine /\ Preparing(u))
        BY <1>4, <2>1 DEF Ownership, OpenSocketsAreOwned, Preparing
      <3>2. CASE CloseInvalidate(t)
        <4>1. me[t].taken = {} /\ client' = client
          BY <3>2 DEF First, Control, CallIsExact, CloseInvalidate, At
        <4>2. QED
          BY <1>1, <1>2, <3>1, <4>1 DEF Preparing
      <3>3. CASE CloseClear(t)
        <4>1. me'[t].taken = {client.sock, client.connecting} \ {NoSocket}
              /\ me[t].taken = {} /\ s # NoSocket
          <5>1. /\ me'[t].taken = {client.sock, client.connecting} \ {NoSocket}
                /\ me[t].at = "k_clear"
            BY <3>3, CloseClearTurns DEF First
          <5>2. me[t].taken = {}
            BY <5>1 DEF First, Control, CallIsExact
          <5>3. s # NoSocket
            BY DEF Sockets, NoSocket
          <5>4. QED
            BY <5>1, <5>2, <5>3
        <4>2. QED
          BY <1>1, <1>2, <3>1, <4>1 DEF Preparing
      <3>4. CASE CloseShutdown(t)
        <4>1. me'[t].taken = me[t].taken /\ client' = client
          BY <3>4, CloseShutdownTurns DEF First
        <4>2. QED
          BY <1>1, <1>2, <3>1, <4>1 DEF Preparing
      <3>5. CASE CloseSocket(t)
        <4>1. s \notin me[t].taken /\ client' = client
          <5>1. wire' = WithClosed(wire, me[t].taken) /\ client' = client
            BY <3>5, CloseSocketTurns DEF First
          <5>2. s \in me[t].taken => State(s)' \in {"unused", "closed"}
            BY <5>1, ClosedFacts DEF First
          <5>3. QED
            BY <2>1, <5>1, <5>2
        <4>2. QED
          BY <1>1, <1>2, <3>1, <4>1 DEF Preparing
      <3>6. QED
        BY <3>2, <3>3, <3>4, <3>5
    <2>2. QED
      BY <2>1 DEF OpenSocketsAreOwned, Preparing
  <1>11. \A s \in Sockets : State(s)' = "unused" => wire'[s] = Fresh
    BY <1>4 DEF Ownership
  <1>12. SteadyConnection'
    BY <1>3 DEF SteadyConnection
  <1>13. \A u \in Threads : \A s \in me'[u].taken : State(s)' # "unused"
    BY <1>4, <1>9
  <1>14. client'.sock # NoSocket => wire'[client'.sock].state # "unused"
    BY <1>8 DEF State
  <1>15. QED
    BY <1>3, <1>6, <1>7, <1>10, <1>11, <1>12, <1>13, <1>14 DEF Ownership, State
(* The peer changes no socket's state.                                     *)
LEMMA PeerOwns ==
    ASSUME First, Ownership, NEW s \in Sockets, Arrive(s) \/ Answer(s) \/ HangUp(s)
    PROVE  Ownership'
  <1>1. OnWire(s) /\ UNCHANGED <<admission, client, me>> /\ State(s) # "unused"
    <2>1. CASE Arrive(s)
      <3>1. wire[s].flight # {}
        BY <2>1, ArriveFacts DEF First, RequestComes
      <3>2. QED
        BY <2>1, <3>1, ArriveFacts, FreshFacts DEF First, Ownership
    <2>2. CASE Answer(s) \/ HangUp(s)
      BY <2>2, AnswerFacts, HangUpFacts DEF First, peer
    <2>3. QED
      BY <2>1, <2>2
  <1>2. \A u \in Sockets : State(u)' = State(u) /\ (State(u) = "unused" => wire'[u] = wire[u])
    BY <1>1 DEF OnWire, State
  <1>3. client.sock \in Sockets \cup {NoSocket} /\ generation' = generation
    <2>1. generation' = generation
      BY <1>1 DEF admission
    <2>2. QED
      BY <2>1 DEF First, Typed, Clients
  <1>4. ASSUME NEW u \in Threads
        PROVE  /\ CallHasSocket(u)'
               /\ generation' = 0 => CallKeepsSocket(u)'
    <2>1. CallIsExact(u) /\ CallHasSocket(u) /\ (generation = 0 => CallKeepsSocket(u))
      BY DEF First, Control, Ownership
    <2>2. Trying(u) \/ Preparing(u) \/ InUse(u) =>
            wire'[me[u].mine].state = wire[me[u].mine].state
      BY <1>2, <2>1 DEF CallIsExact, State
    <2>3. QED
      BY <1>1, <1>3, <2>1, <2>2 DEF CallHasSocket, CallKeepsSocket, Connecting, Trying,
         Preparing, InUse, Sending, State, Transport
  <1>5. SteadyConnection'
    <2>1. client.sock # NoSocket => wire'[client.sock].state = wire[client.sock].state
      BY <1>2, <1>3 DEF State
    <2>2. QED
      BY <1>1, <1>3, <2>1 DEF Ownership, SteadyConnection, MonitorIsOfConnection,
         PublishedSocketIsOpen, State, Transport
  <1>6. OpenSocketsAreOwned'
    BY <1>1, <1>2 DEF Ownership, OpenSocketsAreOwned, State
  <1>7. \A u \in Threads : \A v \in me'[u].taken : State(v)' # "unused"
    <2>1. ASSUME NEW u \in Threads, NEW v \in me[u].taken PROVE State(v)' # "unused"
      <3>1. v \in Sockets /\ State(v) # "unused"
        BY <2>1 DEF Ownership, First, Typed, Calls
      <3>2. QED
        BY <1>2, <3>1
    <2>2. QED
      BY <1>1, <2>1
  <1>8. client'.sock # NoSocket => wire'[client'.sock].state # "unused"
    BY <1>1, <1>2, <1>3 DEF Ownership, State
  <1>9. \A u \in Sockets : State(u)' = "unused" => wire'[u] = Fresh
    BY <1>2 DEF Ownership
  <1>10. client'.connecting # NoSocket =>
           \E u \in Threads : Trying(u)' /\ me'[u].mine = client'.connecting
    BY <1>1 DEF Ownership, Trying
  <1>11. generation' = 0 =>
           (Transport' = "udp" /\ client'.sock # NoSocket => client'.udpConnected)
    BY <1>1, <1>3 DEF Ownership, Transport
  <1>12. QED
    BY <1>4, <1>5, <1>6, <1>7, <1>8, <1>9, <1>10, <1>11 DEF Ownership, State

(* A step that changes nothing keeps the owners.                           *)
LEMMA StutterOwns ==
    ASSUME Ownership, UNCHANGED vars PROVE Ownership'
  BY DEF vars, admission, Ownership, CallHasSocket, CallKeepsSocket, Connecting, Trying,
     Preparing, InUse, Sending, OpenSocketsAreOwned, SteadyConnection, MonitorIsOfConnection,
     PublishedSocketIsOpen, State, Transport

(* A new client owns no socket, and none is open.                          *)
LEMMA InitOwns == Init => Ownership
  <1> SUFFICES ASSUME Init PROVE Ownership
    OBVIOUS
  <1>1. \A t \in Threads : me[t].at = "idle" /\ me[t].taken = {}
    BY DEF Init, Idle
  <1>2. /\ client.sock = NoSocket /\ client.connecting = NoSocket
        /\ client.monitor = NoSocket
    <2>1. PICK transport \in Transports : client = Disconnected(transport)
      BY DEF Init
    <2>2. QED
      BY <2>1 DEF Disconnected
  <1>3. \A s \in Sockets : wire[s] = Fresh /\ State(s) = "unused"
    BY FreshFacts DEF Init, State
  <1>4. \A t \in Threads : ~Connecting(t) /\ ~Trying(t) /\ ~Preparing(t) /\ ~InUse(t)
    BY <1>1 DEF Connecting, Trying, Preparing, InUse, Sending
  <1>5. \A t \in Threads : CallHasSocket(t) /\ CallKeepsSocket(t)
    BY <1>4 DEF CallHasSocket, CallKeepsSocket
  <1>6. OpenSocketsAreOwned /\ SteadyConnection
    BY <1>2, <1>3 DEF OpenSocketsAreOwned, SteadyConnection, MonitorIsOfConnection,
       PublishedSocketIsOpen
  <1>7. QED
    BY <1>1, <1>2, <1>3, <1>5, <1>6 DEF Ownership

(* Every step keeps the owners.                                            *)
LEMMA StepOwns == First /\ Ownership /\ [Next]_vars => Ownership'
  <1> SUFFICES ASSUME First, Ownership, [Next]_vars PROVE Ownership'
    OBVIOUS
  <1>1. CASE \E t \in Threads : Proceed(t)
    BY <1>1, ProceedMoves, MovesOwn, TurnsOwn, CloseOwns DEF First
  <1>2. CASE \E t \in Threads : CloseInvalidate(t)
    BY <1>2, CloseOwns
  <1>3. CASE \E t \in Threads, o \in Operations : Begin(t, o)
    BY <1>3, BeginOwns
  <1>4. CASE \E s \in Sockets : Arrive(s) \/ Answer(s) \/ HangUp(s)
    BY <1>4, PeerOwns
  <1>5. CASE Done \/ UNCHANGED vars
    BY <1>5, StutterOwns DEF Done
  <1>6. QED
    BY <1>1, <1>2, <1>3, <1>4, <1>5 DEF Next

(* The third layer holds in every reachable state.                         *)
LEMMA OwnershipHolds == Spec => []Ownership
  BY InitOwns, StepOwns, FirstHolds, PTL DEF Spec

(* No socket leaks, whatever connect(), requests and close() do to each    *)
(* other (client.py 1235-1367).                                            *)
THEOREM OpenSocketsStayOwned == Spec => []OpenSocketsAreOwned
  <1>1. Ownership => OpenSocketsAreOwned
    BY DEF Ownership
  <1>2. QED
    BY <1>1, OwnershipHolds, PTL

(* While a request uses a connection nobody puts another in its place.     *)
THEOREM ConnectionStaysStable == Spec => []ConnectionIsStable
  <1>1. Ownership => ConnectionIsStable
    BY DEF Ownership, ConnectionIsStable, CallHasSocket, InUse
  <1>2. QED
    BY <1>1, OwnershipHolds, PTL

(* As long as nobody calls close(), the connection, the metadata that is   *)
(* registered on it and the socket the client shows belong together.       *)
THEOREM ConnectionStaysSteady == Spec => []SteadyConnection
  <1>1. Ownership => SteadyConnection
    BY DEF Ownership
  <1>2. QED
    BY <1>1, OwnershipHolds, PTL
-----------------------------------------------------------------------------
(* The fourth layer: whose each answer is, seen from the call in its turn. *)
Second == First /\ Ownership

(* The first layers and the owners hold in every reachable state.          *)
LEMMA SecondHolds == Spec => []Second
  BY FirstHolds, OwnershipHolds, PTL DEF Second

Settled(t) ==
    repeats = 0 /\ client.sock # NoSocket =>
      Quiet(client.sock) \/ (me[t].at = "x_receive" /\ me[t].mine = client.sock)

(* Only a call in its turn waits for something or has been given it.       *)
LEMMA Attending ==
    ASSUME NEW t \in Threads,
           \/ Exchanging(t) \/ Holding(t) \/ me[t].at \in {"x_check", "x_send"}
           \/ Trying(t) \/ Preparing(t)
    PROVE  InTurn(t) /\ (Trying(t) \/ Preparing(t) \/ InUse(t))
  BY DEF Exchanging, Holding, Trying, Preparing, InUse, Sending, InTurn, Closing

(* What Responses says of a call in its turn.                              *)
LEMMA AnsweredOne ==
    ASSUME Second, Responses, NEW t \in Threads, InTurn(t)
    PROVE  Owns(t) /\ AnswerIsOwn(t) /\ Settled(t)
  <1>1. \A u \in Threads : me[u].at = "x_receive" => u = t
    BY Attending, InTurnFacts DEF Second, First, Exchanging
  <1>2. QED
    BY <1>1, OwnsOne DEF Second, Responses, Settled

(* A step of the call in its turn keeps Responses if it keeps that call    *)
(* settled.                                                                *)
LEMMA AnsweredAll ==
    ASSUME Second, Responses, NEW t \in Threads, InTurn(t), Keeps(t),
           AnswerIsOwn(t)', Settled(t)'
    PROVE  Responses'
  <1>1. ASSUME NEW u \in Threads PROVE AnswerIsOwn(u)'
    <2>1. CASE u = t
      BY <2>1
    <2>2. CASE u # t
      <3>1. me'[u] = me[u] /\ ~InTurn(u) /\ AnswerIsOwn(u)
        BY <2>2, InTurnFacts DEF Keeps, Second, First, Responses
      <3>2. ~Exchanging(u) /\ ~Holding(u) /\ me[u].at \notin {"x_check", "x_send"}
            /\ ~Trying(u) /\ ~Preparing(u)
        BY <3>1, Attending
      <3>3. QED
        BY <3>1, <3>2 DEF AnswerIsOwn, Exchanging, Holding, Trying, Preparing
    <2>3. QED
      BY <2>1, <2>2
  <1>2. QED
    BY <1>1 DEF Responses, Settled

(* A call that has ended has given its answer back.                        *)
LEMMA EndedAnswered ==
    ASSUME NEW t \in Threads, me'[t].at = "idle", me'[t].got = NoReply
    PROVE  AnswerIsOwn(t)'
  BY DEF AnswerIsOwn, Exchanging, Holding, Trying, Preparing

(* The ends of a call leave nothing behind on the client's socket.         *)
LEMMA EndingSettles ==
    ASSUME First, NEW t \in Threads, Owns(t), AnswerIsOwn(t), Settled(t), Ending(t)
    PROVE  AnswerIsOwn(t)' /\ Settled(t)'
  <1>1. CallIsExact(t)
    BY DEF First, Control
  <1>2. PICK outcome \in Outcomes \ {"none"}, sent \in BOOLEAN : Ends(t, outcome, sent)
    BY EndingFacts DEF First
  <1>3. /\ me'[t].at = "idle" /\ me'[t].got = NoReply /\ repeats' = repeats
    BY <1>2 DEF Ends
  <1>4. AnswerIsOwn(t)'
    BY <1>3, EndedAnswered
  <1>5. CASE \/ \E o \in Outcomes, s \in BOOLEAN : Returns(t, o, s)
             \/ Notes(t)
    <2>1. /\ wire' = wire /\ client'.sock = client.sock
          /\ me[t].at \in {"c_start", "x_start", "x_decode", "x_note"}
      BY <1>5 DEF Returns, Notes, ClientStays, ClientIs
    <2>2. QED
      BY <1>3, <1>4, <2>1 DEF Settled, Quiet
  <1>6. CASE \E o \in Outcomes : GivesUp(t, o) \/ Burns(t, o)
    <2>1. client'.sock = client.sock /\ client.sock = NoSocket
      BY <1>6 DEF GivesUp, Burns, ClientStays, ClientIs, Owns, CallHasSocket, Connecting,
         Trying
    <2>2. QED
      BY <1>4, <2>1 DEF Settled
  <1>7. CASE \E o \in Outcomes, s \in BOOLEAN : Retires(t, o, s)
    <2>1. client'.sock = NoSocket
      BY <1>7 DEF Retires, ClientIs
    <2>2. QED
      BY <1>4, <2>1 DEF Settled
  <1>8. CASE \E o \in Outcomes, connected \in BOOLEAN : Adopts(t, o, connected)
    <2>1. client'.sock = me[t].mine /\ wire' = wire /\ Trying(t)
      BY <1>8 DEF Adopts, ClientIs, Trying
    <2>2. repeats = 0 => Quiet(me[t].mine)
      BY <2>1 DEF AnswerIsOwn
    <2>3. QED
      BY <1>3, <1>4, <2>1, <2>2 DEF Settled, Quiet
  <1>9. QED
    BY <1>5, <1>6, <1>7, <1>8 DEF Ending

(* The other steps of a call, one by one.                                  *)
LEMMA WalksAnswered ==
    ASSUME First, NEW t \in Threads, AnswerIsOwn(t), Settled(t),
           NEW label \in Labels, NEW got \in Replies, Walks(t, label, got)
    PROVE  AnswerIsOwn(t)' /\ Settled(t)'
  <1>1. /\ me'[t].at = label /\ me'[t].mine = me[t].mine /\ me'[t].req = me[t].req
        /\ me'[t].got = got /\ wire' = wire /\ repeats' = repeats
        /\ client'.sock = client.sock
    BY DEF Walks, GoesOn, ClientStays, ClientIs
  <1>2. CASE me[t].at = "x_line" /\ label = "x_receive"
    <2>1. got = NoReply /\ Holding(t)
      BY <1>2 DEF Walks, Holding
    <2>2. ~Holding(t)' /\ Exchanging(t)' /\ ~Trying(t)' /\ ~Preparing(t)'
      BY <1>1, <1>2 DEF Holding, Exchanging, Trying, Preparing
    <2>3. repeats = 0 => Quiet(me[t].mine)
      BY <2>1 DEF AnswerIsOwn
    <2>4. AnswerIsOwn(t)'
      BY <1>1, <1>2, <2>1, <2>2, <2>3 DEF AnswerIsOwn, Quiet, State
    <2>5. Settled(t)'
      BY <1>1, <1>2 DEF Settled, Quiet
    <2>6. QED
      BY <2>4, <2>5
  <1>3. CASE ~(me[t].at = "x_line" /\ label = "x_receive")
    <2>1. /\ got.req = me[t].got.req /\ got.since = me[t].got.since
          /\ ~Holding(t) => got = me[t].got
      BY <1>3 DEF Walks
    <2>2. /\ Holding(t)' <=> Holding(t)
          /\ Exchanging(t)' <=> Exchanging(t)
          /\ Trying(t)' <=> Trying(t)
          /\ Preparing(t)' <=> Preparing(t)
          /\ label = "x_receive" <=> me[t].at = "x_receive"
          /\ label \notin {"x_check", "x_send"}
      BY <1>1, <1>3 DEF Walks, Holding, Exchanging, Trying, Preparing
    <2>3. AnswerIsOwn(t)'
      BY <1>1, <2>1, <2>2 DEF AnswerIsOwn, Quiet, State
    <2>4. Settled(t)'
      BY <1>1, <2>2 DEF Settled, Quiet
    <2>5. QED
      BY <2>3, <2>4
  <1>4. QED
    BY <1>2, <1>3

(* A call that goes on without an answer has none, as before.              *)
LEMMA UsesAnswered ==
    ASSUME First, NEW t \in Threads, AnswerIsOwn(t), Settled(t),
           NEW label \in Labels, Uses(t, label)
    PROVE  AnswerIsOwn(t)' /\ Settled(t)'
  <1>1. /\ me'[t].at = label /\ me'[t].mine = client.sock
        /\ me'[t].got = me[t].got /\ wire' = wire /\ repeats' = repeats
        /\ client'.sock = client.sock /\ me[t].at \in {"x_start", "x_prepare"}
        /\ \/ label = "x_prepare"
           \/ label = "x_check" /\ client.sock # NoSocket
    BY DEF Uses, GoesOn, ClientStays, ClientIs
  <1>2. ~Holding(t) /\ ~Holding(t)' /\ ~Exchanging(t)' /\ ~Trying(t)' /\ ~Preparing(t)'
    BY <1>1 DEF Holding, Exchanging, Trying, Preparing
  <1>3. repeats = 0 /\ client.sock # NoSocket => Quiet(client.sock)
    BY <1>1 DEF Settled
  <1>4. QED
    BY <1>1, <1>2, <1>3 DEF AnswerIsOwn, Settled, Quiet

(* A call that creates a socket has no answer, and the socket is quiet.    *)
LEMMA CreatesAnswered ==
    ASSUME First, NEW t \in Threads, Owns(t), AnswerIsOwn(t), Opens(t) \/ Prepares(t)
    PROVE  AnswerIsOwn(t)' /\ Settled(t)'
  <1>1. NextSocket \in Sockets /\ State(NextSocket) = "unused"
    BY CreatingFacts DEF First, Opens, Prepares
  <1>2. PICK n \in Sockets, state \in {"open", "shut", "closed"} :
          n = NextSocket /\ state = "open"
    BY <1>1
  <1>3. wire' = [wire EXCEPT ![n].state = state]
    BY <1>2 DEF Opens, Prepares
  <1>4. wire'[n].inbox = <<>> /\ wire'[n].pending = {} /\ wire'[n].flight = {}
    <2>1. /\ wire'[n].inbox = wire[n].inbox /\ wire'[n].pending = wire[n].pending
          /\ wire'[n].flight = wire[n].flight
      BY <1>3, StateFacts DEF First
    <2>2. wire[n] = Fresh
      BY <1>1, <1>2 DEF Owns
    <2>3. QED
      BY <2>1, <2>2, FreshFacts
  <1>5. /\ me'[t].at \in {"c_connect", "x_bind"} /\ me'[t].mine = n
        /\ me'[t].got = me[t].got /\ client'.sock = NoSocket
        /\ me[t].at \in {"c_open", "x_prepare"}
    BY <1>2 DEF Opens, Prepares, GoesOn, ClientStays, ClientIs, Owns, CallHasSocket,
       Connecting
  <1>6. ~Holding(t) /\ ~Holding(t)' /\ ~Exchanging(t)'
    BY <1>5 DEF Holding, Exchanging
  <1>7. AnswerIsOwn(t)'
    BY <1>4, <1>5, <1>6 DEF AnswerIsOwn, Quiet
  <1>8. QED
    BY <1>5, <1>7 DEF Settled

(* A call that binds its socket has no answer, and the socket is quiet.    *)
LEMMA BindsAnswered ==
    ASSUME First, NEW t \in Threads, Owns(t), AnswerIsOwn(t),
           NEW label \in Labels, Binds(t, label)
    PROVE  AnswerIsOwn(t)' /\ Settled(t)'
  <1>1. /\ me'[t].at = label /\ me'[t].mine = me[t].mine /\ me'[t].req = me[t].req
        /\ me'[t].got = me[t].got /\ wire' = wire /\ repeats' = repeats
        /\ client'.sock = me[t].mine
        /\ <<me[t].at, label>> \in {<<"x_adopt", "x_check">>, <<"x_accept", "x_decode">>}
    BY DEF Binds, GoesOn, ClientIs
  <1>2. /\ Holding(t)' <=> Holding(t)
        /\ Holding(t) \/ Preparing(t)
        /\ ~Exchanging(t) /\ ~Exchanging(t)' /\ ~Trying(t)' /\ ~Preparing(t)'
        /\ label # "x_receive"
    BY <1>1 DEF Holding, Exchanging, Trying, Preparing
  <1>3. repeats = 0 => Quiet(me[t].mine)
    BY <1>2 DEF AnswerIsOwn
  <1>4. AnswerIsOwn(t)'
    BY <1>1, <1>2, <1>3 DEF AnswerIsOwn, Quiet, State
  <1>5. Settled(t)'
    BY <1>1, <1>3 DEF Settled, Quiet
  <1>6. QED
    BY <1>4, <1>5

(* The second request of a bit forgets the answer to the first.            *)
LEMMA WritesBackAnswered ==
    ASSUME First, NEW t \in Threads, AnswerIsOwn(t), Settled(t), WritesBack(t)
    PROVE  AnswerIsOwn(t)' /\ Settled(t)'
  <1>1. /\ me'[t].at = "x_start" /\ me'[t].got = NoReply /\ wire' = wire
        /\ repeats' = repeats /\ client'.sock = client.sock /\ me[t].at = "x_decode"
    BY DEF WritesBack, ClientStays, ClientIs
  <1>2. ~Holding(t)' /\ ~Exchanging(t)' /\ ~Trying(t)' /\ ~Preparing(t)'
    BY <1>1 DEF Holding, Exchanging, Trying, Preparing
  <1>3. QED
    BY <1>1, <1>2 DEF AnswerIsOwn, Settled, Quiet
-----------------------------------------------------------------------------
(* What a sequence of answers is made of.                                  *)
LEMMA SequenceElements ==
    ASSUME NEW S, NEW q \in Seq(S), NEW i \in DOMAIN q PROVE q[i] \in S
  OBVIOUS

(* The rest of a sequence: its elements, and where it ends.                *)
LEMMA TailOfOne ==
    ASSUME NEW S, NEW q \in Seq(S), q # <<>>
    PROVE  /\ Tail(q) \in Seq(S)
           /\ \A i \in DOMAIN Tail(q) : i + 1 \in DOMAIN q /\ Tail(q)[i] = q[i + 1]
           /\ 1 \in DOMAIN q /\ Head(q) = q[1]
           /\ Len(q) = 1 => Tail(q) = <<>>
  OBVIOUS

(* The elements of a sequence with one more at its end.                    *)
LEMMA AppendElements ==
    ASSUME NEW S, NEW q \in Seq(S), NEW e \in S, NEW i \in DOMAIN Append(q, e)
    PROVE  Append(q, e)[i] = e \/ (i \in DOMAIN q /\ Append(q, e)[i] = q[i])
  OBVIOUS

(* The socket of a request that uses it.                                   *)
LEMMA UsedSocket ==
    ASSUME First, NEW t \in Threads, Owns(t), InUse(t)
    PROVE  /\ me[t].mine \in Sockets /\ client.sock \in {NoSocket, me[t].mine}
           /\ me[t].req \in 1..MaxRequests /\ me[t].req \in Nat
           /\ wire[me[t].mine] \in Links /\ wire \in [Sockets -> Links]
  <1>1. CallIsExact(t) /\ CallHasSocket(t) /\ wire \in [Sockets -> Links]
    BY DEF First, Control, Owns, Typed
  <1>2. QED
    BY <1>1, RequestFacts DEF CallIsExact, CallHasSocket, Requesting, First

(* After the look for stale input nothing that has arrived predates the    *)
(* request.                                                                *)
LEMMA ChecksAnswered ==
    ASSUME First, NEW t \in Threads, Owns(t), AnswerIsOwn(t), Checks(t)
    PROVE  AnswerIsOwn(t)' /\ Settled(t)'
  <1>1. /\ me[t].at = "x_check" /\ wire[me[t].mine].inbox = <<>> /\ InUse(t)
        /\ me'[t].at = "x_send" /\ me'[t].mine = me[t].mine /\ me'[t].req = me[t].req
        /\ me'[t].got = me[t].got /\ repeats' = repeats /\ client'.sock = client.sock
        /\ wire' = [wire EXCEPT ![me[t].mine].checked = me[t].req]
    BY DEF Checks, GoesOn, ClientStays, ClientIs, InUse, Sending
  <1>2. PICK n \in Sockets, r \in Nat : n = me[t].mine /\ r = me[t].req
    BY <1>1, UsedSocket
  <1>3. PICK w \in Links : w = wire[n]
    BY <1>1, <1>2, UsedSocket
  <1>4. PICK v : v = [w EXCEPT !.checked = r]
    OBVIOUS
  <1>5. v.checked = r /\ v.inbox = w.inbox /\ v.pending = w.pending
        /\ v.flight = w.flight
    BY <1>4 DEF Links
  <1>6. wire'[n] = v
    BY <1>1, <1>2, <1>3, <1>4, UsedSocket
  <1>7. ~Holding(t) /\ ~Holding(t)' /\ ~Trying(t)' /\ ~Preparing(t)'
    BY <1>1 DEF Holding, Trying, Preparing
  <1>8. repeats = 0 => Quiet(n)
    BY <1>1, <1>2 DEF AnswerIsOwn
  <1>9. wire'[n].inbox = <<>> /\ wire'[n].checked = r
        /\ (repeats = 0 => wire'[n].pending = {} /\ wire'[n].flight = {})
    BY <1>1, <1>2, <1>3, <1>5, <1>6, <1>8 DEF Quiet
  <1>10. AnswerIsOwn(t)'
    BY <1>1, <1>2, <1>7, <1>9 DEF AnswerIsOwn, Quiet, State
  <1>11. Settled(t)'
    <2>1. client'.sock # NoSocket => client'.sock = n
      BY <1>1, <1>2, UsedSocket
    <2>2. QED
      BY <1>1, <1>9, <2>1 DEF Settled, Quiet
  <1>12. QED
    BY <1>10, <1>11

(* After the send only the request is under way.                           *)
LEMMA SendsAnswered ==
    ASSUME First, NEW t \in Threads, Owns(t), AnswerIsOwn(t), Sends(t)
    PROVE  AnswerIsOwn(t)' /\ Settled(t)'
  <1>1. /\ me[t].at = "x_send" /\ InUse(t)
        /\ me'[t].at = "x_receive" /\ me'[t].mine = me[t].mine /\ me'[t].req = me[t].req
        /\ me'[t].got = me[t].got /\ repeats' = repeats /\ client'.sock = client.sock
        /\ wire' = [wire EXCEPT ![me[t].mine].flight = @ \cup {me[t].req}]
    BY DEF Sends, GoesOn, ClientStays, ClientIs, InUse, Sending
  <1>2. PICK n \in Sockets, r \in Nat : n = me[t].mine /\ r = me[t].req
    BY <1>1, UsedSocket
  <1>3. PICK w \in Links : w = wire[n]
    BY <1>1, <1>2, UsedSocket
  <1>4. /\ wire'[n].inbox = wire[n].inbox /\ wire'[n].checked = wire[n].checked
        /\ wire'[n].state = wire[n].state /\ wire'[n].pending = wire[n].pending
        /\ wire'[n].flight = wire[n].flight \cup {r}
    <2>1. PICK v : v = [w EXCEPT !.flight = @ \cup {r}]
      OBVIOUS
    <2>2. v.checked = w.checked /\ v.inbox = w.inbox /\ v.flight = w.flight \cup {r}
          /\ v.state = w.state /\ v.pending = w.pending
      BY <2>1 DEF Links
    <2>3. wire'[n] = v
      BY <1>1, <1>2, <1>3, <2>1, UsedSocket
    <2>4. QED
      BY <1>3, <2>2, <2>3
  <1>5. ~Holding(t) /\ ~Holding(t)' /\ ~Trying(t)' /\ ~Preparing(t)' /\ Exchanging(t)
    BY <1>1 DEF Holding, Trying, Preparing, Exchanging
  <1>6. repeats = 0 => Quiet(n)
    BY <1>1, <1>2 DEF AnswerIsOwn
  <1>7. AnswerIsOwn(t)'
    BY <1>1, <1>2, <1>4, <1>5, <1>6 DEF AnswerIsOwn, Quiet, State
  <1>8. Settled(t)'
    BY <1>1, UsedSocket DEF Settled
  <1>9. QED
    BY <1>7, <1>8

(* The answer that is taken is the answer to the request.                  *)
LEMMA TakesAnswered ==
    ASSUME First, NEW t \in Threads, Owns(t), AnswerIsOwn(t),
           NEW label \in Labels, NEW got \in Replies, Takes(t, label, got)
    PROVE  AnswerIsOwn(t)' /\ Settled(t)'
  <1>1. /\ me[t].at = "x_receive" /\ InUse(t) /\ wire[me[t].mine].inbox # <<>>
        /\ me'[t].at = label /\ label \in {"x_recheck", "x_line"}
        /\ me'[t].mine = me[t].mine /\ me'[t].req = me[t].req
        /\ me'[t].got = got /\ repeats' = repeats /\ client'.sock = client.sock
        /\ wire' = [wire EXCEPT ![me[t].mine].inbox = Tail(@)]
        /\ got.req = Head(wire[me[t].mine].inbox).req
        /\ got.since = Head(wire[me[t].mine].inbox).since
    BY DEF Takes, GoesOn, ClientStays, ClientIs, InUse, Sending
  <1>2. PICK n \in Sockets, r \in Nat : n = me[t].mine /\ r = me[t].req
    BY <1>1, UsedSocket
  <1>3. PICK w \in Links : w = wire[n]
    BY <1>1, <1>2, UsedSocket
  <1>4. PICK lines \in Seq(Answers) : lines = w.inbox
    BY DEF Links
  <1>5. PICK rest : rest = Tail(lines)
    OBVIOUS
  <1>6. PICK v : v = [w EXCEPT !.inbox = rest]
    OBVIOUS
  <1>7. v.checked = w.checked /\ v.inbox = rest /\ v.pending = w.pending /\ v.state = w.state
        /\ v.flight = w.flight
    BY <1>6 DEF Links
  <1>8. wire'[n] = v
    BY <1>1, <1>2, <1>3, <1>4, <1>5, <1>6, UsedSocket
  <1>9. /\ \A i \in DOMAIN rest : i + 1 \in DOMAIN lines /\ rest[i] = lines[i + 1]
        /\ 1 \in DOMAIN lines /\ Head(lines) = lines[1]
        /\ Len(lines) = 1 => rest = <<>>
    BY <1>1, <1>2, <1>3, <1>4, <1>5, TailOfOne
  <1>10. Exchanging(t) /\ Holding(t)' /\ ~Trying(t)' /\ ~Preparing(t)' /\ ~Exchanging(t)'
    BY <1>1 DEF Exchanging, Holding, Trying, Preparing
  <1>11. /\ w.state \in {"open", "shut"} => w.checked = r
         /\ \A i \in DOMAIN lines : lines[i].since = r
         /\ repeats = 0 => w.pending = {} /\ w.flight = {} /\ Len(lines) = 1
                           /\ \A i \in DOMAIN lines : lines[i].req = r
    BY <1>1, <1>2, <1>3, <1>4, <1>10 DEF AnswerIsOwn, State
  <1>12. got.since = r /\ (repeats = 0 => got.req = r)
    BY <1>1, <1>2, <1>3, <1>4, <1>9, <1>11
  <1>13. /\ wire'[n].state \in {"open", "shut"} => wire'[n].checked = r
         /\ \A i \in DOMAIN wire'[n].inbox : wire'[n].inbox[i].since = r
         /\ repeats = 0 => /\ wire'[n].pending = {} /\ wire'[n].flight = {}
                           /\ wire'[n].inbox = <<>>
    BY <1>7, <1>8, <1>9, <1>11
  <1>14. AnswerIsOwn(t)'
    BY <1>1, <1>2, <1>10, <1>12, <1>13 DEF AnswerIsOwn, Quiet, State
  <1>15. Settled(t)'
    <2>1. client'.sock # NoSocket => client'.sock = n
      BY <1>1, <1>2, UsedSocket
    <2>2. QED
      BY <1>1, <1>13, <2>1 DEF Settled, Quiet
  <1>16. QED
    BY <1>14, <1>15

(* A step of a call in its turn mixes up no answers.                       *)
LEMMA MovesAnswer ==
    ASSUME Second, Responses, NEW t \in Threads, Ending(t) \/ Going(t)
    PROVE  Responses'
  <1>1. Untaken(t) /\ InTurn(t) /\ Keeps(t) /\ First
    BY MovesUntaken DEF Untaken, Second
  <1>2. Owns(t) /\ AnswerIsOwn(t) /\ Settled(t)
    BY <1>1, AnsweredOne
  <1>3. AnswerIsOwn(t)' /\ Settled(t)'
    <2>1. CASE Ending(t)
      BY <1>1, <1>2, <2>1, EndingSettles
    <2>2. CASE Going(t)
      BY <1>1, <1>2, <2>2, WalksAnswered, TakesAnswered, UsesAnswered, BindsAnswered,
         CreatesAnswered, ChecksAnswered, SendsAnswered, WritesBackAnswered DEF Going
    <2>3. QED
      BY <2>1, <2>2
  <1>4. QED
    BY <1>1, <1>3, AnsweredAll
-----------------------------------------------------------------------------
(* Sockets that lose what was on them, or keep it.                         *)
Dims(s) ==
    /\ wire'[s].flight = wire[s].flight
    /\ \/ /\ wire'[s].inbox = wire[s].inbox /\ wire'[s].checked = wire[s].checked
          /\ wire'[s].pending \subseteq wire[s].pending
          /\ wire'[s].state \in {"open", "shut"} => wire[s].state \in {"open", "shut"}
       \/ /\ wire'[s].inbox = <<>> /\ wire'[s].pending = {}
          /\ wire'[s].state \notin {"open", "shut"}

(* A call that does nothing meanwhile is given no other answer.            *)
LEMMA DimsAnswer ==
    ASSUME First, NEW t \in Threads, AnswerIsOwn(t), me'[t] = me[t],
           repeats' = repeats, \A s \in Sockets : Dims(s)
    PROVE  AnswerIsOwn(t)'
  <1>1. CallIsExact(t)
    BY DEF First, Control
  <1>2. CASE \/ Exchanging(t) \/ Holding(t) \/ me[t].at \in {"x_check", "x_send"}
             \/ Trying(t) \/ Preparing(t)
    <2>1. me[t].mine \in Sockets
      BY <1>1, <1>2, Attending DEF CallIsExact
    <2>2. PICK s \in Sockets : s = me[t].mine
      BY <2>1
    <2>3. Dims(s) /\ wire'[s].flight = wire[s].flight
      BY DEF Dims
    <2>4. CASE /\ wire'[s].inbox = wire[s].inbox /\ wire'[s].checked = wire[s].checked
               /\ wire'[s].pending \subseteq wire[s].pending
               /\ wire'[s].state \in {"open", "shut"} => wire[s].state \in {"open", "shut"}
      BY <2>2, <2>3, <2>4 DEF AnswerIsOwn, Exchanging, Holding, Trying, Preparing, Quiet, State
    <2>5. CASE /\ wire'[s].inbox = <<>> /\ wire'[s].pending = {}
               /\ wire'[s].state \notin {"open", "shut"}
      BY <2>2, <2>3, <2>5 DEF AnswerIsOwn, Exchanging, Holding, Trying, Preparing, Quiet, State
    <2>6. QED
      BY <2>3, <2>4, <2>5 DEF Dims
  <1>3. CASE ~(\/ Exchanging(t) \/ Holding(t) \/ me[t].at \in {"x_check", "x_send"}
               \/ Trying(t) \/ Preparing(t))
    BY <1>3 DEF AnswerIsOwn, Exchanging, Holding, Trying, Preparing
  <1>4. QED
    BY <1>2, <1>3

(* Steps of calls outside their turn, and of the peer that hangs up.       *)
LEMMA OutsideAnswer ==
    ASSUME First, Responses, repeats' = repeats, \A s \in Sockets : Dims(s),
           \A u \in Threads :
             \/ me'[u] = me[u]
             \/ me'[u].got = NoReply
                /\ me[u].at \in {"idle", "enter", "k_clear", "k_shutdown", "k_close"}
                /\ me'[u].at \in {"idle", "enter", "c_start", "x_start", "k_clear",
                                  "k_shutdown", "k_close"},
           client'.sock \in {client.sock, NoSocket}
    PROVE  Responses'
  <1>1. ASSUME NEW u \in Threads PROVE AnswerIsOwn(u)'
    <2>1. CASE me'[u] = me[u]
      BY <2>1, DimsAnswer DEF Responses
    <2>2. CASE /\ me'[u].got = NoReply
               /\ me'[u].at \in {"idle", "enter", "c_start", "x_start", "k_clear",
                                 "k_shutdown", "k_close"}
      BY <2>2 DEF AnswerIsOwn, Exchanging, Holding, Trying, Preparing
    <2>3. QED
      BY <2>1, <2>2
  <1>2. ASSUME repeats' = 0, client'.sock # NoSocket
        PROVE  \/ Quiet(client.sock)'
               \/ \E u \in Threads : me'[u].at = "x_receive" /\ me'[u].mine = client'.sock
    <2>1. client'.sock = client.sock /\ client.sock \in Sockets
      BY <1>2 DEF First, Typed, Clients
    <2>2. CASE Quiet(client.sock)
      <3>1. Dims(client.sock)
        BY <2>1
      <3>2. QED
        BY <2>1, <2>2, <3>1 DEF Dims, Quiet
    <2>3. CASE \E u \in Threads : me[u].at = "x_receive" /\ me[u].mine = client.sock
      BY <2>1, <2>3
    <2>4. QED
      BY <1>2, <2>1, <2>2, <2>3 DEF Responses
  <1>3. QED
    BY <1>1, <1>2 DEF Responses

(* Nobody outside its turn holds an answer.                                *)
LEMMA OutsideHasNoReply ==
    ASSUME Responses, NEW t \in Threads,
           me[t].at \in {"idle", "enter", "k_clear", "k_shutdown", "k_close"}
    PROVE  me[t].got = NoReply
  BY DEF Responses, AnswerIsOwn, Holding

(* Calls that enter or leave the queue, and close(), keep Responses.       *)
LEMMA OthersAnswer ==
    ASSUME Second, Responses, NEW t \in Threads,
           \/ \E o \in Operations : Begin(t, o)
           \/ Admitted(t) \/ Rejected(t) \/ CloseInvalidate(t)
           \/ CloseClear(t) \/ CloseShutdown(t) \/ CloseSocket(t)
    PROVE  Responses'
  <1> USE DEF Second
  <1>1. CASE \E o \in Operations : Begin(t, o)
    <2>1. PICK o \in Operations : Begin(t, o)
      BY <1>1
    <2>2. /\ Begins(t, o) /\ me[t].at = "idle" /\ UNCHANGED <<client, wire, repeats>>
      BY <2>1, BeginsFacts DEF Begin, At, First
    <2>3. /\ \A u \in Threads \ {t} : me'[u] = me[u]
          /\ me'[t].got = NoReply /\ me'[t].at = "enter"
      BY <2>2 DEF Begins
    <2>4. \A s \in Sockets : Dims(s)
      BY <2>2 DEF Dims
    <2>5. QED
      BY <2>2, <2>3, <2>4, OutsideAnswer
  <1>2. CASE Admitted(t) \/ Rejected(t)
    <2>1. /\ me[t].at = "enter" /\ me'[t].at \in {"c_start", "x_start", "idle"}
          /\ me'[t].got = me[t].got /\ \A u \in Threads \ {t} : me'[u] = me[u]
      BY <1>2, AdmittedTurns, RejectedTurns DEF First, Turns
    <2>2. UNCHANGED <<client, wire, repeats>>
      BY <1>2 DEF Admitted, Rejected, peer
    <2>3. me'[t].got = NoReply
      BY <2>1, OutsideHasNoReply
    <2>4. \A s \in Sockets : Dims(s)
      BY <2>2 DEF Dims
    <2>5. QED
      BY <2>1, <2>2, <2>3, <2>4, OutsideAnswer
  <1>3. CASE CloseInvalidate(t)
    <2>1. /\ \A u \in Threads \ {t} : me'[u] = me[u]
          /\ me'[t].got = NoReply /\ me'[t].at = "k_clear"
      BY <1>3, CloseBegins DEF First
    <2>2. UNCHANGED <<client, wire, repeats>> /\ me[t].at = "idle"
      BY <1>3 DEF CloseInvalidate, At, peer
    <2>3. \A s \in Sockets : Dims(s)
      BY <2>2 DEF Dims
    <2>4. QED
      BY <2>1, <2>2, <2>3, OutsideAnswer
  <1>4. CASE CloseClear(t) \/ CloseShutdown(t) \/ CloseSocket(t)
    <2>1. /\ \A u \in Threads \ {t} : me'[u] = me[u]
          /\ me[t].at \in {"k_clear", "k_shutdown", "k_close"}
          /\ me'[t].at \in {"k_shutdown", "k_close", "idle"}
          /\ me'[t].got = me[t].got
          /\ client'.sock \in {client.sock, NoSocket}
      BY <1>4, CloseClearTurns, CloseShutdownTurns, CloseSocketTurns
      DEF First, Turns, ClientIs
    <2>2. repeats' = repeats
      BY <1>4 DEF CloseClear, CloseShutdown, CloseSocket, peer
    <2>3. me'[t].got = NoReply
      BY <2>1, OutsideHasNoReply
    <2>4. \A s \in Sockets : Dims(s)
      <3>1. CASE CloseClear(t)
        BY <3>1 DEF CloseClear, Dims
      <3>2. CASE CloseShutdown(t)
        BY <3>2, CloseShutdownTurns DEF First, Dims, State
      <3>3. CASE CloseSocket(t)
        <4>1. wire' = WithClosed(wire, me[t].taken)
          BY <3>3, CloseSocketTurns DEF First
        <4>2. ASSUME NEW s \in Sockets PROVE Dims(s)
          <5>1. CASE wire'[s] = wire[s]
            BY <5>1 DEF Dims
          <5>2. CASE wire'[s] # wire[s]
            <6>1. /\ wire'[s] = Emptied(wire[s].flight)
                  /\ wire[s].flight \in SUBSET (1..MaxRequests)
              BY <4>1, <5>2, ClosedFacts DEF First, Typed, Links
            <6>2. QED
              BY <6>1, EmptiedFacts DEF Dims
          <5>3. QED
            BY <5>1, <5>2
        <4>3. QED
          BY <4>2
      <3>4. QED
        BY <1>4, <3>1, <3>2, <3>3
    <2>5. QED
      BY <2>1, <2>2, <2>3, <2>4, OutsideAnswer
  <1>5. QED
    BY <1>1, <1>2, <1>3, <1>4

(* A peer that hangs up keeps Responses.                                   *)
LEMMA HangUpAnswers ==
    ASSUME Second, Responses, NEW s \in Sockets, HangUp(s) PROVE Responses'
  <1>1. /\ OnWire(s) /\ UNCHANGED <<client, me, repeats>>
        /\ wire'[s].inbox = wire[s].inbox /\ wire'[s].pending = {}
        /\ wire'[s].flight = wire[s].flight
    BY HangUpFacts DEF Second, First, peer
  <1>2. \A u \in Sockets : Dims(u)
    BY <1>1 DEF OnWire, Dims
  <1>3. QED
    BY <1>1, <1>2, OutsideAnswer DEF Second

(* An answer reaches the call that waits for it, or nobody.                *)
LEMMA AnswerAnswers ==
    ASSUME Second, Responses, NEW s \in Sockets, Answer(s) PROVE Responses'
  <1>1. PICK r \in 1..MaxRequests, kind \in Kinds, repeat \in {0, 1} :
          ReplyComes(s, r, kind, repeat)
    BY AnswerFacts DEF Second, First
  <1>2. /\ OnWire(s) /\ UNCHANGED <<client, me>> /\ repeats \in Nat
        /\ wire \in [Sockets -> Links] /\ r \in Nat
    BY AnswerFacts, ClientAssumption DEF Second, First, Typed
  <1>3. PICK reply : reply = [req |-> r, kind |-> kind, since |-> wire[s].checked,
                              whole |-> TRUE]
    OBVIOUS
  <1>4. reply \in Answers /\ reply.req = r /\ reply.since = wire[s].checked
    BY <1>2, <1>3 DEF Answers, Links
  <1>5. PICK lines \in Seq(Answers) : lines = wire[s].inbox
    BY <1>2 DEF Links
  <1>6. PICK more \in Seq(Answers) : more = Append(lines, reply)
    <2>1. reply \in Answers
      BY <1>4
    <2>2. Append(lines, reply) \in Seq(Answers)
      BY <1>5, <2>1
    <2>3. QED
      BY <2>2
  <1>7. /\ wire'[s].inbox = more /\ wire'[s].state = wire[s].state
        /\ wire'[s].checked = wire[s].checked
        /\ \A i \in DOMAIN more :
             more[i] = reply \/ (i \in DOMAIN lines /\ more[i] = lines[i])
    BY <1>1, <1>2, <1>3, <1>4, <1>5, <1>6, AppendElements DEF ReplyComes, OnWire
  <1>8. ASSUME repeats' = 0
        PROVE  /\ repeats = 0 /\ wire'[s].pending = wire[s].pending \ {r}
               /\ r \in wire[s].pending /\ wire'[s].flight = wire[s].flight
    BY <1>1, <1>2, <1>8 DEF ReplyComes
  <1>9. ASSUME NEW u \in Threads PROVE AnswerIsOwn(u)'
    <2>1. AnswerIsOwn(u) /\ me'[u] = me[u]
      BY <1>2 DEF Responses
    <2>2. CASE me[u].mine # s
      <3>1. me[u].mine \in Sockets => wire'[me[u].mine] = wire[me[u].mine]
        BY <1>2, <2>2 DEF OnWire
      <3>2. (Exchanging(u) \/ Holding(u) \/ me[u].at \in {"x_check", "x_send"}
             \/ Trying(u) \/ Preparing(u)) => me[u].mine \in Sockets
        BY Attending DEF Second, First, Control, CallIsExact
      <3>3. repeats' = 0 => repeats = 0
        BY <1>8
      <3>4. QED
        BY <2>1, <3>1, <3>2, <3>3 DEF AnswerIsOwn, Exchanging, Holding, Trying, Preparing,
           Quiet, State
    <2>3. CASE me[u].mine = s
      <3>1. Exchanging(u) \/ Holding(u) =>
              /\ State(s)' \in {"open", "shut"} => wire'[s].checked = me[u].req
              /\ \A i \in DOMAIN wire'[s].inbox : wire'[s].inbox[i].since = me[u].req
        <4>1. State(s) \in {"open", "shut"}
          BY AnswerFacts DEF Second, First
        <4>2. QED
          BY <1>4, <1>5, <1>7, <2>1, <2>3, <4>1 DEF AnswerIsOwn, State
      <3>2. ASSUME repeats' = 0
            PROVE  ~(Holding(u) \/ me[u].at \in {"x_check", "x_send"} \/ Trying(u)
                     \/ Preparing(u))
        BY <1>8, <2>1, <2>3, <3>2 DEF AnswerIsOwn, Quiet
      <3>3. ASSUME repeats' = 0, me[u].at = "x_receive"
            PROVE  /\ wire'[s].pending \subseteq {me[u].req}
                   /\ \A i \in DOMAIN wire'[s].inbox : wire'[s].inbox[i].req = me[u].req
                   /\ wire'[s].pending = {} /\ Len(wire'[s].inbox) = 1
                   /\ wire'[s].flight = {}
        <4>1. /\ wire[s].pending \subseteq {me[u].req}
              /\ lines = <<>> /\ r = me[u].req /\ wire[s].flight = {}
          BY <1>5, <1>8, <2>1, <2>3, <3>3 DEF AnswerIsOwn
        <4>2. wire'[s].pending = {}
          BY <1>8, <3>3, <4>1
        <4>3. Len(more) = 1
          BY <1>4, <1>6, <4>1
        <4>4. DOMAIN lines = {}
          BY <4>1
        <4>5. QED
          BY <1>4, <1>7, <1>8, <3>3, <4>1, <4>2, <4>3, <4>4
      <3>4. QED
        BY <2>1, <2>3, <3>1, <3>2, <3>3 DEF AnswerIsOwn, Exchanging, Holding, Trying,
           Preparing, Quiet, State
    <2>4. QED
      BY <2>2, <2>3
  <1>10. ASSUME repeats' = 0, client'.sock # NoSocket
         PROVE  \/ Quiet(client.sock)'
                \/ \E u \in Threads : me'[u].at = "x_receive" /\ me'[u].mine = client'.sock
    <2>1. repeats = 0 /\ client'.sock = client.sock /\ client.sock \in Sockets
      BY <1>2, <1>8, <1>10 DEF Second, First, Typed, Clients
    <2>2. CASE Quiet(client.sock)
      <3>1. client.sock # s
        BY <1>8, <1>10, <2>2 DEF Quiet
      <3>2. wire'[client.sock] = wire[client.sock]
        BY <1>2, <2>1, <3>1 DEF OnWire
      <3>3. QED
        BY <2>1, <2>2, <3>2 DEF Quiet
    <2>3. CASE \E u \in Threads : me[u].at = "x_receive" /\ me[u].mine = client.sock
      BY <1>2, <2>1, <2>3
    <2>4. QED
      BY <1>10, <2>1, <2>2, <2>3 DEF Responses
  <1>11. QED
    BY <1>9, <1>10 DEF Responses

(* A request that gets to the PLC is that of the call that waits for its   *)
(* answer, or nobody's any more.                                           *)
LEMMA ArriveAnswers ==
    ASSUME Second, Responses, NEW s \in Sockets, Arrive(s) PROVE Responses'
  <1>1. PICK r \in 1..MaxRequests : RequestComes(s, r)
    BY ArriveFacts DEF Second, First
  <1>2. OnWire(s) /\ UNCHANGED <<client, me, repeats>>
    BY ArriveFacts DEF Second, First
  <1>3. /\ wire'[s].state = wire[s].state /\ wire'[s].checked = wire[s].checked
        /\ wire'[s].inbox = wire[s].inbox /\ r \in wire[s].flight
        /\ wire'[s].flight = wire[s].flight \ {r}
        /\ wire'[s].pending \subseteq wire[s].pending \cup {r}
    BY <1>1, <1>2 DEF OnWire, RequestComes
  <1>4. ~Quiet(s)
    BY <1>3 DEF Quiet
  <1>5. ASSUME NEW u \in Threads PROVE AnswerIsOwn(u)'
    <2>1. AnswerIsOwn(u) /\ me'[u] = me[u] /\ repeats' = repeats
      BY <1>2 DEF Responses
    <2>2. CASE me[u].mine # s
      <3>1. me[u].mine \in Sockets => wire'[me[u].mine] = wire[me[u].mine]
        BY <1>2, <2>2 DEF OnWire
      <3>2. (Exchanging(u) \/ Holding(u) \/ me[u].at \in {"x_check", "x_send"}
             \/ Trying(u) \/ Preparing(u)) => me[u].mine \in Sockets
        BY Attending DEF Second, First, Control, CallIsExact
      <3>3. QED
        BY <2>1, <3>1, <3>2 DEF AnswerIsOwn, Exchanging, Holding, Trying, Preparing,
           Quiet, State
    <2>3. CASE me[u].mine = s
      <3>1. repeats = 0 => ~(Holding(u) \/ me[u].at \in {"x_check", "x_send"}
                             \/ Trying(u) \/ Preparing(u))
        BY <1>4, <2>1, <2>3 DEF AnswerIsOwn
      <3>2. ASSUME repeats = 0, me[u].at = "x_receive"
            PROVE  /\ wire'[s].pending \subseteq {me[u].req} /\ wire'[s].flight = {}
                   /\ wire'[s].inbox = <<>>
        BY <1>3, <2>1, <2>3, <3>2 DEF AnswerIsOwn
      <3>3. ASSUME repeats = 0, me[u].at = "x_receive"
            PROVE  \A i \in DOMAIN wire'[s].inbox : wire'[s].inbox[i].req = me[u].req
        BY <3>2, <3>3
      <3>4. QED
        BY <1>3, <2>1, <2>3, <3>1, <3>2, <3>3 DEF AnswerIsOwn, Exchanging, Holding,
           Trying, Preparing, Quiet, State
    <2>4. QED
      BY <2>2, <2>3
  <1>6. ASSUME repeats' = 0, client'.sock # NoSocket
        PROVE  \/ Quiet(client.sock)'
               \/ \E u \in Threads : me'[u].at = "x_receive" /\ me'[u].mine = client'.sock
    <2>1. repeats = 0 /\ client'.sock = client.sock /\ client.sock \in Sockets
      BY <1>2, <1>6 DEF Second, First, Typed, Clients
    <2>2. CASE Quiet(client.sock)
      <3>1. wire'[client.sock] = wire[client.sock]
        BY <1>2, <1>4, <2>1, <2>2 DEF OnWire
      <3>2. QED
        BY <2>1, <2>2, <3>1 DEF Quiet
    <2>3. CASE \E u \in Threads : me[u].at = "x_receive" /\ me[u].mine = client.sock
      BY <1>2, <2>1, <2>3
    <2>4. QED
      BY <1>6, <2>1, <2>2, <2>3 DEF Responses
  <1>7. QED
    BY <1>5, <1>6 DEF Responses

(* A new client waits for no answer.                                       *)
LEMMA InitAnswers == Init => Responses
  <1>1. ASSUME Init PROVE Responses
    <2>1. /\ \A t \in Threads : me[t] = Idle
          /\ client.sock = NoSocket
      BY <1>1 DEF Init, Disconnected
    <2>2. QED
      BY <2>1 DEF Responses, AnswerIsOwn, Exchanging, Holding, Trying, Preparing, Idle
  <1>2. QED
    BY <1>1

(* A step that changes nothing keeps Responses.                            *)
LEMMA StutterAnswers == Responses /\ UNCHANGED vars => Responses'
  <1>1. ASSUME Responses, UNCHANGED <<client, me, wire, repeats>> PROVE Responses'
    <2>1. \A s : Quiet(s)' <=> Quiet(s)
      BY <1>1 DEF Quiet
    <2>2. \A t \in Threads : AnswerIsOwn(t)'
      BY <1>1, <2>1 DEF Responses, AnswerIsOwn, Exchanging, Holding, Trying, Preparing,
         State
    <2>3. QED
      BY <1>1, <2>1, <2>2 DEF Responses
  <1>2. QED
    BY <1>1 DEF vars, peer

(* Every step leaves every answer with the call that asked for it.         *)
LEMMA StepAnswers == Second /\ Second' /\ Responses /\ [Next]_vars => Responses'
  <1>1. ASSUME Second, Second', Responses, [Next]_vars PROVE Responses'
    <2>1. CASE \E t \in Threads : Proceed(t) \/ CloseInvalidate(t)
                                    \/ \E o \in Operations : Begin(t, o)
      <3>1. PICK t \in Threads : Proceed(t) \/ CloseInvalidate(t)
                                   \/ \E o \in Operations : Begin(t, o)
        BY <2>1
      <3>2. CASE Ending(t) \/ Going(t)
        BY <1>1, <3>2, MovesAnswer
      <3>3. CASE ~(Ending(t) \/ Going(t))
        BY <1>1, <3>1, <3>3, ProceedMoves, OthersAnswer DEF Second, First
      <3>4. QED
        BY <3>2, <3>3
    <2>2. CASE \E s \in Sockets : Arrive(s) \/ Answer(s) \/ HangUp(s)
      BY <1>1, <2>2, ArriveAnswers, AnswerAnswers, HangUpAnswers
    <2>3. CASE Done \/ UNCHANGED vars
      BY <1>1, <2>3, StutterAnswers DEF Done
    <2>4. QED
      BY <1>1, <2>1, <2>2, <2>3 DEF Next
  <1>2. QED
    BY <1>1

(* Responses holds in every reachable state.                               *)
LEMMA ResponsesHold == Spec => []Responses
  <1>1. Init => Responses
    BY InitAnswers
  <1>2. Second /\ Second' /\ Responses /\ [Next]_vars => Responses'
    BY StepAnswers
  <1>3. QED
    BY <1>1, <1>2, SecondHolds, PTL DEF Spec

(* AcceptedIsOwn: the answer a request is given is its own, or, if the     *)
(* network repeats answers, one that came after its input check.           *)
THEOREM AcceptedStaysOwn == Spec => []AcceptedIsOwn
  <1>1. Responses => AcceptedIsOwn
    BY DEF Responses, AnswerIsOwn, AcceptedIsOwn, NoReply
  <1>2. QED
    BY <1>1, ResponsesHold, PTL
-----------------------------------------------------------------------------
(* The fifth layer: what the PLC has got, and what the calls say of it.    *)
Third == Second /\ Responses

(* The first layers taken together.                                        *)
LEMMA ThirdHolds == Spec => []Third
  BY SecondHolds, ResponsesHold, PTL DEF Third

(* What the PLC has got are numbers of requests.                           *)
LEMMA ReceivedFacts ==
    ASSUME Typed
    PROVE  /\ DOMAIN received = 1..Len(received) /\ Len(received) \in Nat
           /\ \A k \in DOMAIN received :
                k \in Nat /\ received[k] \in 1..MaxRequests /\ received[k] \in Nat
  <1>1. PICK S : S = 1..MaxRequests
    OBVIOUS
  <1>2. received \in Seq(S)
    BY <1>1 DEF Typed
  <1>3. DOMAIN received = 1..Len(received) /\ Len(received) \in Nat
    BY <1>2
  <1>4. \A k \in DOMAIN received : received[k] \in S
    BY <1>2, SequenceElements
  <1>5. \A n \in S : n \in Nat
    BY <1>1, ClientAssumption
  <1>6. QED
    BY <1>1, <1>3, <1>4, <1>5

(* No socket has more to say than before, and nothing is sent over it.     *)
Silent(s) ==
    /\ wire'[s].flight = wire[s].flight
    /\ wire'[s].pending \subseteq wire[s].pending
    /\ \A i \in DOMAIN wire'[s].inbox : \E j \in DOMAIN wire[s].inbox :
         wire'[s].inbox[i].req = wire[s].inbox[j].req

(* The PLC has, or may still get, the same requests.                       *)
SameRequests == \A r : (Got(r)' <=> Got(r)) /\ (Sent(r)' <=> Sent(r))

(* So it is when nothing is sent and nothing arrives.                      *)
LEMMA RequestsStay ==
    ASSUME received' = received, \A s \in Sockets : Silent(s) PROVE SameRequests
  <1>1. \A r : Got(r)' <=> Got(r)
    BY DEF Got
  <1>2. \A s \in Sockets : wire'[s].flight = wire[s].flight
    BY DEF Silent
  <1>3. \A r : Sent(r)' <=> Sent(r)
    BY <1>1, <1>2 DEF Sent
  <1>4. QED
    BY <1>1, <1>3 DEF SameRequests

(* Whoever is given an answer is given one to a request the PLC has.       *)
LEMMA AsksStay ==
    ASSUME AnswersWereAsked, \A s \in Sockets : Silent(s),
           received' = received, late' = late,
           \A u \in Threads : Holding(u)' =>
             \/ Holding(u) /\ me'[u].got.req = me[u].got.req
             \/ Got(me'[u].got.req)
    PROVE  AnswersWereAsked'
  <1>1. \A r : Got(r) <=> Got(r)'
    BY DEF Got
  <1>2. ASSUME NEW s \in Sockets
        PROVE  /\ \A r \in wire'[s].pending : Got(r)'
               /\ \A i \in DOMAIN wire'[s].inbox : Got(wire[s].inbox[i].req)'
    <2>1. Silent(s)
      OBVIOUS
    <2>2. ASSUME NEW i \in DOMAIN wire'[s].inbox PROVE Got(wire[s].inbox[i].req)'
      <3>1. PICK j \in DOMAIN wire[s].inbox :
              wire'[s].inbox[i].req = wire[s].inbox[j].req
        BY <2>1 DEF Silent
      <3>2. Got(wire'[s].inbox[i].req)
        BY <3>1 DEF AnswersWereAsked
      <3>3. QED
        BY <3>2 DEF Got
    <2>3. \A r \in wire'[s].pending : Got(r)'
      BY <1>1, <2>1 DEF Silent, AnswersWereAsked
    <2>4. QED
      BY <2>2, <2>3
  <1>3. ASSUME NEW u \in Threads, Holding(u)' PROVE Got(me[u].got.req)'
    <2>1. Got(me'[u].got.req)
      BY <1>3 DEF AnswersWereAsked
    <2>2. QED
      BY <2>1 DEF Got
  <1>4. \A r \in late' : Got(r)'
    BY <1>1 DEF AnswersWereAsked
  <1>5. QED
    BY <1>2, <1>3, <1>4 DEF AnswersWereAsked

(* Closing sockets silences them.                                          *)
LEMMA ClosedSilent ==
    ASSUME Typed, NEW S, wire' = WithClosed(wire, S)
    PROVE  \A s \in Sockets : Silent(s)
  <1>1. ASSUME NEW s \in Sockets PROVE Silent(s)
    <2>1. /\ wire'[s] = wire[s] \/ wire'[s] = Emptied(wire[s].flight)
          /\ wire'[s].flight = wire[s].flight
          /\ wire[s].flight \in SUBSET (1..MaxRequests)
      BY ClosedFacts DEF Typed, Links
    <2>2. wire'[s] # wire[s] => wire'[s].inbox = <<>> /\ wire'[s].pending = {}
      BY <2>1, EmptiedFacts
    <2>3. QED
      BY <2>1, <2>2 DEF Silent
  <1>2. QED
    BY <1>1

(* Creating one makes none speak.                                          *)
LEMMA CreatedSilent ==
    ASSUME Typed, NEW state \in {"open", "closed"}, NextSocket \in Sockets,
           wire' = [wire EXCEPT ![NextSocket].state = state]
    PROVE  \A s \in Sockets : Silent(s)
  <1>1. PICK s \in Sockets : s = NextSocket
    OBVIOUS
  <1>2. wire' = [wire EXCEPT ![s].state = state]
    BY <1>1
  <1>3. /\ \A u \in Sockets \ {s} : wire'[u] = wire[u]
        /\ wire'[s].inbox = wire[s].inbox /\ wire'[s].pending = wire[s].pending
        /\ wire'[s].flight = wire[s].flight
    BY <1>2, StateFacts
  <1>4. QED
    BY <1>3 DEF Silent

(* So a call that ends makes none speak.                                   *)
LEMMA EndingSilent ==
    ASSUME Typed, Control, Enough, NEW t \in Threads, Ending(t)
    PROVE  \A s \in Sockets : Silent(s)
  <1>1. CASE wire' = wire
    BY <1>1 DEF Silent
  <1>2. CASE \E S : wire' = WithClosed(wire, S)
    BY <1>2, ClosedSilent
  <1>3. CASE \E outcome \in Outcomes : Burns(t, outcome)
    <2>1. /\ wire' = [wire EXCEPT ![NextSocket].state = "closed"]
          /\ me[t].at = "c_open"
      BY <1>3 DEF Burns
    <2>2. PICK state \in {"open", "closed"} : state = "closed"
      OBVIOUS
    <2>3. NextSocket \in Sockets
      BY <2>1, CreatingFacts
    <2>4. wire' = [wire EXCEPT ![NextSocket].state = state]
      BY <2>1, <2>2
    <2>5. QED
      BY <2>3, <2>4, CreatedSilent
  <1>4. QED
    BY <1>1, <1>2, <1>3 DEF Ending, Returns, Retires, GivesUp, Adopts, Notes

(* What a call that goes on does with its requests and its answers.        *)
Quietly(t) ==
    /\ UNCHANGED <<received, late>> /\ me'[t].req = me[t].req
    /\ Unsent(t)' => Unsent(t)
    /\ Flying(t)' => Flying(t)
    /\ \A s \in Sockets : Silent(s)

(* A call that goes on without a send leaves what the PLC got, and takes   *)
(* nothing unasked.                                                        *)
LEMMA GoingQuietly ==
    ASSUME First, NEW t \in Threads, Owns(t), AnswerIsOwn(t), Going(t)
    PROVE  \/ Quietly(t) /\ (Holding(t)' =>
                               \/ Holding(t) /\ me'[t].got.req = me[t].got.req
                               \/ /\ me[t].mine \in Sockets
                                  /\ \E j \in DOMAIN wire[me[t].mine].inbox :
                                       me'[t].got.req = wire[me[t].mine].inbox[j].req)
           \/ Sends(t) \/ WritesBack(t)
  <1>1. \A s \in Sockets : wire'[s] = wire[s] => Silent(s)
    BY DEF Silent
  <1>2. ASSUME NEW label \in Labels, NEW got \in Replies, Walks(t, label, got)
        PROVE  Quietly(t) /\ (Holding(t)' => Holding(t) /\ me'[t].got.req = me[t].got.req)
    <2>1. /\ me'[t].at = label /\ me'[t].req = me[t].req /\ me'[t].got = got
          /\ wire' = wire /\ UNCHANGED <<received, late>>
      BY <1>2 DEF Walks, GoesOn
    <2>2. (Unsent(t)' => Unsent(t)) /\ (Flying(t)' => Flying(t))
      BY <1>2, <2>1 DEF Walks, Unsent, Flying, Holding
    <2>3. Holding(t)' => Holding(t) /\ me'[t].got.req = me[t].got.req
      BY <1>2, <2>1 DEF Walks, Holding
    <2>4. QED
      BY <1>1, <2>1, <2>2, <2>3 DEF Quietly
  <1>3. ASSUME NEW label \in Labels, Uses(t, label) \/ Binds(t, label)
        PROVE  Quietly(t) /\ (Holding(t)' => Holding(t) /\ me'[t].got.req = me[t].got.req)
    <2>1. /\ me'[t].at = label /\ me'[t].req = me[t].req /\ me'[t].got = me[t].got
          /\ wire' = wire /\ UNCHANGED <<received, late>>
      BY <1>3 DEF Uses, Binds, GoesOn
    <2>2. /\ Unsent(t)' => Unsent(t)
          /\ Holding(t)' => Holding(t)
          /\ Flying(t)' => Flying(t)
      BY <1>3, <2>1 DEF Uses, Binds, Unsent, Holding, Flying
    <2>3. QED
      BY <1>1, <2>1, <2>2 DEF Quietly
  <1>4. ASSUME Opens(t) \/ Prepares(t)
        PROVE  Quietly(t) /\ ~Holding(t)'
    <2>1. /\ me'[t].at \in {"c_connect", "x_bind"} /\ me'[t].req = me[t].req
          /\ me[t].at \in {"c_open", "x_prepare"}
          /\ me'[t].at = "x_bind" => me[t].at = "x_prepare"
          /\ wire' = [wire EXCEPT ![NextSocket].state = "open"]
          /\ UNCHANGED <<received, late>>
      BY <1>4 DEF Opens, Prepares, GoesOn
    <2>2. (Unsent(t)' => Unsent(t)) /\ ~Holding(t)' /\ ~Flying(t)'
      BY <2>1 DEF Unsent, Holding, Flying
    <2>3. PICK state \in {"open", "closed"} : state = "open"
      OBVIOUS
    <2>4. NextSocket \in Sockets
      BY <1>4, CreatingFacts DEF Opens, Prepares, First
    <2>5. wire' = [wire EXCEPT ![NextSocket].state = state]
      BY <2>1, <2>3
    <2>6. \A s \in Sockets : Silent(s)
      BY <2>4, <2>5, CreatedSilent DEF First
    <2>7. QED
      BY <2>1, <2>2, <2>6 DEF Quietly
  <1>5. ASSUME Checks(t) PROVE Quietly(t) /\ ~Holding(t)'
    <2>1. /\ me[t].at = "x_check" /\ InUse(t) /\ me'[t].at = "x_send"
          /\ me'[t].req = me[t].req /\ UNCHANGED <<received, late>>
          /\ wire' = [wire EXCEPT ![me[t].mine].checked = me[t].req]
      BY <1>5 DEF Checks, GoesOn, InUse, Sending
    <2>2. PICK n \in Sockets, r \in Nat : n = me[t].mine /\ r = me[t].req
      BY <2>1, UsedSocket
    <2>3. PICK w \in Links : w = wire[n]
      BY <2>1, <2>2, UsedSocket
    <2>4. PICK v : v = [w EXCEPT !.checked = r]
      OBVIOUS
    <2>5. v.inbox = w.inbox /\ v.pending = w.pending /\ v.flight = w.flight
      BY <2>4 DEF Links
    <2>6. wire'[n] = v /\ \A s \in Sockets \ {n} : wire'[s] = wire[s]
      BY <2>1, <2>2, <2>3, <2>4, UsedSocket
    <2>7. Silent(n)
      BY <2>3, <2>5, <2>6 DEF Silent
    <2>8. (Unsent(t)' => Unsent(t)) /\ ~Holding(t)' /\ ~Flying(t)'
      BY <2>1 DEF Unsent, Holding, Flying
    <2>9. QED
      BY <1>1, <2>1, <2>6, <2>7, <2>8 DEF Quietly
  <1>6. ASSUME NEW label \in Labels, NEW got \in Replies, Takes(t, label, got)
        PROVE  /\ Quietly(t) /\ me[t].mine \in Sockets
               /\ \E j \in DOMAIN wire[me[t].mine].inbox :
                    me'[t].got.req = wire[me[t].mine].inbox[j].req
    <2>1. /\ me[t].at = "x_receive" /\ InUse(t) /\ wire[me[t].mine].inbox # <<>>
          /\ me'[t].at = label /\ label \in {"x_recheck", "x_line"}
          /\ me'[t].req = me[t].req /\ me'[t].got = got
          /\ UNCHANGED <<received, late>>
          /\ wire' = [wire EXCEPT ![me[t].mine].inbox = Tail(@)]
          /\ got.req = Head(wire[me[t].mine].inbox).req
      BY <1>6 DEF Takes, GoesOn, InUse, Sending
    <2>2. PICK n \in Sockets : n = me[t].mine
      BY <2>1, UsedSocket
    <2>3. PICK w \in Links : w = wire[n]
      BY <2>1, <2>2, UsedSocket
    <2>4. PICK lines \in Seq(Answers) : lines = w.inbox
      BY DEF Links
    <2>5. PICK rest : rest = Tail(lines)
      OBVIOUS
    <2>6. PICK v : v = [w EXCEPT !.inbox = rest]
      OBVIOUS
    <2>7. v.inbox = rest /\ v.pending = w.pending /\ v.flight = w.flight
      BY <2>6 DEF Links
    <2>8. wire'[n] = v /\ \A s \in Sockets \ {n} : wire'[s] = wire[s]
      BY <2>1, <2>2, <2>3, <2>4, <2>5, <2>6, UsedSocket
    <2>9. /\ \A i \in DOMAIN rest : i + 1 \in DOMAIN lines /\ rest[i] = lines[i + 1]
          /\ 1 \in DOMAIN lines /\ Head(lines) = lines[1]
      BY <2>1, <2>2, <2>3, <2>4, <2>5, TailOfOne
    <2>10. Silent(n)
      BY <2>3, <2>4, <2>7, <2>8, <2>9 DEF Silent
    <2>11. (Unsent(t)' => Unsent(t)) /\ (Flying(t)' => Flying(t))
      BY <2>1 DEF Unsent, Flying
    <2>12. me'[t].got.req = wire[n].inbox[1].req /\ 1 \in DOMAIN wire[n].inbox
      BY <2>1, <2>2, <2>3, <2>4, <2>9
    <2>13. QED
      BY <1>1, <2>1, <2>2, <2>8, <2>10, <2>11, <2>12 DEF Quietly
  <1>7. QED
    BY <1>2, <1>3, <1>4, <1>5, <1>6 DEF Going

(* A call in its turn has it alone, as the admission sees it.              *)
LEMMA InTurnHolds ==
    ASSUME First, NEW t \in Threads, InTurn(t)
    PROVE  /\ pc[t] = "inside" /\ Adm!HasTurn(t) /\ InLine(t)
           /\ \A u \in Threads : Adm!HasTurn(u) => u = t
  <1>1. pc[t] = "inside"
    BY InTurnFacts DEF First
  <1>2. Adm!HasTurn(t)
    BY <1>1 DEF Adm!HasTurn
  <1>3. \A u \in Threads : Adm!HasTurn(u) => u = t
    BY <1>2 DEF First, Admission, Adm!MutualExclusion
  <1>4. QED
    BY <1>1, <1>2, <1>3 DEF InLine

(* Steps that give nobody a number; a close() has none.                    *)
SameNumbers ==
    \A u \in Threads :
        \/ me'[u].req = me[u].req /\ me'[u].alters = me[u].alters
        \/ me'[u].req = 0 /\ me'[u].alters = 0

(* Who is in the queue, and where the numbers are.                         *)
LEMMA LineFacts ==
    ASSUME First
    PROVE  /\ queue \in Seq(Threads) /\ Len(queue) \in Nat
           /\ \A i \in 1..Len(queue) : queue[i] \in Threads
           /\ \A u \in Threads : me[u].req \in Nat /\ me[u].alters \in Nat
           /\ requests \in Nat
  <1>1. queue \in Seq(Threads)
    BY DEF First, Admission, Adm!TypeOK
  <1>2. \A u \in Threads : me[u].req \in Nat /\ me[u].alters \in Nat
    BY DEF First, Typed, Calls
  <1>3. requests \in Nat
    BY ClientAssumption DEF First, Typed
  <1>4. QED
    BY <1>1, <1>2, <1>3

(* The order stays when the calls keep their numbers.                      *)
LEMMA BeforeStays ==
    ASSUME First, SameNumbers, NEW t \in Threads, NEW u \in Threads, Before(t, u)
    PROVE  Before(t, u)'
  BY LineFacts DEF SameNumbers, Before

(* The calls stay in order when the queue keeps some of its threads, in    *)
(* their order, and the first of those that go may get the turn.           *)
LEMMA OrderedShrinks ==
    ASSUME First, Ordered, SameNumbers, \A r \in Nat : Sent(r)' => Sent(r),
           requests' \in Nat, requests' >= requests, Len(queue') \in Nat,
           NEW f \in [1..Len(queue') -> 1..Len(queue)],
           \A i, j \in 1..Len(queue') : i < j => f[i] < f[j],
           \A i \in 1..Len(queue') : queue'[i] = queue[f[i]],
           \A u \in Threads : Adm!HasTurn(u)' =>
             \/ Adm!HasTurn(u)
             \/ /\ 1 \in 1..Len(queue) /\ u = queue[1]
                /\ \A i \in 1..Len(queue') : 1 < f[i],
           \A u \in Threads : InLine(u)' /\ me'[u].req # 0 =>
             InLine(u) /\ (Unsent(u)' => Unsent(u))
    PROVE  Ordered'
  <1>1. \A t, u \in Threads : t # u /\ me'[t].alters # 0 =>
          me'[t].alters # me'[u].req /\ me'[t].alters # me'[u].alters
    BY DEF SameNumbers, Ordered
  <1>2. ASSUME NEW i \in 1..Len(queue'), NEW j \in 1..Len(queue'), i < j
        PROVE  Before(queue[i], queue[j])'
    <2>1. f[i] \in 1..Len(queue) /\ f[j] \in 1..Len(queue) /\ f[i] < f[j]
      BY <1>2
    <2>2. Before(queue[f[i]], queue[f[j]])
      BY <2>1 DEF Ordered
    <2>3. PICK t \in Threads, u \in Threads : t = queue[f[i]] /\ u = queue[f[j]]
      BY <2>1, LineFacts
    <2>4. Before(t, u)'
      BY <2>2, <2>3, BeforeStays
    <2>5. queue'[i] = t /\ queue'[j] = u
      BY <2>3
    <2>6. QED
      BY <2>4, <2>5 DEF Before
  <1>3. ASSUME NEW t \in Threads, Adm!HasTurn(t)', NEW j \in 1..Len(queue')
        PROVE  Before(t, queue[j])'
    <2>1. f[j] \in 1..Len(queue) /\ queue'[j] = queue[f[j]]
      OBVIOUS
    <2>2. PICK u \in Threads : u = queue[f[j]]
      BY <2>1, LineFacts
    <2>3. Before(t, u)
      <3>1. CASE Adm!HasTurn(t)
        BY <2>1, <2>2, <3>1 DEF Ordered
      <3>2. CASE 1 \in 1..Len(queue) /\ t = queue[1] /\ 1 < f[j]
        BY <2>1, <2>2, <3>2 DEF Ordered
      <3>3. QED
        BY <1>3, <3>1, <3>2
    <2>4. Before(t, u)'
      BY <2>3, BeforeStays
    <2>5. QED
      BY <2>1, <2>2, <2>4 DEF Before
  <1>4. ASSUME NEW u \in Threads, NEW r \in Nat, InLine(u)', me'[u].req # 0, Sent(r)'
        PROVE  r <= me'[u].req /\ (Unsent(u)' => r < me'[u].req)
    <2>1. me'[u].req = me[u].req /\ me[u].req # 0
      BY <1>4 DEF SameNumbers
    <2>2. InLine(u) /\ (Unsent(u)' => Unsent(u)) /\ Sent(r)
      BY <1>4
    <2>3. r <= me[u].req /\ (Unsent(u) => r < me[u].req)
      BY <2>1, <2>2 DEF Ordered
    <2>4. QED
      BY <2>1, <2>2, <2>3
  <1>5. ASSUME NEW r \in Nat, Sent(r)' PROVE r <= requests'
    <2>1. Sent(r)
      BY <1>5
    <2>2. r <= requests
      BY <2>1 DEF Ordered
    <2>3. QED
      BY <2>2, LineFacts
  <1>6. QED
    BY <1>1, <1>2, <1>3, <1>4, <1>5 DEF Ordered

(* The queue stays as it is, and nobody gets the turn.                     *)
LEMMA OrderedStays ==
    ASSUME First, Ordered, SameNumbers, UNCHANGED <<requests, queue>>,
           \A r \in Nat : Sent(r)' => Sent(r),
           \A u \in Threads : Adm!HasTurn(u)' => Adm!HasTurn(u),
           \A u \in Threads : me'[u].req # 0 => (Unsent(u)' => Unsent(u))
    PROVE  Ordered'
  <1> DEFINE f == [i \in 1..Len(queue) |-> i]
  <1>1. Len(queue) \in Nat /\ requests' \in Nat /\ requests' >= requests
    BY LineFacts
  <1>2. /\ f \in [1..Len(queue') -> 1..Len(queue)]
        /\ \A i \in 1..Len(queue') : f[i] = i
    BY <1>1
  <1>3. /\ \A i, j \in 1..Len(queue') : i < j => f[i] < f[j]
        /\ \A i \in 1..Len(queue') : queue'[i] = queue[f[i]]
    BY <1>2
  <1>4. \A u \in Threads : InLine(u)' => InLine(u)
    BY DEF InLine, Adm!Queued
  <1> HIDE DEF f
  <1>5. QED
    BY <1>1, <1>2, <1>3, <1>4, OrderedShrinks

(* The queue is emptied, and nobody gets the turn.                         *)
LEMMA OrderedEmptied ==
    ASSUME First, Ordered, SameNumbers, requests' = requests, queue' = <<>>,
           \A r \in Nat : Sent(r)' => Sent(r),
           \A u \in Threads : Adm!HasTurn(u)' => Adm!HasTurn(u),
           \A u \in Threads : me'[u].req # 0 => (Unsent(u)' => Unsent(u))
    PROVE  Ordered'
  <1> DEFINE f == [i \in 1..0 |-> i]
  <1>1. Len(queue') = 0 /\ 1..Len(queue') = {} /\ Len(queue') \in Nat
        /\ requests' \in Nat /\ requests' >= requests
    BY LineFacts
  <1>2. f \in [1..Len(queue') -> 1..Len(queue)]
    BY <1>1
  <1>3. \A u \in Threads : InLine(u)' => InLine(u)
    BY <1>1 DEF InLine, Adm!Queued
  <1> HIDE DEF f
  <1>4. QED
    BY <1>1, <1>2, <1>3, OrderedShrinks

(* The longest waiting thread gets the turn that a call gives up.          *)
LEMMA OrderedExit ==
    ASSUME First, Ordered, NEW t \in Threads, InTurn(t), Adm!Exit(t), SameNumbers,
           requests' = requests, ~Unsent(t)', \A r \in Nat : Sent(r)' => Sent(r),
           \A u \in Threads \ {t} : me'[u] = me[u]
    PROVE  Ordered'
  <1>1. /\ pc' = [pc EXCEPT ![t] = "outside"]
        /\ \/ queue = <<>> /\ queue' = <<>> /\ event' = event
           \/ /\ queue # <<>> /\ queue' = Tail(queue)
              /\ event' = [event EXCEPT ![Head(queue)] = "set"]
    BY DEF Adm!Exit, Adm!Successor
  <1>2. /\ pc \in [Threads -> {"outside", "waiting", "inside"}]
        /\ event \in [Threads -> {"clear", "set", "error"}]
        /\ queue \in Seq(Threads)
    BY DEF First, Admission, Adm!TypeOK
  <1>3. \A u \in Threads : Adm!HasTurn(u) => u = t
    BY InTurnHolds
  <1>4. ~Adm!HasTurn(t)'
    BY <1>1, <1>2 DEF Adm!HasTurn
  <1>5. requests' \in Nat /\ requests' >= requests
    BY LineFacts
  <1>6. \A u \in Threads : Unsent(u)' => Unsent(u)
    BY DEF Unsent
  <1>7. CASE queue = <<>>
    <2>1. \A u \in Threads : Adm!HasTurn(u)' => Adm!HasTurn(u)
      BY <1>1, <1>2, <1>4, <1>7 DEF Adm!HasTurn
    <2>2. QED
      BY <1>1, <1>6, <1>7, <2>1, OrderedEmptied
  <1>8. CASE queue # <<>>
    <2> DEFINE f == [i \in 1..Len(queue') |-> i + 1]
    <2>1. /\ Len(queue) \in Nat /\ Len(queue') = Len(queue) - 1 /\ Len(queue') \in Nat
          /\ Head(queue) = queue[1] /\ 1 \in 1..Len(queue)
          /\ \A i \in 1..Len(queue') : queue'[i] = queue[i + 1] /\ i + 1 \in 1..Len(queue)
      <3>1. PICK q \in Seq(Threads) : q = queue
        BY <1>2
      <3>2. queue' = Tail(q) /\ q # <<>>
        BY <1>1, <1>8, <3>1
      <3>3. Len(q) \in Nat /\ Len(Tail(q)) = Len(q) - 1 /\ Head(q) = q[1] /\ Len(q) # 0
        BY <3>2
      <3>4. \A i \in 1..(Len(q) - 1) : Tail(q)[i] = q[i + 1] /\ i + 1 \in 1..Len(q)
        BY <3>2
      <3>5. QED
        BY <3>1, <3>2, <3>3, <3>4
    <2>2. /\ f \in [1..Len(queue') -> 1..Len(queue)]
          /\ \A i \in 1..Len(queue') : f[i] = i + 1
      BY <2>1
    <2>3. /\ \A i, j \in 1..Len(queue') : i < j => f[i] < f[j]
          /\ \A i \in 1..Len(queue') : 1 < f[i] /\ queue'[i] = queue[f[i]]
      BY <2>1, <2>2
    <2>4. \A u \in Threads : Adm!HasTurn(u)' => u = queue[1]
      <3>1. ASSUME NEW u \in Threads, Adm!HasTurn(u)', u # Head(queue) PROVE FALSE
        <4>1. u # t
          BY <1>4, <3>1
        <4>2. pc'[u] = pc[u] /\ event'[u] = event[u]
          BY <1>1, <1>2, <1>8, <3>1, <4>1
        <4>3. Adm!HasTurn(u)
          BY <3>1, <4>2 DEF Adm!HasTurn
        <4>4. QED
          BY <1>3, <4>1, <4>3
      <3>2. QED
        BY <2>1, <3>1
    <2>5. ASSUME NEW u \in Threads, InLine(u)' PROVE InLine(u)
      <3>1. CASE Adm!HasTurn(u)'
        BY <2>1, <2>4, <3>1 DEF InLine, Adm!Queued
      <3>2. CASE Adm!Queued(u)'
        <4>1. PICK i \in 1..Len(queue') : queue'[i] = u
          BY <3>2 DEF Adm!Queued
        <4>2. queue[i + 1] = u /\ i + 1 \in 1..Len(queue)
          BY <2>1, <4>1
        <4>3. QED
          BY <4>2 DEF InLine, Adm!Queued
      <3>3. QED
        BY <2>5, <3>1, <3>2 DEF InLine
    <2> HIDE DEF f
    <2>6. QED
      BY <1>5, <1>6, <2>1, <2>2, <2>3, <2>4, <2>5, OrderedShrinks
  <1>9. QED
    BY <1>7, <1>8

(* The numbers of a call in its turn.                                      *)
LEMMA NumberFacts ==
    ASSUME First, NEW t \in Threads
    PROVE  /\ me[t].req \in Nat /\ me[t].alters \in Nat /\ me[t].alters - 1 \in Int
           /\ me[t].req <= requests /\ me[t].alters <= requests
           /\ me[t].req = 0 => me[t].alters = 0
           /\ me[t].op \in {"connect", "close", "none"} => me[t].alters = 0
           /\ me[t].op # "bit" /\ me[t].alters # 0 => Changing(t)
           /\ me[t].op = "bit" /\ ~Changing(t) =>
                me[t].req = me[t].alters - 1 /\ me[t].req # 0
           /\ me[t].op \in AllOperations \cup {"none"}
  <1>1. NumbersAreOwn(t) /\ me[t].op \in AllOperations \cup {"none"}
        /\ me[t].req \in Nat /\ me[t].alters \in Nat /\ requests \in Nat
    BY LineFacts DEF First, Control, Typed, Calls
  <1>2. QED
    BY <1>1 DEF NumbersAreOwn, AllOperations, Changing

(* No request has the number 0.                                            *)
LEMMA NothingIsNumberZero ==
    ASSUME Typed PROVE ~Got(0) /\ \A r : Sent(r) => r \in 1..MaxRequests /\ r \in Nat
  <1>1. \A r : Got(r) => r \in 1..MaxRequests
    BY ReceivedFacts DEF Got
  <1>2. \A s \in Sockets : wire[s].flight \subseteq 1..MaxRequests
    BY DEF Typed, Links
  <1>3. \A r : Sent(r) => r \in 1..MaxRequests
    BY <1>1, <1>2 DEF Sent
  <1>4. QED
    BY <1>1, <1>3, ClientAssumption

(* Who sends nothing keeps what is known of the requests the PLC has.      *)
LEMMA UpdatesStay ==
    ASSUME First, Updates, SameNumbers, SameRequests, repeats' >= repeats,
           repeats' \in Nat,
           \A u \in Threads : me'[u].alters # 0 => me'[u].op = me[u].op,
           \A u \in Threads : me'[u].req # 0 => (Unsent(u)' => Unsent(u))
    PROVE  Updates'
  <1>1. \A n : (Got(n)' <=> Got(n)) /\ (Sent(n)' <=> Sent(n))
    BY DEF SameRequests
  <1>2. ASSUME NEW u \in Threads, me'[u].alters # 0
        PROVE  /\ Unsent(u)' \/ ~Changing(u)' => ~Sent(me[u].alters)'
               /\ repeats' = 0 /\ me'[u].op = "bit" /\ Changing(u)' =>
                    Got(me[u].alters - 1)'
    <2>1. /\ me'[u].alters = me[u].alters /\ me'[u].req = me[u].req
          /\ me'[u].op = me[u].op /\ me[u].req # 0
      BY <1>2, NumberFacts DEF SameNumbers
    <2>2. (Changing(u)' <=> Changing(u)) /\ (Unsent(u)' => Unsent(u))
      BY <2>1 DEF Changing
    <2>3. repeats' = 0 => repeats = 0
      BY DEF First, Typed
    <2>4. PICK a, b : a = me[u].alters /\ b = me[u].alters - 1
      OBVIOUS
    <2>5. (Sent(a)' <=> Sent(a)) /\ (Got(b)' <=> Got(b))
      BY <1>1
    <2>6. /\ Unsent(u)' \/ ~Changing(u)' => ~Sent(a)'
          /\ repeats' = 0 /\ me'[u].op = "bit" /\ Changing(u)' => Got(b)'
      BY <1>2, <2>1, <2>2, <2>3, <2>4, <2>5 DEF Updates
    <2>7. me'[u].alters = a /\ me'[u].alters - 1 = b
      BY <2>1, <2>4
    <2>8. QED
      BY <2>6, <2>7 DEF Got, Sent
  <1>3. QED
    BY <1>2 DEF Updates

(* A call that does nothing keeps what it said.                            *)
Told(t) ==
    /\ me[t].outcome = "closed" => me[t].retired
    /\ At(t, "idle") /\ me[t].alters # 0 =>
         /\ me[t].outcome = "ok" /\ repeats = 0 =>
              Got(me[t].alters) /\ me[t].alters \notin late
         /\ me[t].outcome = "plcError" /\ repeats = 0 =>
              Got(me[t].req) /\ me[t].req \notin late
         /\ me[t].outcome = "unknown" => me[t].sent
         /\ me[t].outcome \notin {"ok", "plcError", "unknown", "ValueError",
                                 "IndexError"} => ~Sent(me[t].alters)

(* OutcomeIsTrue, call by call.                                            *)
LEMMA ToldIsTrue == OutcomeIsTrue <=> \A t \in Threads : Told(t)
  BY DEF OutcomeIsTrue, Told

(* What a call was told stays true as the PLC gets the requests of others. *)
LEMMA ToldStays ==
    ASSUME First, NEW u \in Threads, Told(u), me'[u] = me[u], repeats' >= repeats,
           repeats' \in Nat, \A r : Got(r) => Got(r)',
           \A r : repeats = 0 /\ Got(r) /\ r \notin late => r \notin late',
           \A r : r = me[u].alters /\ r # 0 /\ ~Sent(r) => ~Sent(r)'
    PROVE  Told(u)'
  <1>1. repeats' = 0 => repeats = 0
    BY DEF First, Typed
  <1>2. PICK a, q : a = me[u].alters /\ q = me[u].req
    OBVIOUS
  <1>3. /\ Got(q) => Got(q)'
        /\ Got(a) => Got(a)'
        /\ repeats = 0 /\ Got(q) /\ q \notin late => q \notin late'
        /\ repeats = 0 /\ Got(a) /\ a \notin late => a \notin late'
        /\ a # 0 /\ ~Sent(a) => ~Sent(a)'
    BY <1>2
  <1>4. /\ me[u].outcome = "closed" => me[u].retired
        /\ At(u, "idle") /\ a # 0 =>
             /\ me[u].outcome = "ok" /\ repeats' = 0 => Got(a)' /\ a \notin late'
             /\ me[u].outcome = "plcError" /\ repeats' = 0 => Got(q)' /\ q \notin late'
             /\ me[u].outcome = "unknown" => me[u].sent
             /\ me[u].outcome \notin {"ok", "plcError", "unknown", "ValueError",
                                     "IndexError"} => ~Sent(a)'
    BY <1>1, <1>2, <1>3 DEF Told
  <1>5. me'[u].alters = a /\ me'[u].req = q
    BY <1>2
  <1>6. QED
    BY <1>4, <1>5 DEF Told, At, Got, Sent

(* A call that goes on or waits has told nothing yet.                      *)
LEMMA ToldNothing ==
    ASSUME NEW t \in Threads, me'[t].at # "idle", me'[t].outcome = "none"
    PROVE  Told(t)'
  BY DEF Told, At

(* What the PLC has got, and whose numbers its requests have.              *)
Truth == AnswersWereAsked /\ Ordered /\ Updates /\ OutcomeIsTrue
Fourth == Truth /\ InFlight

(* A call that ends tells the truth.                                       *)
LEMMA EndingTells ==
    ASSUME Third, Fourth, NEW t \in Threads, Ending(t) PROVE Truth'
  <1> USE DEF Third, Second
  <1>1. InTurn(t) /\ First /\ Keeps(t) /\ Owns(t) /\ AnswerIsOwn(t)
    BY MovesUntaken, AnsweredOne DEF Untaken
  <1>2. PICK outcome \in Outcomes \ {"none"}, sent \in BOOLEAN :
          Honest(t, outcome, sent) /\ Ends(t, outcome, sent)
    BY <1>1, EndingFacts DEF First
  <1>3. /\ me'[t].at = "idle" /\ me'[t].outcome = outcome /\ me'[t].sent = sent
        /\ me'[t].retired <=> Adm!Invalidated(t)
        /\ me'[t].req = me[t].req /\ me'[t].alters = me[t].alters /\ me'[t].op = me[t].op
        /\ \A u \in Threads \ {t} : me'[u] = me[u]
        /\ Adm!Exit(t) /\ UNCHANGED <<received, late, requests, repeats>>
    BY <1>2 DEF Ends, Keeps
  <1>4. \A s \in Sockets : Silent(s)
    BY <1>1, EndingSilent DEF First
  <1>5. AnswersWereAsked'
    <2>1. \A u \in Threads : Holding(u)' => Holding(u) /\ me'[u].got.req = me[u].got.req
      BY <1>3 DEF Holding
    <2>2. QED
      BY <1>3, <1>4, <2>1, AsksStay DEF Fourth, Truth
  <1>6. SameRequests
    BY <1>3, <1>4, RequestsStay
  <1>7. SameNumbers /\ ~Unsent(t)' /\ \A u \in Threads : Unsent(u)' => Unsent(u)
    BY <1>3 DEF SameNumbers, Unsent
  <1>8. Ordered'
    BY <1>1, <1>3, <1>6, <1>7, OrderedExit DEF Fourth, Truth, SameRequests
  <1>9. repeats \in Nat /\ repeats' >= repeats /\ repeats' \in Nat
    BY <1>1, <1>3 DEF First, Typed
  <1>10. Updates'
    BY <1>1, <1>3, <1>6, <1>7, <1>9, UpdatesStay DEF Fourth, Truth
  <1>11. PICK a, q : a = me[t].alters /\ q = me[t].req
    OBVIOUS
  <1>12. ASSUME a # 0
         PROVE  /\ outcome = "ok" /\ repeats = 0 => Got(a) /\ a \notin late
                /\ outcome = "plcError" /\ repeats = 0 => Got(q) /\ q \notin late
                /\ outcome = "unknown" => sent
                /\ outcome \notin {"ok", "plcError", "unknown", "ValueError",
                                   "IndexError"} => ~Sent(a)
    <2>1. /\ me[t].op \notin {"connect", "close", "none"} /\ ~Connecting(t)
          /\ me[t].op # "bit" => Changing(t)
      BY <1>1, <1>11, <1>12, NumberFacts DEF First, Control, CallIsExact
    <2>2. ASSUME repeats = 0, Holding(t) PROVE Got(q) /\ q \notin late
      <3>1. me[t].got.req = q
        BY <1>1, <1>11, <2>2 DEF AnswerIsOwn
      <3>2. Got(me[t].got.req)
        BY <2>2 DEF Fourth, Truth, AnswersWereAsked
      <3>3. q \notin late
        BY <1>11, <2>2 DEF Fourth, InFlight, Flying
      <3>4. QED
        BY <3>1, <3>2, <3>3
    <2>3. ASSUME outcome = "ok", repeats = 0 PROVE Got(a) /\ a \notin late
      <3>1. me[t].at \in {"x_decode", "x_note"} /\ Changing(t)
        BY <1>2, <2>1, <2>3 DEF Honest
      <3>2. a = q
        BY <1>11, <3>1 DEF Changing
      <3>3. QED
        BY <2>2, <2>3, <3>1, <3>2 DEF Holding
    <2>4. ASSUME outcome = "plcError", repeats = 0 PROVE Got(q) /\ q \notin late
      BY <1>2, <2>2, <2>4 DEF Honest, Holding
    <2>5. outcome \notin {"ok", "plcError", "unknown", "ValueError", "IndexError"} =>
            ~Sent(a)
      BY <1>2, <1>11, <1>12, <2>1 DEF Honest, Fourth, Truth, Updates
    <2>6. outcome = "unknown" => sent
      BY <1>2 DEF Honest
    <2>7. QED
      BY <2>3, <2>4, <2>5, <2>6
  <1>13. Told(t)'
    <2>1. outcome = "closed" => Adm!Invalidated(t)
      BY <1>1, <1>2 DEF Honest, Owns, CallHasSocket
    <2>2. /\ Got(a)' <=> Got(a)
          /\ Got(q)' <=> Got(q)
          /\ Sent(a)' <=> Sent(a)
      BY <1>6 DEF SameRequests
    <2>3. me'[t].alters = a /\ me'[t].req = q /\ late' = late /\ repeats' = repeats
      BY <1>3, <1>11
    <2>4. a # 0 =>
             /\ outcome = "ok" /\ repeats' = 0 => Got(a)' /\ a \notin late'
             /\ outcome = "plcError" /\ repeats' = 0 => Got(q)' /\ q \notin late'
             /\ outcome = "unknown" => sent
             /\ outcome \notin {"ok", "plcError", "unknown", "ValueError",
                                "IndexError"} => ~Sent(a)'
      BY <1>12, <2>2, <2>3
    <2>5. QED
      BY <1>3, <2>1, <2>3, <2>4 DEF Told, Got, Sent
  <1>14. ASSUME NEW u \in Threads \ {t} PROVE Told(u)'
    <2>1. Told(u) /\ me'[u] = me[u]
      BY <1>3, ToldIsTrue DEF Fourth, Truth
    <2>2. \A r : (Got(r) => Got(r)') /\ (~Sent(r) => ~Sent(r)')
      BY <1>6 DEF SameRequests
    <2>3. QED
      BY <1>1, <1>3, <1>9, <2>1, <2>2, ToldStays
  <1>15. OutcomeIsTrue'
    <2>1. \A u \in Threads : Told(u)'
      BY <1>13, <1>14
    <2>2. QED
      BY <2>1 DEF OutcomeIsTrue, Told
  <1>16. QED
    BY <1>5, <1>8, <1>10, <1>15 DEF Truth

(* A step that sends nothing, ends no call and begins none.                *)
LEMMA QuietTruth ==
    ASSUME Third, Fourth, AnswersWereAsked', SameNumbers, repeats' >= repeats,
           repeats' \in Nat, UNCHANGED <<late, requests, queue>>, SameRequests,
           \A u \in Threads : Adm!HasTurn(u)' => Adm!HasTurn(u),
           \A u \in Threads : me'[u].req # 0 => (Unsent(u)' => Unsent(u)),
           \A u \in Threads : me'[u].alters # 0 => me'[u].op = me[u].op,
           \A u \in Threads : me'[u] = me[u] \/ Told(u)'
    PROVE  Truth'
  <1> USE DEF Third, Second
  <1>1. Ordered'
    BY OrderedStays DEF Fourth, Truth, SameRequests
  <1>2. Updates'
    BY UpdatesStay DEF Fourth, Truth
  <1>3. ASSUME NEW u \in Threads PROVE Told(u)'
    <2>1. CASE me'[u] = me[u]
      <3>1. Told(u)
        BY ToldIsTrue DEF Fourth, Truth
      <3>2. \A r : (Got(r) => Got(r)') /\ (~Sent(r) => ~Sent(r)')
        BY DEF SameRequests
      <3>3. QED
        BY <2>1, <3>1, <3>2, ToldStays
    <2>2. QED
      BY <2>1
  <1>4. OutcomeIsTrue'
    BY <1>3 DEF OutcomeIsTrue, Told
  <1>5. QED
    BY <1>1, <1>2, <1>4 DEF Truth

(* A call that goes on and sends nothing.                                  *)
LEMMA QuietlyTruth ==
    ASSUME Third, Fourth, NEW t \in Threads, Going(t), ~Sends(t), ~WritesBack(t)
    PROVE  Truth'
  <1> USE DEF Third, Second
  <1>1. InTurn(t) /\ First /\ Keeps(t) /\ Owns(t) /\ AnswerIsOwn(t)
    BY MovesUntaken, AnsweredOne DEF Untaken
  <1>2. /\ Quietly(t)
        /\ Holding(t)' =>
             \/ Holding(t) /\ me'[t].got.req = me[t].got.req
             \/ /\ me[t].mine \in Sockets
                /\ \E j \in DOMAIN wire[me[t].mine].inbox :
                     me'[t].got.req = wire[me[t].mine].inbox[j].req
    BY <1>1, GoingQuietly
  <1>3. /\ me'[t].outcome = me[t].outcome /\ Onward(t, me'[t].at, me'[t].mine)
        /\ UNCHANGED admission /\ UNCHANGED <<requests, repeats>>
    BY <1>1, GoingOnward DEF First
  <1>4. AnswersWereAsked'
    <2>1. ASSUME NEW u \in Threads, Holding(u)'
          PROVE  \/ Holding(u) /\ me'[u].got.req = me[u].got.req
                 \/ Got(me'[u].got.req)
      <3>1. CASE u # t
        BY <1>1, <2>1, <3>1 DEF Keeps, Holding
      <3>2. CASE u = t
        BY <1>2, <2>1, <3>2 DEF Fourth, Truth, AnswersWereAsked
      <3>3. QED
        BY <3>1, <3>2
    <2>2. QED
      BY <1>2, <2>1, AsksStay DEF Fourth, Truth, Quietly
  <1>5. /\ SameNumbers
        /\ \A u \in Threads : Unsent(u)' => Unsent(u)
        /\ \A u \in Threads : me'[u].op = me[u].op
    BY <1>1, <1>2 DEF Quietly, Keeps, SameNumbers, Unsent
  <1>6. \A u \in Threads : Adm!HasTurn(u)' => Adm!HasTurn(u)
    BY <1>3 DEF admission, Adm!HasTurn
  <1>7. repeats \in Nat /\ repeats' \in Nat /\ repeats' >= repeats
        /\ UNCHANGED <<late, requests, queue>> /\ SameRequests
    BY <1>1, <1>2, <1>3, RequestsStay DEF First, Typed, Quietly, admission
  <1>8. \A u \in Threads : me'[u] = me[u] \/ Told(u)'
    <2>1. me'[t].at # "idle" /\ me[t].outcome = "none"
      BY <1>1, <1>3 DEF Onward, First, Control, CallIsExact, InTurn
    <2>2. Told(t)'
      BY <1>3, <2>1, ToldNothing
    <2>3. QED
      BY <1>1, <2>2 DEF Keeps
  <1>9. QED
    BY <1>4, <1>5, <1>6, <1>7, <1>8, QuietTruth

(* A request that is sent is the latest that the PLC may get.              *)
LEMMA SentFacts ==
    ASSUME First, Ordered, NEW t \in Threads, InTurn(t), Owns(t), Sends(t)
    PROVE  /\ \A r : Sent(r)' <=> Sent(r) \/ r = me[t].req
           /\ \A r : Got(r)' <=> Got(r)
           /\ \A s \in Sockets :
                /\ wire'[s].inbox = wire[s].inbox /\ wire'[s].pending = wire[s].pending
                /\ \/ wire'[s].flight = wire[s].flight
                   \/ /\ s = me[t].mine
                      /\ wire'[s].flight = wire[s].flight \cup {me[t].req}
           /\ me[t].req \in Nat /\ me[t].req # 0 /\ me[t].req <= requests
           /\ \A r \in Nat : Sent(r) => r < me[t].req
           /\ ~Sent(me[t].req)
  <1>1. /\ me[t].at = "x_send" /\ Requesting(t) /\ InUse(t) /\ received' = received
        /\ wire' = [wire EXCEPT ![me[t].mine].flight = @ \cup {me[t].req}]
    BY DEF Sends, Requesting, InUse, Sending
  <1>2. me[t].req \in Nat /\ me[t].req # 0 /\ me[t].req <= requests
    BY <1>1, RequestFacts, NumberFacts DEF First
  <1>3. PICK n \in Sockets, r \in Nat : n = me[t].mine /\ r = me[t].req
    BY <1>1, <1>2, UsedSocket DEF First
  <1>4. PICK w \in Links : w = wire[n]
    BY DEF First, Typed
  <1>5. PICK v : v = [w EXCEPT !.flight = @ \cup {r}]
    OBVIOUS
  <1>6. /\ v.inbox = w.inbox /\ v.pending = w.pending
        /\ v.flight = w.flight \cup {r}
    BY <1>5 DEF Links
  <1>7. wire'[n] = v /\ \A s \in Sockets \ {n} : wire'[s] = wire[s]
    BY <1>1, <1>3, <1>4, <1>5 DEF First, Typed
  <1>8. \A s \in Sockets :
          /\ wire'[s].inbox = wire[s].inbox /\ wire'[s].pending = wire[s].pending
          /\ \/ wire'[s].flight = wire[s].flight
             \/ s = n /\ wire'[s].flight = wire[s].flight \cup {r}
    BY <1>4, <1>6, <1>7
  <1>9. r \in wire'[n].flight /\ \A s \in Sockets : wire[s].flight \subseteq wire'[s].flight
    BY <1>4, <1>6, <1>7
  <1>10. \A q : Got(q)' <=> Got(q)
    BY <1>1 DEF Got
  <1>11. \A q : Sent(q)' <=> Sent(q) \/ q = r
    BY <1>8, <1>9, <1>10 DEF Sent
  <1>12. \A q \in Nat : Sent(q) => q < r
    BY <1>1, <1>2, <1>3, InTurnHolds DEF Ordered, Unsent
  <1>13. ~Sent(r)
    BY <1>3, <1>12
  <1>14. ~Sent(me[t].req)
    BY <1>3, <1>13 DEF Sent, Got
  <1>15. QED
    BY <1>2, <1>3, <1>8, <1>10, <1>11, <1>12, <1>14

(* The calls stay in order when one sends its request.                     *)
LEMMA SentOrdered ==
    ASSUME First, Ordered, NEW t \in Threads, InTurn(t), Owns(t), Sends(t), Keeps(t)
    PROVE  Ordered'
  <1>1. /\ \A r : Sent(r)' <=> Sent(r) \/ r = me[t].req
        /\ me[t].req \in Nat /\ me[t].req # 0 /\ me[t].req <= requests
        /\ \A r \in Nat : Sent(r) => r < me[t].req
    BY SentFacts
  <1>2. /\ UNCHANGED <<queue, pc, event>> /\ requests' = requests
        /\ \A u \in Threads : me'[u].req = me[u].req /\ me'[u].alters = me[u].alters
        /\ \A u \in Threads \ {t} : me'[u] = me[u]
        /\ me'[t].at = "x_receive"
    BY DEF admission, Sends, GoesOn, Keeps
  <1>3. \A u, v \in Threads : u # v /\ me'[u].alters # 0 =>
          me'[u].alters # me'[v].req /\ me'[u].alters # me'[v].alters
    BY <1>2 DEF Ordered
  <1>4. SameNumbers
    BY <1>2 DEF SameNumbers
  <1>5. ASSUME NEW i \in 1..Len(queue'), NEW j \in 1..Len(queue'), i < j
        PROVE  Before(queue[i], queue[j])'
    <2>1. Before(queue[i], queue[j]) /\ queue' = queue
      BY <1>2, <1>5 DEF Ordered
    <2>2. PICK u \in Threads, v \in Threads : u = queue[i] /\ v = queue[j]
      BY <1>2, LineFacts
    <2>3. Before(u, v)'
      BY <1>4, <2>1, <2>2, BeforeStays
    <2>4. QED
      BY <2>1, <2>2, <2>3 DEF Before
  <1>6. ASSUME NEW u \in Threads, Adm!HasTurn(u)', NEW j \in 1..Len(queue')
        PROVE  Before(u, queue[j])'
    <2>1. Before(u, queue[j]) /\ queue' = queue
      BY <1>2, <1>6 DEF Ordered, Adm!HasTurn
    <2>2. PICK v \in Threads : v = queue[j]
      BY <1>2, LineFacts
    <2>3. Before(u, v)'
      BY <1>4, <2>1, <2>2, BeforeStays
    <2>4. QED
      BY <2>1, <2>2, <2>3 DEF Before
  <1>7. ASSUME NEW u \in Threads, NEW r \in Nat, InLine(u)', me'[u].req # 0, Sent(r)'
        PROVE  r <= me'[u].req /\ (Unsent(u)' => r < me'[u].req)
    <2>1. InLine(u)
      BY <1>2, <1>7 DEF InLine, Adm!Queued, Adm!HasTurn
    <2>2. r <= me[t].req
      BY <1>1, <1>7
    <2>3. CASE u = t
      BY <1>2, <2>2, <2>3 DEF Unsent
    <2>4. CASE u # t
      <3>1. Adm!Queued(u)
        BY <2>1, <2>4, InTurnHolds DEF InLine
      <3>2. Before(t, u) /\ me[u].req # 0
        BY <1>2, <1>7, <3>1, InTurnHolds DEF Ordered, Adm!Queued
      <3>3. me[t].req < me[u].req /\ me[u].req \in Nat
        BY <3>2, LineFacts DEF Before
      <3>4. r < me[u].req /\ r <= me[u].req
        BY <1>1, <2>2, <3>3
      <3>5. QED
        BY <1>2, <3>4
    <2>5. QED
      BY <2>3, <2>4
  <1>8. \A r \in Nat : Sent(r)' => r <= requests'
    BY <1>1, <1>2 DEF Ordered
  <1>9. QED
    BY <1>3, <1>5, <1>6, <1>7, <1>8 DEF Ordered


(* What is known of the requests stays true when one is sent.              *)
LEMMA SendsTruth ==
    ASSUME Third, Fourth, NEW t \in Threads, Sends(t) PROVE Truth'
  <1> USE DEF Third, Second
  <1>1. InTurn(t) /\ First /\ Keeps(t) /\ Owns(t) /\ AnswerIsOwn(t)
    <2>1. Going(t)
      BY DEF Going
    <2>2. QED
      BY <2>1, MovesUntaken, AnsweredOne DEF Untaken
  <1>2. /\ me[t].at = "x_send" /\ me'[t].at = "x_receive"
        /\ me'[t].req = me[t].req /\ me'[t].alters = me[t].alters /\ me'[t].op = me[t].op
        /\ me'[t].outcome = me[t].outcome
        /\ \A u \in Threads \ {t} : me'[u] = me[u]
        /\ UNCHANGED <<received, late, requests, repeats>>
        /\ repeats' \in Nat /\ repeats' >= repeats
    BY <1>1 DEF Sends, GoesOn, Keeps, First, Typed
  <1>3. PICK q \in Nat : q = me[t].req
    BY <1>1, SentFacts DEF Fourth, Truth
  <1>4. /\ \A r : Sent(r)' <=> Sent(r) \/ r = q
        /\ \A r : Got(r)' <=> Got(r)
        /\ \A s \in Sockets :
             wire'[s].inbox = wire[s].inbox /\ wire'[s].pending = wire[s].pending
    BY <1>1, <1>3, SentFacts DEF Fourth, Truth
  <1>5. Ordered'
    BY <1>1, SentOrdered DEF Fourth, Truth
  <1>6. AnswersWereAsked'
    <2>1. ASSUME NEW s \in Sockets
          PROVE  /\ \A r \in wire'[s].pending : Got(r)'
                 /\ \A i \in DOMAIN wire'[s].inbox : Got(wire[s].inbox[i].req)'
      <3>1. /\ \A r \in wire[s].pending : Got(r)
            /\ \A i \in DOMAIN wire[s].inbox : Got(wire[s].inbox[i].req)
        BY DEF Fourth, Truth, AnswersWereAsked
      <3>2. QED
        BY <1>2, <1>4, <3>1 DEF Got
    <2>2. ASSUME NEW u \in Threads, Holding(u)' PROVE Got(me[u].got.req)'
      <3>1. Holding(u) /\ me'[u] = me[u]
        BY <1>2, <2>2 DEF Holding
      <3>2. Got(me[u].got.req)
        BY <3>1 DEF Fourth, Truth, AnswersWereAsked
      <3>3. QED
        BY <1>2, <3>1, <3>2 DEF Got
    <2>3. \A r \in late' : Got(r)'
      BY <1>2, <1>4 DEF Fourth, Truth, AnswersWereAsked
    <2>4. QED
      BY <2>1, <2>2, <2>3 DEF AnswersWereAsked
  <1>7. \A u \in Threads \ {t} : me[u].alters # 0 => me[u].alters # q
    BY <1>3 DEF Fourth, Truth, Ordered
  <1>8. ASSUME NEW u \in Threads, me'[u].alters # 0
        PROVE  /\ Unsent(u)' \/ ~Changing(u)' => ~Sent(me[u].alters)'
               /\ repeats' = 0 /\ me'[u].op = "bit" /\ Changing(u)' =>
                    Got(me[u].alters - 1)'
    <2>1. /\ me'[u].alters = me[u].alters /\ me'[u].req = me[u].req
          /\ me'[u].op = me[u].op /\ me[u].alters # 0
          /\ Unsent(u)' => Unsent(u)
      BY <1>2, <1>8 DEF Unsent
    <2>2. Changing(u)' <=> Changing(u)
      BY <2>1 DEF Changing
    <2>3. PICK a, b : a = me[u].alters /\ b = me[u].alters - 1
      OBVIOUS
    <2>4. repeats' = 0 /\ me'[u].op = "bit" /\ Changing(u)' => Got(b)'
      BY <1>2, <1>4, <2>1, <2>2, <2>3 DEF Fourth, Truth, Updates
    <2>5. ASSUME Unsent(u)' \/ ~Changing(u)' PROVE ~Sent(a)'
      <3>1. ~Sent(a)
        BY <2>1, <2>2, <2>3, <2>5 DEF Fourth, Truth, Updates
      <3>2. a # q
        BY <1>2, <1>3, <1>7, <2>1, <2>2, <2>3, <2>5 DEF Unsent, Changing
      <3>3. QED
        BY <1>4, <3>1, <3>2
    <2>6. me'[u].alters = a /\ me'[u].alters - 1 = b
      BY <2>1, <2>3
    <2>7. QED
      BY <2>4, <2>5, <2>6 DEF Got, Sent
  <1>9. Updates'
    BY <1>8 DEF Updates
  <1>10. ASSUME NEW u \in Threads PROVE Told(u)'
    <2>1. CASE u = t
      BY <1>1, <1>2, <2>1, ToldNothing DEF First, Control, CallIsExact
    <2>2. CASE u # t
      <3>1. Told(u) /\ me'[u] = me[u]
        BY <1>2, <2>2, ToldIsTrue DEF Fourth, Truth
      <3>2. \A r : Got(r) => Got(r)'
        BY <1>4
      <3>3. \A r : r = me[u].alters /\ r # 0 /\ ~Sent(r) => ~Sent(r)'
        BY <1>4, <1>7, <2>2
      <3>4. QED
        BY <1>1, <1>2, <3>1, <3>2, <3>3, ToldStays
    <2>3. QED
      BY <2>1, <2>2
  <1>11. OutcomeIsTrue'
    BY <1>10 DEF OutcomeIsTrue, Told
  <1>12. QED
    BY <1>5, <1>6, <1>9, <1>11 DEF Truth

(* The word of a bit goes back with the next number, which is still the    *)
(* smallest that the PLC has not got.                                      *)
LEMMA WritesBackTruth ==
    ASSUME Third, Fourth, NEW t \in Threads, WritesBack(t) PROVE Truth'
  <1> USE DEF Third, Second
  <1>1. InTurn(t) /\ First /\ Keeps(t) /\ Owns(t) /\ AnswerIsOwn(t)
    <2>1. Going(t)
      BY DEF Going
    <2>2. QED
      BY <2>1, MovesUntaken, AnsweredOne DEF Untaken
  <1>2. /\ me[t].at = "x_decode" /\ me[t].op = "bit" /\ ~Changing(t)
        /\ me'[t].at = "x_start" /\ me'[t].req = me[t].alters
        /\ me'[t].alters = me[t].alters /\ me'[t].op = me[t].op
        /\ me'[t].got = NoReply /\ me'[t].outcome = me[t].outcome
        /\ \A u \in Threads \ {t} : me'[u] = me[u]
        /\ UNCHANGED admission /\ UNCHANGED <<wire, received, late, requests, repeats>>
    BY <1>1 DEF WritesBack, Keeps
  <1>3. /\ me[t].req \in Nat /\ me[t].alters \in Nat
        /\ me[t].req = me[t].alters - 1 /\ me[t].req # 0
        /\ me[t].req < me[t].alters
    <2>1. /\ me[t].req \in Nat /\ me[t].alters \in Nat
          /\ me[t].req = me[t].alters - 1 /\ me[t].req # 0
      BY <1>1, <1>2, NumberFacts
    <2>2. QED
      BY <2>1
  <1>4. SameRequests
    BY <1>2, RequestsStay DEF Silent
  <1>5. AnswersWereAsked'
    <2>1. \A s \in Sockets : Silent(s)
      BY <1>2 DEF Silent
    <2>2. \A u \in Threads : Holding(u)' => Holding(u) /\ me'[u].got.req = me[u].got.req
      BY <1>2 DEF Holding
    <2>3. QED
      BY <1>2, <2>1, <2>2, AsksStay DEF Fourth, Truth
  <1>6. Ordered'
    <2>1. \A u, v \in Threads : u # v /\ me'[u].alters # 0 =>
            me'[u].alters # me'[v].req /\ me'[u].alters # me'[v].alters
      <3>1. ASSUME NEW u \in Threads, NEW v \in Threads, u # v, me'[u].alters # 0
            PROVE  me'[u].alters # me'[v].req /\ me'[u].alters # me'[v].alters
        <4>1. /\ me'[u].alters = me[u].alters /\ me'[v].alters = me[v].alters
              /\ me'[v].req = me[v].req \/ me'[v].req = me[v].alters
          BY <1>2
        <4>2. QED
          BY <3>1, <4>1 DEF Fourth, Truth, Ordered
      <3>2. QED
        BY <3>1
    <2>2. UNCHANGED <<queue, pc, event>>
      BY <1>2 DEF admission
    <2>3. \A i \in 1..Len(queue) : queue[i] \in Threads \ {t}
      <3>1. ~Adm!Queued(t)
        BY <1>1, InTurnHolds DEF First, Admission, Adm!QueueIsExact
      <3>2. QED
        BY <1>1, <3>1, LineFacts DEF Adm!Queued
    <2>4. ASSUME NEW i \in 1..Len(queue'), NEW j \in 1..Len(queue'), i < j
          PROVE  Before(queue[i], queue[j])'
      <3>1. PICK u \in Threads \ {t}, v \in Threads \ {t} : u = queue[i] /\ v = queue[j]
        BY <2>2, <2>3
      <3>2. Before(u, v)
        BY <2>2, <2>4, <3>1 DEF Fourth, Truth, Ordered
      <3>3. QED
        BY <1>2, <2>2, <3>1, <3>2 DEF Before
    <2>5. ASSUME NEW u \in Threads, Adm!HasTurn(u)', NEW j \in 1..Len(queue')
          PROVE  Before(u, queue[j])'
      <3>1. PICK v \in Threads \ {t} : v = queue[j]
        BY <2>2, <2>3
      <3>2. u = t
        BY <1>1, <2>2, <2>5, InTurnHolds DEF Adm!HasTurn
      <3>3. Before(t, v)
        BY <1>1, <2>2, <3>1, InTurnHolds DEF Fourth, Truth, Ordered
      <3>4. QED
        BY <1>2, <2>2, <3>1, <3>2, <3>3 DEF Before
    <2>6. \A r : Sent(r)' <=> Sent(r)
      BY <1>4 DEF SameRequests
    <2>7. ASSUME NEW u \in Threads, NEW r \in Nat, InLine(u)', me'[u].req # 0, Sent(r)'
          PROVE  r <= me'[u].req /\ (Unsent(u)' => r < me'[u].req)
      <3>1. InLine(u) /\ Sent(r)
        BY <2>2, <2>6, <2>7 DEF InLine, Adm!Queued, Adm!HasTurn
      <3>2. CASE u = t
        <4>1. r <= me[t].req
          BY <1>3, <3>1, <3>2 DEF Fourth, Truth, Ordered
        <4>2. QED
          BY <1>2, <1>3, <3>2, <4>1
      <3>3. CASE u # t
        BY <1>2, <2>7, <3>1, <3>3 DEF Fourth, Truth, Ordered, Unsent
      <3>4. QED
        BY <3>2, <3>3
    <2>8. \A r \in Nat : Sent(r)' => r <= requests'
      BY <1>2, <2>6 DEF Fourth, Truth, Ordered
    <2>9. QED
      BY <2>1, <2>4, <2>5, <2>7, <2>8 DEF Ordered
  <1>7. \A r : (Got(r)' <=> Got(r)) /\ (Sent(r)' <=> Sent(r))
    BY <1>4 DEF SameRequests
  <1>8. Updates'
    <2>1. PICK a, b : a = me[t].alters /\ b = me[t].alters - 1
      OBVIOUS
    <2>2. ~Sent(a)
      BY <1>2, <1>3, <2>1 DEF Fourth, Truth, Updates
    <2>3. repeats = 0 => Got(b)
      <3>1. Holding(t) /\ (repeats = 0 => me[t].got.req = me[t].req)
        BY <1>1, <1>2 DEF Holding, AnswerIsOwn
      <3>2. QED
        BY <1>3, <2>1, <3>1 DEF Fourth, Truth, AnswersWereAsked
    <2>4. ~Sent(a)' /\ (repeats' = 0 => Got(b)')
      BY <1>2, <1>7, <2>2, <2>3
    <2>5. me'[t].alters = a /\ me'[t].alters - 1 = b
      BY <1>2, <2>1
    <2>6. ~Sent(me[t].alters)' /\ (repeats' = 0 => Got(me[t].alters - 1)')
      BY <2>4, <2>5 DEF Got, Sent
    <2>7. ASSUME NEW u \in Threads \ {t}, me'[u].alters # 0
          PROVE  /\ Unsent(u)' \/ ~Changing(u)' => ~Sent(me[u].alters)'
                 /\ repeats' = 0 /\ me'[u].op = "bit" /\ Changing(u)' =>
                      Got(me[u].alters - 1)'
      <3>1. me'[u] = me[u] /\ UNCHANGED <<wire, received, repeats>>
        BY <1>2
      <3>2. QED
        BY <2>7, <3>1 DEF Fourth, Truth, Updates, Unsent, Changing, Got, Sent
    <2>8. QED
      BY <2>6, <2>7 DEF Updates
  <1>9. OutcomeIsTrue'
    <2>1. ASSUME NEW u \in Threads PROVE Told(u)'
      <3>1. CASE u = t
        BY <1>1, <1>2, <3>1, ToldNothing DEF First, Control, CallIsExact
      <3>2. CASE u # t
        <4>1. Told(u) /\ me'[u] = me[u]
          BY <1>2, <3>2, ToldIsTrue DEF Fourth, Truth
        <4>2. repeats' \in Nat /\ repeats' >= repeats /\ late' = late
          BY <1>1, <1>2 DEF First, Typed
        <4>3. QED
          BY <1>1, <1>7, <4>1, <4>2, ToldStays
      <3>3. QED
        BY <3>1, <3>2
    <2>2. QED
      BY <2>1 DEF OutcomeIsTrue, Told
  <1>10. QED
    BY <1>5, <1>6, <1>8, <1>9 DEF Truth

(* What is known of the requests stays true when a call begins.            *)
LEMMA BeginOrdered ==
    ASSUME Third, Fourth, NEW t \in Threads, NEW o \in Operations, Begin(t, o)
    PROVE  Ordered' /\ Updates'
  <1> USE DEF Third, Second
  <1>1. /\ Begins(t, o) /\ o \in Operations \ {"close"} /\ me[t].at = "idle"
        /\ UNCHANGED <<wire, received, repeats>>
        /\ requests' = requests + Cost(o) /\ requests' <= MaxRequests
        /\ pc[t] = "outside" /\ pc' = [pc EXCEPT ![t] = "waiting"]
        /\ IF ~active /\ queue = <<>>
             THEN queue' = queue /\ event' = [event EXCEPT ![t] = "set"]
             ELSE queue' = Append(queue, t) /\ event' = [event EXCEPT ![t] = "clear"]
    BY BeginsFacts DEF Begin, At, Adm!Enter, Adm!EnterIf, First
  <1>2. /\ requests' \in 0..MaxRequests /\ requests' >= requests
        /\ me'[t].op = "bit" => me'[t].req # me'[t].alters
        /\ me'[t].req # 0 => me'[t].req > requests
        /\ me'[t].alters # 0 => me'[t].alters > requests
        /\ \A u \in Threads : /\ me[u].req \in Nat /\ me[u].req <= requests
                              /\ me[u].alters \in Nat /\ me[u].alters <= requests
        /\ me'[t].req \in Nat /\ me'[t].alters \in Nat /\ requests \in Nat
    BY <1>1, NewNumbers DEF First
  <1>3. \A u \in Threads \ {t} : me'[u] = me[u]
    BY <1>1 DEF Begins
  <1>4. /\ \A r : (Sent(r)' <=> Sent(r)) /\ (Got(r)' <=> Got(r))
        /\ \A r : Sent(r) => r \in Nat /\ 0 < r /\ r <= requests
    <2>1. \A r : Sent(r) => r \in 1..MaxRequests /\ r \in Nat
      BY NothingIsNumberZero DEF First
    <2>2. \A r \in Nat : Sent(r) => r <= requests
      BY DEF Fourth, Truth, Ordered
    <2>3. \A r : (Sent(r)' <=> Sent(r)) /\ (Got(r)' <=> Got(r))
      BY <1>1 DEF Sent, Got
    <2>4. QED
      BY <2>1, <2>2, <2>3, ClientAssumption
  <1>5. /\ queue \in Seq(Threads) /\ Len(queue) \in Nat
        /\ \A i \in 1..Len(queue) : queue[i] \in Threads \ {t}
        /\ pc \in [Threads -> {"outside", "waiting", "inside"}]
        /\ event \in [Threads -> {"clear", "set", "error"}]
    <2>1. ~Adm!Queued(t)
      BY <1>1 DEF First, Admission, Adm!QueueIsExact
    <2>2. QED
      BY <2>1, LineFacts DEF First, Admission, Adm!TypeOK, Adm!Queued
  <1>6. /\ \A i \in 1..Len(queue') :
             \/ i \in 1..Len(queue) /\ queue'[i] = queue[i]
             \/ i = Len(queue) + 1 /\ queue'[i] = t /\ ~Adm!HasTurn(t)'
        /\ Adm!HasTurn(t)' => queue' = <<>> /\ queue = <<>>
    <2>1. CASE ~active /\ queue = <<>>
      BY <1>1, <1>5, <2>1
    <2>2. CASE ~(~active /\ queue = <<>>)
      <3>1. /\ queue' = Append(queue, t) /\ event'[t] = "clear" /\ pc'[t] = "waiting"
        BY <1>1, <1>5, <2>2
      <3>2. \A i \in 1..Len(queue') :
               \/ i \in 1..Len(queue) /\ queue'[i] = queue[i]
               \/ i = Len(queue) + 1 /\ queue'[i] = t
        BY <1>5, <3>1
      <3>3. ~Adm!HasTurn(t)'
        BY <3>1 DEF Adm!HasTurn
      <3>4. QED
        BY <3>2, <3>3
    <2>3. QED
      BY <2>1, <2>2
  <1>7. \A u \in Threads \ {t} : Adm!HasTurn(u)' <=> Adm!HasTurn(u)
    BY <1>1, <1>5 DEF Adm!HasTurn
  <1>8. \A u, v \in Threads : u # v /\ me'[u].alters # 0 =>
          me'[u].alters # me'[v].req /\ me'[u].alters # me'[v].alters
    <2>1. ASSUME NEW u \in Threads, NEW v \in Threads, u # v, me'[u].alters # 0
          PROVE  me'[u].alters # me'[v].req /\ me'[u].alters # me'[v].alters
      <3>1. CASE u = t
        BY <1>2, <1>3, <2>1, <3>1
      <3>2. CASE v = t
        BY <1>2, <1>3, <2>1, <3>2
      <3>3. CASE u # t /\ v # t
        BY <1>3, <2>1, <3>3 DEF Fourth, Truth, Ordered
      <3>4. QED
        BY <3>1, <3>2, <3>3
    <2>2. QED
      BY <2>1
  <1>9. ASSUME NEW u \in Threads \ {t} PROVE Before(u, t)'
    BY <1>2, <1>3 DEF Before
  <1>10. ASSUME NEW u \in Threads \ {t}, NEW v \in Threads \ {t}, Before(u, v)
         PROVE  Before(u, v)'
    BY <1>3, <1>10 DEF Before
  <1>11. ASSUME NEW i \in 1..Len(queue'), NEW j \in 1..Len(queue'), i < j
         PROVE  Before(queue[i], queue[j])'
    <2>1. i \in 1..Len(queue) /\ queue'[i] = queue[i]
      BY <1>5, <1>6, <1>11
    <2>2. PICK u \in Threads \ {t} : u = queue[i]
      BY <1>5, <2>1
    <2>3. CASE j \in 1..Len(queue) /\ queue'[j] = queue[j]
      <3>1. PICK v \in Threads \ {t} : v = queue[j]
        BY <1>5, <2>3
      <3>2. Before(u, v)
        BY <1>11, <2>1, <2>2, <2>3, <3>1 DEF Fourth, Truth, Ordered
      <3>3. Before(u, v)'
        BY <1>10, <3>2
      <3>4. QED
        BY <2>1, <2>2, <2>3, <3>1, <3>3 DEF Before
    <2>4. CASE queue'[j] = t
      <3>1. Before(u, t)'
        BY <1>9
      <3>2. QED
        BY <2>1, <2>2, <2>4, <3>1 DEF Before
    <2>5. QED
      BY <1>6, <2>3, <2>4
  <1>12. ASSUME NEW u \in Threads, Adm!HasTurn(u)', NEW j \in 1..Len(queue')
         PROVE  Before(u, queue[j])'
    <2>1. u # t
      BY <1>6, <1>12
    <2>2. CASE j \in 1..Len(queue) /\ queue'[j] = queue[j]
      <3>1. PICK v \in Threads \ {t} : v = queue[j]
        BY <1>5, <2>2
      <3>2. Before(u, v)
        BY <1>7, <1>12, <2>1, <2>2, <3>1 DEF Fourth, Truth, Ordered
      <3>3. Before(u, v)'
        BY <1>10, <2>1, <3>2
      <3>4. QED
        BY <2>2, <3>1, <3>3 DEF Before
    <2>3. CASE queue'[j] = t
      <3>1. Before(u, t)'
        BY <1>9, <2>1
      <3>2. QED
        BY <2>3, <3>1 DEF Before
    <2>4. QED
      BY <1>6, <2>2, <2>3
  <1>13. ASSUME NEW u \in Threads, NEW r \in Nat, InLine(u)', me'[u].req # 0, Sent(r)'
         PROVE  r <= me'[u].req /\ (Unsent(u)' => r < me'[u].req)
    <2>1. CASE u = t
      BY <1>2, <1>4, <1>13, <2>1
    <2>2. CASE u # t
      <3>1. InLine(u)
        <4>1. CASE Adm!HasTurn(u)'
          BY <1>7, <2>2, <4>1 DEF InLine
        <4>2. CASE Adm!Queued(u)'
          BY <1>6, <2>2, <4>2 DEF InLine, Adm!Queued
        <4>3. QED
          BY <1>13, <4>1, <4>2 DEF InLine
      <3>2. me'[u] = me[u] /\ Sent(r)
        BY <1>3, <1>4, <1>13, <2>2
      <3>3. r <= me[u].req /\ (Unsent(u) => r < me[u].req)
        BY <1>13, <3>1, <3>2 DEF Fourth, Truth, Ordered
      <3>4. QED
        BY <3>2, <3>3 DEF Unsent
    <2>3. QED
      BY <2>1, <2>2
  <1>14. \A r \in Nat : Sent(r)' => r <= requests'
    BY <1>2, <1>4
  <1>15. Ordered'
    BY <1>8, <1>11, <1>12, <1>13, <1>14 DEF Ordered
  <1>16. Updates'
    <2>1. ASSUME NEW u \in Threads \ {t}
          PROVE  me'[u].alters # 0 =>
                 /\ Unsent(u)' \/ ~Changing(u)' => ~Sent(me[u].alters)'
                 /\ repeats' = 0 /\ me'[u].op = "bit" /\ Changing(u)' =>
                      Got(me[u].alters - 1)'
      BY <1>1, <1>3 DEF Fourth, Truth, Updates, Unsent, Changing, Got, Sent
    <2>2. PICK a : a = me'[t].alters
      OBVIOUS
    <2>3. a # 0 => ~Sent(a)'
      BY <1>2, <1>4, <2>2
    <2>4. me'[t].alters # 0 => ~Sent(me[t].alters)'
      BY <2>2, <2>3 DEF Sent, Got
    <2>5. ~(me'[t].op = "bit" /\ Changing(t)')
      BY <1>1, <1>2 DEF Changing
    <2>6. QED
      BY <2>1, <2>4, <2>5 DEF Updates
  <1>17. QED
    BY <1>15, <1>16

(* A call that enters the queue, with numbers of its own, keeps the fourth *)
(* layer.                                                                  *)
LEMMA BeginTruth ==
    ASSUME Third, Fourth, NEW t \in Threads, NEW o \in Operations, Begin(t, o)
    PROVE  Truth'
  <1> USE DEF Third, Second
  <1>1. /\ Begins(t, o) /\ UNCHANGED <<wire, received, late, repeats>>
    BY BeginsFacts DEF Begin, First
  <1>2. /\ \A u \in Threads \ {t} : me'[u] = me[u]
        /\ me'[t].at = "enter" /\ me'[t].outcome = "none"
    BY <1>1 DEF Begins
  <1>3. AnswersWereAsked'
    <2>1. \A s \in Sockets : Silent(s)
      BY <1>1 DEF Silent
    <2>2. \A u \in Threads : Holding(u)' => Holding(u) /\ me'[u].got.req = me[u].got.req
      BY <1>2 DEF Holding
    <2>3. QED
      BY <1>1, <2>1, <2>2, AsksStay DEF Fourth, Truth
  <1>4. ASSUME NEW u \in Threads PROVE Told(u)'
    <2>1. CASE u = t
      BY <1>2, <2>1, ToldNothing
    <2>2. CASE u # t
      <3>1. Told(u) /\ me'[u] = me[u]
        BY <1>2, <2>2, ToldIsTrue DEF Fourth, Truth
      <3>2. \A r : (Got(r) => Got(r)') /\ (~Sent(r) => ~Sent(r)')
        BY <1>1 DEF Got, Sent
      <3>3. repeats' \in Nat /\ repeats' >= repeats
        BY <1>1 DEF First, Typed
      <3>4. QED
        BY <1>1, <3>1, <3>2, <3>3, ToldStays
    <2>3. QED
      BY <2>1, <2>2
  <1>5. OutcomeIsTrue'
    BY <1>4 DEF OutcomeIsTrue, Told
  <1>6. QED
    BY <1>3, <1>5, BeginOrdered DEF Truth

(* ... when one gets its turn or the close error ...                       *)
LEMMA TurnsTruth ==
    ASSUME Third, Fourth, NEW t \in Threads, Admitted(t) \/ Rejected(t)
    PROVE  Truth'
  <1> USE DEF Third, Second
  <1>1. /\ \A u \in Threads \ {t} : me'[u] = me[u]
        /\ me[t].at = "enter" /\ me'[t].at \in {"c_start", "x_start", "idle"}
        /\ me'[t].op = me[t].op /\ me'[t].req = me[t].req
        /\ me'[t].alters = me[t].alters /\ me'[t].got = me[t].got
        /\ \/ me'[t].at # "idle" /\ me'[t].outcome = "none"
           \/ me'[t].outcome = "closed" /\ me'[t].retired
    BY AdmittedTurns, RejectedTurns DEF Turns, First
  <1>2. UNCHANGED <<client, wire, received, late, requests, repeats>>
    BY DEF Admitted, Rejected, peer
  <1>3. queue' = queue
    BY DEF Admitted, Rejected, Adm!Admitted, Adm!Rejected, Adm!shared
  <1>4. \A u \in Threads : Adm!HasTurn(u)' => Adm!HasTurn(u)
    BY DEF Admitted, Rejected, Adm!Admitted, Adm!Rejected, Adm!shared, Adm!waiters,
       Adm!HasTurn, First, Admission, Adm!TypeOK
  <1>5. AnswersWereAsked'
    <2>1. \A s \in Sockets : Silent(s)
      BY <1>2 DEF Silent
    <2>2. \A u \in Threads : Holding(u)' => Holding(u) /\ me'[u].got.req = me[u].got.req
      BY <1>1 DEF Holding
    <2>3. QED
      BY <1>2, <2>1, <2>2, AsksStay DEF Fourth, Truth
  <1>6. /\ SameNumbers /\ repeats' \in Nat /\ repeats' >= repeats
        /\ \A u \in Threads : Unsent(u)' => Unsent(u)
        /\ \A u \in Threads : me'[u].op = me[u].op
    BY <1>1, <1>2 DEF SameNumbers, Unsent, First, Typed
  <1>7. Told(t)'
    <2>1. CASE me'[t].at # "idle" /\ me'[t].outcome = "none"
      BY <2>1, ToldNothing
    <2>2. CASE me'[t].outcome = "closed" /\ me'[t].retired
      <3>1. me[t].alters # 0 => ~Sent(me[t].alters)
        BY <1>1 DEF Fourth, Truth, Updates, Unsent
      <3>2. me'[t].alters # 0 => ~Sent(me[t].alters)'
        BY <1>1, <1>2, <3>1 DEF Got, Sent
      <3>3. QED
        BY <2>2, <3>2 DEF Told
    <2>3. QED
      BY <1>1, <2>1, <2>2
  <1>8. \A u \in Threads : me'[u] = me[u] \/ Told(u)'
    BY <1>1, <1>7
  <1>9. SameRequests
    BY <1>2 DEF SameRequests, Got, Sent
  <1>10. QED
    BY <1>2, <1>3, <1>4, <1>5, <1>6, <1>8, <1>9, QuietTruth

(* ... when a close() begins ...                                           *)
LEMMA InvalidateTruth ==
    ASSUME Third, Fourth, NEW t \in Threads, CloseInvalidate(t) PROVE Truth'
  <1> USE DEF Third, Second
  <1>1. /\ \A u \in Threads \ {t} : me'[u] = me[u]
        /\ me'[t].at = "k_clear" /\ me'[t].req = 0 /\ me'[t].alters = 0
        /\ me'[t].outcome = "none" /\ me'[t].got = NoReply
    BY CloseBegins DEF First
  <1>2. UNCHANGED <<client, wire, received, late, requests, repeats>> /\ Adm!Invalidate
    BY DEF CloseInvalidate, peer
  <1>3. queue' = <<>> /\ \A u \in Threads : Adm!HasTurn(u)' => Adm!HasTurn(u)
    BY <1>2 DEF Adm!Invalidate, Adm!HasTurn, Adm!locals
  <1>4. AnswersWereAsked'
    <2>1. \A s \in Sockets : Silent(s)
      BY <1>2 DEF Silent
    <2>2. \A u \in Threads : Holding(u)' => Holding(u) /\ me'[u].got.req = me[u].got.req
      BY <1>1 DEF Holding
    <2>3. QED
      BY <1>2, <2>1, <2>2, AsksStay DEF Fourth, Truth
  <1>5. /\ SameNumbers /\ repeats' \in Nat /\ repeats' >= repeats
        /\ \A u \in Threads : Unsent(u)' => Unsent(u)
        /\ \A u \in Threads : me'[u].alters # 0 => me'[u].op = me[u].op
    BY <1>1, <1>2 DEF SameNumbers, Unsent, First, Typed
  <1>6. SameRequests
    BY <1>2 DEF SameRequests, Got, Sent
  <1>7. Ordered'
    BY <1>2, <1>3, <1>5, <1>6, OrderedEmptied DEF Fourth, Truth, SameRequests
  <1>8. Updates'
    BY <1>2, <1>5, <1>6, UpdatesStay DEF Fourth, Truth
  <1>9. ASSUME NEW u \in Threads PROVE Told(u)'
    <2>1. CASE u = t
      BY <1>1, <2>1, ToldNothing
    <2>2. CASE u # t
      <3>1. Told(u) /\ me'[u] = me[u]
        BY <1>1, <2>2, ToldIsTrue DEF Fourth, Truth
      <3>2. \A r : (Got(r) => Got(r)') /\ (~Sent(r) => ~Sent(r)')
        BY <1>6 DEF SameRequests
      <3>3. QED
        BY <1>2, <1>5, <3>1, <3>2, ToldStays
    <2>3. QED
      BY <2>1, <2>2
  <1>10. OutcomeIsTrue'
    BY <1>9 DEF OutcomeIsTrue, Told
  <1>11. QED
    BY <1>4, <1>7, <1>8, <1>10 DEF Truth

(* ... and as it goes on.                                                  *)
LEMMA ClosingTruth ==
    ASSUME Third, Fourth, NEW t \in Threads,
           CloseClear(t) \/ CloseShutdown(t) \/ CloseSocket(t)
    PROVE  Truth'
  <1> USE DEF Third, Second
  <1>1. \E label \in {"k_shutdown", "k_close", "idle"} : Turns(t, label)
    BY CloseClearTurns, CloseShutdownTurns, CloseSocketTurns DEF First
  <1>2. /\ \A u \in Threads \ {t} : me'[u] = me[u]
        /\ me'[t].at \in {"k_shutdown", "k_close", "idle"}
        /\ me'[t].op = me[t].op /\ me'[t].req = me[t].req
        /\ me'[t].alters = me[t].alters /\ me'[t].got = me[t].got
    BY <1>1 DEF Turns
  <1>3. /\ me[t].at \in {"k_clear", "k_shutdown", "k_close"}
        /\ me'[t].outcome \in {me[t].outcome, "ok"}
        /\ UNCHANGED admission /\ UNCHANGED <<received, late, requests, repeats>>
    BY CloseClearTurns, CloseShutdownTurns, CloseSocketTurns DEF First, peer
  <1>4. \A s \in Sockets : Silent(s)
    <2>1. CASE CloseClear(t)
      BY <2>1 DEF CloseClear, Silent
    <2>2. CASE CloseShutdown(t)
      <3>1. ASSUME NEW s \in Sockets PROVE Silent(s)
        <4>1. /\ wire'[s].inbox = wire[s].inbox /\ wire'[s].pending = wire[s].pending
              /\ wire'[s].flight = wire[s].flight
          BY <2>2, CloseShutdownTurns DEF First
        <4>2. QED
          BY <4>1 DEF Silent
      <3>2. QED
        BY <3>1
    <2>3. CASE CloseSocket(t)
      BY <2>3, CloseSocketTurns, ClosedSilent DEF First
    <2>4. QED
      BY <2>1, <2>2, <2>3
  <1>5. AnswersWereAsked'
    <2>1. \A u \in Threads : Holding(u)' => Holding(u) /\ me'[u].got.req = me[u].got.req
      BY <1>2 DEF Holding
    <2>2. QED
      BY <1>3, <1>4, <2>1, AsksStay DEF Fourth, Truth
  <1>6. /\ SameNumbers /\ repeats' \in Nat /\ repeats' >= repeats
        /\ \A u \in Threads : Unsent(u)' => Unsent(u)
        /\ \A u \in Threads : me'[u].op = me[u].op
    BY <1>2, <1>3 DEF SameNumbers, Unsent, First, Typed
  <1>7. /\ queue' = queue
        /\ \A u \in Threads : Adm!HasTurn(u)' => Adm!HasTurn(u)
    BY <1>3 DEF admission, Adm!HasTurn
  <1>8. Told(t)'
    <2>1. me[t].op = "close" /\ me[t].outcome = "none"
      BY <1>3 DEF First, Control, CallIsExact, Closing
    <2>2. me[t].alters = 0
      BY <2>1, NumberFacts
    <2>3. QED
      BY <1>2, <1>3, <2>1, <2>2 DEF Told
  <1>9. \A u \in Threads : me'[u] = me[u] \/ Told(u)'
    BY <1>2, <1>8
  <1>10. SameRequests
    BY <1>3, <1>4, RequestsStay
  <1>11. QED
    BY <1>3, <1>5, <1>6, <1>7, <1>9, <1>10, QuietTruth

(* An answer is one to a request that the PLC has.                         *)
LEMMA PeerTruth ==
    ASSUME Third, Fourth, NEW s \in Sockets, Answer(s) \/ HangUp(s)
    PROVE  Truth'
  <1> USE DEF Third, Second
  <1>1. /\ OnWire(s) /\ UNCHANGED <<admission, client, me, received, late, requests>>
        /\ wire'[s].flight = wire[s].flight
    BY AnswerFacts, HangUpFacts DEF First, peer, ReplyComes
  <1>2. /\ repeats' \in Nat /\ repeats' >= repeats
        /\ \A r \in wire'[s].pending : Got(r)
        /\ \A i \in DOMAIN wire'[s].inbox : Got(wire'[s].inbox[i].req)
    <2>1. CASE Answer(s)
      <3>1. PICK r \in 1..MaxRequests, kind \in Kinds, repeat \in {0, 1} :
              ReplyComes(s, r, kind, repeat)
        BY <2>1, AnswerFacts DEF First
      <3>2. PICK reply : reply = [req |-> r, kind |-> kind, since |-> wire[s].checked,
                                  whole |-> TRUE]
        OBVIOUS
      <3>3. wire[s] \in Links /\ r \in Nat /\ repeats \in Nat
        BY ClientAssumption DEF First, Typed
      <3>4. reply \in Answers /\ reply.req = r
        BY <3>2, <3>3 DEF Answers, Links
      <3>5. PICK lines \in Seq(Answers) : lines = wire[s].inbox
        BY <3>3 DEF Links
      <3>6. PICK more : more = Append(lines, reply)
        OBVIOUS
      <3>7. wire'[s].inbox = more
        BY <3>1, <3>2, <3>5, <3>6 DEF ReplyComes
      <3>8. \A i \in DOMAIN more :
              more[i] = reply \/ (i \in DOMAIN lines /\ more[i] = lines[i])
        BY <3>4, <3>5, <3>6, AppendElements
      <3>9. /\ \A p \in wire[s].pending : Got(p)
            /\ \A i \in DOMAIN lines : Got(lines[i].req)
        BY <3>5 DEF Fourth, Truth, AnswersWereAsked
      <3>10. /\ r \in wire[s].pending /\ wire'[s].pending \subseteq wire[s].pending
             /\ repeats' = repeats + repeat
        BY <3>1 DEF ReplyComes
      <3>11. Got(r)
        BY <3>9, <3>10
      <3>12. \A i \in DOMAIN wire'[s].inbox : Got(wire'[s].inbox[i].req)
        BY <3>4, <3>7, <3>8, <3>9, <3>11
      <3>13. QED
        BY <3>3, <3>9, <3>10, <3>12
    <2>2. CASE HangUp(s)
      BY <2>2, HangUpFacts DEF First, Typed, peer, Fourth, Truth, AnswersWereAsked
    <2>3. QED
      BY <2>1, <2>2
  <1>3. AnswersWereAsked'
    <2>1. \A r : Got(r) => Got(r)'
      BY <1>1 DEF Got
    <2>2. ASSUME NEW u \in Sockets
          PROVE  /\ \A r \in wire'[u].pending : Got(r)'
                 /\ \A i \in DOMAIN wire'[u].inbox : Got(wire[u].inbox[i].req)'
      <3>1. /\ \A r \in wire'[u].pending : Got(r)
            /\ \A i \in DOMAIN wire'[u].inbox : Got(wire'[u].inbox[i].req)
        BY <1>1, <1>2 DEF OnWire, Fourth, Truth, AnswersWereAsked
      <3>2. QED
        BY <1>1, <2>1, <3>1 DEF Got
    <2>3. ASSUME NEW u \in Threads, Holding(u)' PROVE Got(me[u].got.req)'
      BY <1>1, <2>3 DEF Holding, Got, Fourth, Truth, AnswersWereAsked
    <2>4. \A r \in late' : Got(r)'
      BY <1>1, <2>1 DEF Fourth, Truth, AnswersWereAsked
    <2>5. QED
      BY <2>2, <2>3, <2>4 DEF AnswersWereAsked
  <1>4. /\ SameNumbers /\ \A u \in Threads : Unsent(u)' => Unsent(u)
        /\ \A u \in Threads : me'[u] = me[u] /\ me'[u].op = me[u].op
    BY <1>1 DEF SameNumbers, Unsent
  <1>5. /\ queue' = queue
        /\ \A u \in Threads : Adm!HasTurn(u)' => Adm!HasTurn(u)
    BY <1>1 DEF admission, Adm!HasTurn
  <1>6. SameRequests
    <2>1. \A u \in Sockets : wire'[u].flight = wire[u].flight
      BY <1>1 DEF OnWire
    <2>2. QED
      BY <1>1, <2>1 DEF SameRequests, Got, Sent
  <1>7. QED
    BY <1>1, <1>2, <1>3, <1>4, <1>5, <1>6, QuietTruth

(* A request that arrives is one the PLC may get, and leaves the others as *)
(* they are.                                                               *)
LEMMA ComingFacts ==
    ASSUME Typed, NEW s \in Sockets, NEW r, OnWire(s), RequestComes(s, r)
    PROVE  /\ \A q : Got(q)' <=> Got(q) \/ q = r
           /\ Sent(r) /\ \A q : Sent(q)' <=> Sent(q)
           /\ \A q : q \in late' => q \in late \/ (q = r /\ ~Awaited(r))
           /\ late \subseteq late' /\ (Awaited(r) => late' = late)
           /\ \A k \in DOMAIN received' :
                \/ k \in DOMAIN received /\ received'[k] = received[k]
                \/ k = Len(received) + 1 /\ received'[k] = r
           /\ DOMAIN received = 1..Len(received) /\ Len(received) \in Nat
           /\ \A k \in DOMAIN received :
                k \in DOMAIN received' /\ received'[k] = received[k]
           /\ r \in wire[s].flight /\ r \in 1..MaxRequests
  <1>1. /\ r \in wire[s].flight /\ received' = Append(received, r)
        /\ late' = IF Awaited(r) THEN late ELSE late \cup {r}
        /\ wire'[s].flight = wire[s].flight \ {r}
        /\ \A u \in Sockets \ {s} : wire'[u] = wire[u]
    BY DEF RequestComes, OnWire
  <1>2. r \in 1..MaxRequests
    BY <1>1 DEF Typed, Links
  <1>3. PICK S : S = 1..MaxRequests
    OBVIOUS
  <1>4. PICK q \in Seq(S) : q = received
    BY <1>3 DEF Typed
  <1>5. /\ DOMAIN q = 1..Len(q) /\ Len(q) \in Nat
        /\ DOMAIN Append(q, r) = 1..(Len(q) + 1)
        /\ Append(q, r)[Len(q) + 1] = r
        /\ \A k \in 1..Len(q) : Append(q, r)[k] = q[k]
    BY <1>2, <1>3, <1>4
  <1>6. /\ \A k \in DOMAIN received' :
             \/ k \in DOMAIN received /\ received'[k] = received[k]
             \/ k = Len(received) + 1 /\ received'[k] = r
        /\ DOMAIN received = 1..Len(received) /\ Len(received) \in Nat
        /\ \A k \in DOMAIN received :
             k \in DOMAIN received' /\ received'[k] = received[k]
        /\ Len(received) + 1 \in DOMAIN received' /\ received'[Len(received) + 1] = r
    BY <1>1, <1>4, <1>5
  <1>7. \A n : Got(n)' <=> Got(n) \/ n = r
    BY <1>6 DEF Got
  <1>8. Sent(r) /\ \A n : Sent(n)' <=> Sent(n)
    <2>1. Sent(r)
      BY <1>1 DEF Sent
    <2>2. ASSUME NEW n, Sent(n)' PROVE Sent(n)
      <3>1. CASE Got(n)'
        BY <1>7, <2>1, <3>1 DEF Sent
      <3>2. CASE \E u \in Sockets : n \in wire'[u].flight
        BY <1>1, <3>2 DEF Sent
      <3>3. QED
        BY <2>2, <3>1, <3>2 DEF Sent
    <2>3. ASSUME NEW n, Sent(n) PROVE Sent(n)'
      <3>1. CASE Got(n) \/ n = r
        BY <1>7, <3>1 DEF Sent
      <3>2. CASE n # r /\ \E u \in Sockets : n \in wire[u].flight
        <4>1. PICK u \in Sockets : n \in wire[u].flight
          BY <3>2
        <4>2. n \in wire'[u].flight
          BY <1>1, <3>2, <4>1
        <4>3. QED
          BY <4>2 DEF Sent
      <3>3. QED
        BY <2>3, <3>1, <3>2 DEF Sent
    <2>4. QED
      BY <2>1, <2>2, <2>3
  <1>9. QED
    BY <1>1, <1>2, <1>6, <1>7, <1>8

(* What is known of the requests stays true as one of them arrives.        *)
LEMMA ArriveTruth ==
    ASSUME Third, Fourth, NEW s \in Sockets, Arrive(s) PROVE Truth'
  <1> USE DEF Third, Second
  <1>1. OnWire(s) /\ UNCHANGED <<admission, client, me, requests, repeats>>
    BY ArriveFacts DEF First
  <1>2. PICK r \in 1..MaxRequests : RequestComes(s, r)
    BY ArriveFacts DEF First
  <1>3. /\ \A q : Got(q)' <=> Got(q) \/ q = r
        /\ \A q : Sent(q)' <=> Sent(q)
        /\ \A q : q \in late' => q \in late \/ q = r
    BY <1>1, <1>2, ComingFacts DEF First
  <1>4. r \in wire[s].flight
    BY <1>2 DEF RequestComes
  <1>5. /\ SameNumbers /\ repeats' \in Nat /\ repeats' >= repeats /\ queue' = queue
        /\ \A u \in Threads : Unsent(u)' => Unsent(u)
        /\ \A u \in Threads : Adm!HasTurn(u)' => Adm!HasTurn(u)
    BY <1>1 DEF SameNumbers, Unsent, admission, Adm!HasTurn, First, Typed
  <1>6. AnswersWereAsked'
    <2>1. ASSUME NEW u \in Sockets
          PROVE  /\ \A q \in wire'[u].pending : Got(q)'
                 /\ \A i \in DOMAIN wire'[u].inbox : Got(wire[u].inbox[i].req)'
      <3>1. /\ \A q \in wire[u].pending : Got(q)
            /\ \A i \in DOMAIN wire[u].inbox : Got(wire[u].inbox[i].req)
        BY DEF Fourth, Truth, AnswersWereAsked
      <3>2. /\ wire'[u].inbox = wire[u].inbox
            /\ wire'[u].pending \subseteq wire[u].pending \cup {r}
        BY <1>1, <1>2 DEF OnWire, RequestComes
      <3>3. \A q \in wire'[u].pending : Got(q)'
        BY <1>3, <3>1, <3>2
      <3>4. ASSUME NEW i \in DOMAIN wire'[u].inbox PROVE Got(wire[u].inbox[i].req)'
        <4>1. PICK q : q = wire[u].inbox[i].req
          OBVIOUS
        <4>2. Got(q)
          BY <3>1, <3>2, <3>4, <4>1
        <4>3. Got(q)' /\ wire'[u].inbox[i].req = q
          BY <1>3, <3>2, <4>1, <4>2
        <4>4. QED
          BY <4>3 DEF Got
      <3>5. QED
        BY <3>3, <3>4
    <2>2. ASSUME NEW u \in Threads, Holding(u)' PROVE Got(me[u].got.req)'
      <3>1. PICK q : q = me[u].got.req
        OBVIOUS
      <3>2. Got(q)
        BY <1>1, <2>2, <3>1 DEF Fourth, Truth, AnswersWereAsked, Holding
      <3>3. Got(q)' /\ me'[u].got.req = q
        BY <1>1, <1>3, <3>1, <3>2
      <3>4. QED
        BY <3>3 DEF Got
    <2>3. \A q \in late' : Got(q)'
      BY <1>3 DEF Fourth, Truth, AnswersWereAsked
    <2>4. QED
      BY <2>1, <2>2, <2>3 DEF AnswersWereAsked
  <1>7. Ordered'
    BY <1>1, <1>3, <1>5, OrderedStays DEF Fourth, Truth
  <1>8. ASSUME NEW u \in Threads, me'[u].alters # 0
        PROVE  /\ Unsent(u)' \/ ~Changing(u)' => ~Sent(me[u].alters)'
               /\ repeats' = 0 /\ me'[u].op = "bit" /\ Changing(u)' =>
                    Got(me[u].alters - 1)'
    <2>1. me'[u] = me[u] /\ me[u].alters # 0 /\ (Unsent(u)' => Unsent(u))
      BY <1>1, <1>8 DEF Unsent
    <2>2. PICK a, b : a = me[u].alters /\ b = me[u].alters - 1
      OBVIOUS
    <2>3. /\ Unsent(u)' \/ ~Changing(u)' => ~Sent(a)'
          /\ repeats' = 0 /\ me'[u].op = "bit" /\ Changing(u)' => Got(b)'
      BY <1>1, <1>3, <2>1, <2>2 DEF Fourth, Truth, Updates, Changing
    <2>4. me'[u].alters = a /\ me'[u].alters - 1 = b
      BY <2>1, <2>2
    <2>5. QED
      BY <2>3, <2>4 DEF Got, Sent
  <1>9. Updates'
    BY <1>8 DEF Updates
  <1>10. repeats = 0 => ~Got(r)
    BY <1>4 DEF Fourth, InFlight
  <1>11. ASSUME NEW u \in Threads PROVE Told(u)'
    <2>1. Told(u) /\ me'[u] = me[u]
      BY <1>1, ToldIsTrue DEF Fourth, Truth
    <2>2. /\ \A q : Got(q) => Got(q)'
          /\ \A q : repeats = 0 /\ Got(q) /\ q \notin late => q \notin late'
          /\ \A q : ~Sent(q) => ~Sent(q)'
      BY <1>3, <1>10
    <2>3. QED
      BY <1>5, <2>1, <2>2, ToldStays DEF First
  <1>12. OutcomeIsTrue'
    BY <1>11 DEF OutcomeIsTrue, Told
  <1>13. QED
    BY <1>6, <1>7, <1>9, <1>12 DEF Truth
-----------------------------------------------------------------------------
(* What is under way, and what comes late.  A call that was in the turn,   *)
(* or in the queue, or has numbers that the PLC has not got, has nothing   *)
(* late to answer for.                                                     *)
Blameless(u) ==
    \/ me'[u] = me[u]
    \/ /\ me[u].at # "idle"
       /\ me'[u].op = me[u].op /\ me'[u].alters = me[u].alters
       /\ Flying(u)' => Flying(u) /\ me'[u].req = me[u].req
    \/ \A a : a = me'[u].alters => ~Got(a) /\ ~Flying(u)'

(* Nothing is sent and nothing arrives.                                    *)
LEMMA QuietInFlight ==
    ASSUME First, AnswersWereAsked, InFlight, UNCHANGED <<received, late>>,
           \A s \in Sockets : wire'[s].flight = wire[s].flight,
           repeats' >= repeats, repeats' \in Nat,
           \A u \in Threads : Blameless(u)
    PROVE  InFlight'
  <1> SUFFICES ASSUME repeats' = 0
               PROVE  (/\ \A s \in Sockets : \A r \in wire[s].flight :
                            ~Got(r) /\ \A u \in Sockets : r \in wire[u].flight => u = s
                       /\ \A i, j \in DOMAIN received :
                            i < j => received[i] < received[j] \/ received[j] \in late
                       /\ \A i, j \in DOMAIN received : i # j => received[i] # received[j]
                       /\ \A t \in Threads :
                            /\ me[t].op = "bit" => ReadBefore(me[t].alters)
                            /\ me[t].alters \in late => LateIsUnknown(t)
                            /\ Flying(t) => me[t].req \notin late)'
    BY DEF InFlight
  <1>1. repeats = 0
    BY DEF First, Typed
  <1>2. \A r : Got(r)' <=> Got(r)
    BY DEF Got
  <1>3. \A s \in Sockets : \A r \in wire'[s].flight :
          ~Got(r)' /\ \A u \in Sockets : r \in wire'[u].flight => u = s
    BY <1>1, <1>2 DEF InFlight
  <1>4. /\ \A i, j \in DOMAIN received' :
             i < j => received'[i] < received'[j] \/ received'[j] \in late'
        /\ \A i, j \in DOMAIN received' : i # j => received'[i] # received'[j]
    BY <1>1 DEF InFlight
  <1>5. ASSUME NEW t \in Threads
        PROVE  /\ me'[t].op = "bit" => ReadBefore(me[t].alters)'
               /\ me'[t].alters \in late' => LateIsUnknown(t)'
               /\ Flying(t)' => me'[t].req \notin late'
    <2>1. /\ me[t].op = "bit" => ReadBefore(me[t].alters)
          /\ me[t].alters \in late => LateIsUnknown(t)
          /\ Flying(t) => me[t].req \notin late
      BY <1>1 DEF InFlight
    <2>2. CASE me'[t] = me[t]
      BY <2>1, <2>2 DEF ReadBefore, LateIsUnknown, At, Flying, Holding
    <2>3. CASE /\ me[t].at # "idle"
               /\ me'[t].op = me[t].op /\ me'[t].alters = me[t].alters
               /\ Flying(t)' => Flying(t) /\ me'[t].req = me[t].req
      <3>1. me'[t].alters \notin late'
        BY <2>1, <2>3 DEF LateIsUnknown, At
      <3>2. QED
        BY <2>1, <2>3, <3>1 DEF ReadBefore
    <2>4. CASE \A a : a = me'[t].alters => ~Got(a) /\ ~Flying(t)'
      <3>1. PICK a : a = me'[t].alters
        OBVIOUS
      <3>2. ~Got(a) /\ ~Flying(t)'
        BY <2>4, <3>1
      <3>3. a \notin late'
        BY <3>2 DEF AnswersWereAsked
      <3>4. \A j \in DOMAIN received' : received'[j] # a
        BY <3>2 DEF Got
      <3>5. QED
        BY <3>1, <3>2, <3>3, <3>4 DEF ReadBefore
    <2>5. QED
      BY <2>2, <2>3, <2>4 DEF Blameless
  <1>6. QED
    BY <1>3, <1>4, <1>5 DEF Got

(* A request is sent: it is the only one of its number.                    *)
LEMMA SendsInFlight ==
    ASSUME Third, Fourth, NEW t \in Threads, Sends(t) PROVE InFlight'
  <1> USE DEF Third, Second
  <1>1. InTurn(t) /\ First /\ Keeps(t) /\ Owns(t)
    <2>1. Going(t)
      BY DEF Going
    <2>2. QED
      BY <2>1, MovesUntaken, AnsweredOne DEF Untaken
  <1> SUFFICES ASSUME repeats' = 0
               PROVE  (/\ \A s \in Sockets : \A r \in wire[s].flight :
                            ~Got(r) /\ \A u \in Sockets : r \in wire[u].flight => u = s
                       /\ \A i, j \in DOMAIN received :
                            i < j => received[i] < received[j] \/ received[j] \in late
                       /\ \A i, j \in DOMAIN received : i # j => received[i] # received[j]
                       /\ \A u \in Threads :
                            /\ me[u].op = "bit" => ReadBefore(me[u].alters)
                            /\ me[u].alters \in late => LateIsUnknown(u)
                            /\ Flying(u) => me[u].req \notin late)'
    BY DEF InFlight
  <1>2. /\ UNCHANGED <<received, late, repeats>>
        /\ \A u \in Threads \ {t} : me'[u] = me[u]
        /\ me'[t].req = me[t].req /\ me'[t].alters = me[t].alters /\ me'[t].op = me[t].op
        /\ me[t].at = "x_send" /\ me'[t].at = "x_receive"
    BY <1>1 DEF Sends, GoesOn, Keeps
  <1>3. PICK q : q = me[t].req
    OBVIOUS
  <1>4. /\ \A r : Got(r)' <=> Got(r)
        /\ \A s \in Sockets :
             \/ wire'[s].flight = wire[s].flight
             \/ s = me[t].mine /\ wire'[s].flight = wire[s].flight \cup {q}
        /\ ~Sent(me[t].req)
    BY <1>1, <1>3, SentFacts DEF Fourth, Truth
  <1>5. ~Sent(q)
    BY <1>3, <1>4 DEF Sent, Got
  <1>6. ~Got(q) /\ q \notin late /\ \A s \in Sockets : q \notin wire[s].flight
    BY <1>5 DEF Sent, Fourth, Truth, AnswersWereAsked
  <1>7. \A s \in Sockets : \A r \in wire'[s].flight :
          ~Got(r)' /\ \A u \in Sockets : r \in wire'[u].flight => u = s
    <2>1. \A s \in Sockets : \A r \in wire[s].flight :
            ~Got(r) /\ \A u \in Sockets : r \in wire[u].flight => u = s
      BY <1>2 DEF Fourth, InFlight
    <2>2. ASSUME NEW s \in Sockets, NEW r \in wire'[s].flight
          PROVE  ~Got(r)' /\ \A u \in Sockets : r \in wire'[u].flight => u = s
      <3>1. CASE r = q
        <4>1. \A u \in Sockets : q \in wire'[u].flight => u = me[t].mine
          BY <1>4, <1>6
        <4>2. QED
          BY <1>4, <1>6, <2>2, <3>1, <4>1
      <3>2. CASE r # q
        <4>1. \A u \in Sockets : r \in wire'[u].flight => r \in wire[u].flight
          BY <1>4, <3>2
        <4>2. QED
          BY <1>4, <2>1, <2>2, <4>1
      <3>3. QED
        BY <3>1, <3>2
    <2>3. QED
      BY <2>2
  <1>8. /\ \A i, j \in DOMAIN received' :
             i < j => received'[i] < received'[j] \/ received'[j] \in late'
        /\ \A i, j \in DOMAIN received' : i # j => received'[i] # received'[j]
    BY <1>2 DEF Fourth, InFlight
  <1>9. ASSUME NEW u \in Threads
        PROVE  /\ me'[u].op = "bit" => ReadBefore(me[u].alters)'
               /\ me'[u].alters \in late' => LateIsUnknown(u)'
               /\ Flying(u)' => me'[u].req \notin late'
    <2>1. /\ me[u].op = "bit" => ReadBefore(me[u].alters)
          /\ me[u].alters \in late => LateIsUnknown(u)
          /\ Flying(u) => me[u].req \notin late
      BY <1>2 DEF Fourth, InFlight
    <2>2. CASE u # t
      BY <1>2, <2>1, <2>2 DEF ReadBefore, LateIsUnknown, At, Flying, Holding
    <2>3. CASE u = t
      <3>1. me[t].alters \notin late
        BY <1>2, <2>1, <2>3 DEF LateIsUnknown, At
      <3>2. QED
        BY <1>2, <1>3, <1>6, <2>1, <2>3, <3>1 DEF ReadBefore
    <2>4. QED
      BY <2>2, <2>3
  <1>10. QED
    BY <1>7, <1>8, <1>9 DEF Got

(* A request arrives that nobody waits for: its call ended without knowing *)
(* what became of it, or has not got so far.                               *)
LEMMA UnawaitedFacts ==
    ASSUME Third, Fourth, repeats = 0, NEW r, Sent(r), ~Got(r), ~Awaited(r),
           NEW t \in Threads
    PROVE  /\ me[t].req = r => ~Flying(t)
           /\ me[t].alters = r /\ r # 0 => LateIsUnknown(t)
  <1> USE DEF Third, Second
  <1>1. First /\ AnswerIsOwn(t) /\ CallIsExact(t)
    BY DEF First, Responses, Control
  <1>2. ASSUME me[t].req = r PROVE ~Flying(t)
    <2>1. me[t].at # "x_receive"
      BY <1>2 DEF Awaited, At
    <2>2. ASSUME Holding(t) PROVE FALSE
      <3>1. me[t].got.req = r
        BY <1>1, <1>2, <2>2 DEF AnswerIsOwn
      <3>2. Got(me[t].got.req)
        BY <2>2 DEF Fourth, Truth, AnswersWereAsked
      <3>3. QED
        BY <3>1, <3>2
    <2>3. QED
      BY <2>1, <2>2 DEF Flying
  <1>3. ASSUME me[t].alters = r, r # 0 PROVE LateIsUnknown(t)
    <2>1. Sent(me[t].alters) /\ ~Got(me[t].alters)
      BY <1>3 DEF Sent, Got
    <2>2. ~Unsent(t) /\ Changing(t)
      BY <1>3, <2>1 DEF Fourth, Truth, Updates
    <2>3. me[t].req = r /\ ~Flying(t)
      BY <1>2, <1>3, <2>2 DEF Changing
    <2>4. me[t].op \notin {"connect", "close", "none"} /\ me[t].at \in Labels
      BY <1>1, <1>3, NumberFacts DEF First, Typed, Calls
    <2>5. me[t].at = "idle"
      BY <1>1, <2>2, <2>3, <2>4
         DEF CallIsExact, Closing, Connecting, Trying, Unsent, Flying, Holding, Labels
    <2>6. Told(t)
      BY ToldIsTrue DEF Fourth, Truth
    <2>7. me[t].outcome \in {"unknown", "ValueError", "IndexError"}
      BY <1>3, <2>1, <2>3, <2>5, <2>6 DEF Told, At
    <2>8. QED
      BY <2>5, <2>7 DEF LateIsUnknown, At
  <1>4. QED
    BY <1>2, <1>3

(* A request arrives, in its turn or late.                                 *)
LEMMA ArriveInFlight ==
    ASSUME Third, Fourth, NEW s \in Sockets, Arrive(s) PROVE InFlight'
  <1> USE DEF Third, Second
  <1> SUFFICES ASSUME repeats' = 0
               PROVE  (/\ \A u \in Sockets : \A r \in wire[u].flight :
                            ~Got(r) /\ \A v \in Sockets : r \in wire[v].flight => v = u
                       /\ \A i, j \in DOMAIN received :
                            i < j => received[i] < received[j] \/ received[j] \in late
                       /\ \A i, j \in DOMAIN received : i # j => received[i] # received[j]
                       /\ \A t \in Threads :
                            /\ me[t].op = "bit" => ReadBefore(me[t].alters)
                            /\ me[t].alters \in late => LateIsUnknown(t)
                            /\ Flying(t) => me[t].req \notin late)'
    BY DEF InFlight
  <1>1. OnWire(s) /\ UNCHANGED <<admission, client, me, requests, repeats>>
    BY ArriveFacts DEF First
  <1>2. PICK r \in 1..MaxRequests : RequestComes(s, r)
    BY ArriveFacts DEF First
  <1>3. /\ \A q : Got(q)' <=> Got(q) \/ q = r
        /\ Sent(r) /\ \A q : q \in late' => q \in late \/ (q = r /\ ~Awaited(r))
        /\ late \subseteq late'
        /\ \A k \in DOMAIN received' :
             \/ k \in DOMAIN received /\ received'[k] = received[k]
             \/ k = Len(received) + 1 /\ received'[k] = r
        /\ DOMAIN received = 1..Len(received) /\ Len(received) \in Nat
        /\ \A k \in DOMAIN received :
             k \in DOMAIN received' /\ received'[k] = received[k]
    BY <1>1, <1>2, ComingFacts DEF First
  <1>4. /\ r \in wire[s].flight
        /\ late' = IF Awaited(r) THEN late ELSE late \cup {r}
        /\ wire'[s].flight = wire[s].flight \ {r}
        /\ \A u \in Sockets \ {s} : wire'[u] = wire[u]
    BY <1>1, <1>2 DEF RequestComes, OnWire
  <1>5. repeats = 0 /\ me' = me /\ r \in Nat /\ r # 0
    BY <1>1, ClientAssumption
  <1>6. /\ \A u \in Sockets : \A q \in wire[u].flight :
             ~Got(q) /\ \A v \in Sockets : q \in wire[v].flight => v = u
        /\ \A i, j \in DOMAIN received :
             i < j => received[i] < received[j] \/ received[j] \in late
        /\ \A i, j \in DOMAIN received : i # j => received[i] # received[j]
    BY <1>5 DEF Fourth, InFlight
  <1>7. ~Got(r)
    BY <1>4, <1>6
  <1>8. ASSUME NEW u \in Sockets, NEW q \in wire'[u].flight
        PROVE  ~Got(q)' /\ \A v \in Sockets : q \in wire'[v].flight => v = u
    <2>1. q \in wire[u].flight /\ \A v \in Sockets : q \in wire'[v].flight => q \in wire[v].flight
      BY <1>4, <1>8
    <2>2. q # r
      BY <1>4, <1>6, <1>8, <2>1
    <2>3. QED
      BY <1>3, <1>6, <2>1, <2>2
  <1>9. \A k \in DOMAIN received : received[k] # r
    BY <1>7 DEF Got
  <1>10. ASSUME NEW i \in DOMAIN received', NEW j \in DOMAIN received', i < j
         PROVE  received'[i] < received'[j] \/ received'[j] \in late'
    <2>1. CASE j \in DOMAIN received /\ received'[j] = received[j]
      <3>1. i \in DOMAIN received /\ received'[i] = received[i]
        BY <1>3, <1>10, <2>1
      <3>2. QED
        BY <1>3, <1>6, <1>10, <2>1, <3>1
    <2>2. CASE j = Len(received) + 1 /\ received'[j] = r
      <3>1. i \in DOMAIN received /\ received'[i] = received[i]
        BY <1>3, <1>10, <2>2
      <3>2. CASE Awaited(r)
        <4>1. PICK t \in Threads : me[t].at = "x_receive" /\ me[t].req = r
          BY <3>2 DEF Awaited, At
        <4>2. InLine(t)
          BY <4>1, InTurnHolds DEF InTurn, Closing
        <4>3. received[i] \in Nat /\ Sent(received[i])
          BY <3>1, ReceivedFacts DEF First, Sent, Got
        <4>4. received[i] <= r
          BY <1>5, <4>1, <4>2, <4>3 DEF Fourth, Truth, Ordered
        <4>5. received[i] # r
          BY <1>9, <3>1
        <4>6. received[i] < r
          BY <1>5, <4>3, <4>4, <4>5
        <4>7. QED
          BY <2>2, <3>1, <4>6
      <3>3. CASE ~Awaited(r)
        BY <1>4, <2>2, <3>3
      <3>4. QED
        BY <3>2, <3>3
    <2>3. QED
      BY <1>3, <2>1, <2>2
  <1>11. ASSUME NEW i \in DOMAIN received', NEW j \in DOMAIN received', i # j
         PROVE  received'[i] # received'[j]
    BY <1>3, <1>6, <1>9, <1>11
  <1>12. ASSUME NEW t \in Threads
         PROVE  /\ me'[t].op = "bit" => ReadBefore(me[t].alters)'
                /\ me'[t].alters \in late' => LateIsUnknown(t)'
                /\ Flying(t)' => me'[t].req \notin late'
    <2>1. /\ me[t].op = "bit" => ReadBefore(me[t].alters)
          /\ me[t].alters \in late => LateIsUnknown(t)
          /\ Flying(t) => me[t].req \notin late
      BY <1>5 DEF Fourth, InFlight
    <2>2. ASSUME ~Awaited(r)
          PROVE  /\ me[t].req = r => ~Flying(t)
                 /\ me[t].alters = r => LateIsUnknown(t)
      BY <1>3, <1>5, <1>7, <2>2, UnawaitedFacts
    <2>3. /\ me[t].alters \in late' => LateIsUnknown(t)
          /\ Flying(t) => me[t].req \notin late'
      BY <1>3, <2>1, <2>2
    <2>4. PICK a : a = me[t].alters
      OBVIOUS
    <2>5. ASSUME me[t].op = "bit", NEW j \in DOMAIN received', received'[j] = a
          PROVE  \E i \in 1..(j - 1) : received'[i] = a - 1
      <3>1. CASE j \in DOMAIN received /\ received'[j] = received[j]
        <4>1. PICK i \in 1..(j - 1) : received[i] = a - 1
          BY <2>1, <2>4, <2>5, <3>1 DEF ReadBefore
        <4>2. i \in DOMAIN received
          BY <1>3, <3>1, <4>1
        <4>3. QED
          BY <1>3, <4>1, <4>2
      <3>2. CASE j = Len(received) + 1 /\ received'[j] = r
        <4>1. Sent(me[t].alters) /\ me[t].alters # 0
          BY <1>3, <1>5, <2>4, <2>5, <3>2 DEF Sent, Got
        <4>2. Changing(t)
          BY <4>1 DEF Fourth, Truth, Updates
        <4>3. Got(me[t].alters - 1)
          BY <1>5, <2>5, <4>1, <4>2 DEF Fourth, Truth, Updates
        <4>4. PICK i \in DOMAIN received : received[i] = a - 1
          BY <2>4, <4>3 DEF Got
        <4>5. i \in 1..(j - 1) /\ received'[i] = a - 1
          BY <1>3, <3>2, <4>4
        <4>6. QED
          BY <4>5
      <3>3. QED
        BY <1>3, <3>1, <3>2
    <2>6. me'[t].alters = a /\ me'[t].op = me[t].op
      BY <1>5, <2>4
    <2>7. me'[t].op = "bit" => ReadBefore(me[t].alters)'
      BY <2>5, <2>6 DEF ReadBefore
    <2>8. QED
      BY <1>5, <2>3, <2>7 DEF LateIsUnknown, At, Flying, Holding
  <1>13. QED
    BY <1>8, <1>10, <1>11, <1>12 DEF Got

(* A PLC that got nothing was asked nothing.                               *)
LEMMA InitFourth == Init => Fourth
  <1>1. ASSUME Init PROVE Fourth
    <2>1. /\ Idle.at = "idle" /\ Idle.req = 0 /\ Idle.alters = 0
          /\ Idle.outcome = "none" /\ Idle.got = NoReply
      BY DEF Idle
    <2>2. /\ \A t \in Threads : me[t] = Idle
          /\ \A s \in Sockets : wire[s] = Fresh
          /\ received = <<>> /\ late = {} /\ queue = <<>>
      BY <1>1 DEF Init, Adm!Init
    <2>3. AnswersWereAsked
      <3>1. \A s \in Sockets : wire[s].inbox = <<>> /\ wire[s].pending = {}
        BY <2>2, FreshFacts
      <3>2. \A r : r \notin late
        BY <2>2
      <3>3. \A t \in Threads : ~Holding(t)
        BY <2>1, <2>2 DEF Holding
      <3>4. QED
        BY <3>1, <3>2, <3>3 DEF AnswersWereAsked
    <2>4. \A s \in Sockets : wire[s].flight = {}
      BY <2>2, FreshFacts
    <2>5. \A r : ~Sent(r) /\ ~Got(r)
      BY <2>2, <2>4 DEF Sent, Got
    <2>6. Ordered
      BY <2>1, <2>2, <2>5 DEF Ordered, Before
    <2>7. Updates
      BY <2>1, <2>2 DEF Updates
    <2>8. OutcomeIsTrue
      BY <2>1, <2>2 DEF OutcomeIsTrue
    <2>9. InFlight
      BY <2>1, <2>2, <2>4 DEF InFlight, ReadBefore, Flying, Holding
    <2>10. QED
      BY <2>3, <2>6, <2>7, <2>8, <2>9 DEF Fourth, Truth
  <1>2. QED
    BY <1>1

(* A step that changes nothing keeps the fourth layer.                     *)
LEMMA StutterFourth ==
    ASSUME Third, Fourth, UNCHANGED vars PROVE Fourth'
  <1>1. /\ UNCHANGED <<client, me, wire, received, late, requests, repeats>>
        /\ UNCHANGED <<queue, pc, event>>
    BY DEF vars, admission, peer
  <1>2. \A s \in Sockets : Silent(s)
    BY <1>1 DEF Silent
  <1>3. AnswersWereAsked'
    BY <1>1, <1>2, AsksStay DEF Fourth, Truth, Holding
  <1>4. /\ SameNumbers /\ repeats' \in Nat /\ repeats' >= repeats
        /\ \A u \in Threads : Unsent(u)' => Unsent(u)
        /\ \A u \in Threads : Adm!HasTurn(u)' => Adm!HasTurn(u)
    BY <1>1 DEF SameNumbers, Unsent, Adm!HasTurn, Third, Second, First, Typed
  <1>5. SameRequests
    BY <1>1, <1>2, RequestsStay
  <1>6. Truth'
    BY <1>1, <1>3, <1>4, <1>5, QuietTruth
  <1>7. InFlight'
    <2>1. \A u \in Threads : Blameless(u)
      BY <1>1 DEF Blameless
    <2>2. QED
      BY <1>1, <1>4, <2>1, QuietInFlight DEF Third, Second, Fourth, Truth
  <1>8. QED
    BY <1>6, <1>7 DEF Fourth

(* A call that ends, or goes on without a send, has nothing late to answer *)
(* for.                                                                    *)
LEMMA TurnInFlight ==
    ASSUME Third, Fourth, NEW t \in Threads,
           Ending(t) \/ (Going(t) /\ ~Sends(t)) PROVE InFlight'
  <1> USE DEF Third, Second
  <1>1. InTurn(t) /\ First /\ Keeps(t) /\ Owns(t) /\ AnswerIsOwn(t)
    BY MovesUntaken, AnsweredOne DEF Untaken
  <1>2. /\ UNCHANGED <<received, late, repeats>>
        /\ \A s \in Sockets : wire'[s].flight = wire[s].flight
        /\ Flying(t)' => Flying(t) /\ me'[t].req = me[t].req
    <2>1. CASE Ending(t)
      <3>1. PICK outcome \in Outcomes \ {"none"}, sent \in BOOLEAN :
              Ends(t, outcome, sent)
        BY <1>1, <2>1, EndingFacts DEF First
      <3>2. \A s \in Sockets : Silent(s)
        BY <1>1, <2>1, EndingSilent DEF First
      <3>3. QED
        BY <3>1, <3>2 DEF Ends, Silent, Flying, Holding
    <2>2. CASE WritesBack(t)
      BY <2>2 DEF WritesBack, Flying, Holding
    <2>3. CASE Going(t) /\ ~Sends(t) /\ ~WritesBack(t)
      <3>1. Quietly(t)
        BY <1>1, <2>3, GoingQuietly
      <3>2. repeats' = repeats
        BY <1>1, <2>3, GoingOnward DEF First
      <3>3. QED
        BY <3>1, <3>2 DEF Quietly, Silent
    <2>4. QED
      BY <2>1, <2>2, <2>3
  <1>3. me[t].at # "idle"
    BY <1>1 DEF InTurn
  <1>4. \A u \in Threads : Blameless(u)
    BY <1>1, <1>2, <1>3 DEF Keeps, Blameless
  <1>5. repeats' \in Nat /\ repeats' >= repeats
    BY <1>1, <1>2 DEF First, Typed
  <1>6. QED
    BY <1>1, <1>2, <1>4, <1>5, QuietInFlight DEF Fourth, Truth

(* Nor has a call that is outside of the turn, or begins.                  *)
LEMMA OutsideInFlight ==
    ASSUME Third, Fourth, NEW t \in Threads,
           \/ \E o \in Operations : Begin(t, o)
           \/ Admitted(t) \/ Rejected(t) \/ CloseInvalidate(t)
           \/ CloseClear(t) \/ CloseShutdown(t) \/ CloseSocket(t)
    PROVE  InFlight'
  <1> USE DEF Third, Second
  <1>1. ASSUME NEW o \in Operations, Begin(t, o)
        PROVE  /\ UNCHANGED <<received, late, repeats>>
               /\ \A s \in Sockets : wire'[s].flight = wire[s].flight
               /\ \A u \in Threads : Blameless(u)
    <2>1. /\ Begins(t, o) /\ UNCHANGED <<wire, received, late, repeats>>
          /\ o \in Operations \ {"close"}
          /\ requests' = requests + Cost(o) /\ requests' <= MaxRequests
      BY <1>1, BeginsFacts DEF Begin, First
    <2>2. me'[t].at = "enter" /\ \A u \in Threads \ {t} : me'[u] = me[u]
      BY <2>1 DEF Begins
    <2>3. /\ me'[t].alters # 0 => me'[t].alters > requests
          /\ me'[t].alters \in Nat /\ requests \in Nat
      BY <2>1, NewNumbers DEF First
    <2>4. \A a : a = me'[t].alters => ~Got(a)
      <3>1. ~Got(0) /\ \A r \in Nat : Sent(r) => r <= requests
        BY NothingIsNumberZero DEF First, Fourth, Truth, Ordered
      <3>2. ASSUME NEW a, a = me'[t].alters PROVE ~Got(a)
        <4>1. CASE a = 0
          BY <3>1, <4>1
        <4>2. CASE a # 0
          <5>1. a \in Nat /\ a > requests
            BY <2>3, <3>2, <4>2
          <5>2. ~Sent(a)
            BY <2>3, <3>1, <5>1
          <5>3. QED
            BY <5>2 DEF Sent
        <4>3. QED
          BY <4>1, <4>2
      <3>3. QED
        BY <3>2
    <2>5. Blameless(t)
      BY <2>2, <2>4 DEF Blameless, Flying, Holding
    <2>6. QED
      BY <2>1, <2>2, <2>5 DEF Blameless
  <1>2. ASSUME Admitted(t) \/ Rejected(t)
        PROVE  /\ UNCHANGED <<received, late, repeats>>
               /\ \A s \in Sockets : wire'[s].flight = wire[s].flight
               /\ \A u \in Threads : Blameless(u)
    <2>1. /\ \A u \in Threads \ {t} : me'[u] = me[u]
          /\ me[t].at = "enter" /\ me'[t].at \in {"c_start", "x_start", "idle"}
          /\ me'[t].op = me[t].op /\ me'[t].alters = me[t].alters
      BY <1>2, AdmittedTurns, RejectedTurns DEF Turns, First
    <2>2. UNCHANGED <<wire, received, late, repeats>>
      BY <1>2 DEF Admitted, Rejected, peer
    <2>3. Blameless(t)
      BY <2>1 DEF Blameless, Flying, Holding
    <2>4. QED
      BY <2>1, <2>2, <2>3 DEF Blameless
  <1>3. ASSUME CloseInvalidate(t)
        PROVE  /\ UNCHANGED <<received, late, repeats>>
               /\ \A s \in Sockets : wire'[s].flight = wire[s].flight
               /\ \A u \in Threads : Blameless(u)
    <2>1. /\ \A u \in Threads \ {t} : me'[u] = me[u]
          /\ me'[t].at = "k_clear" /\ me'[t].alters = 0
      BY <1>3, CloseBegins DEF First
    <2>2. UNCHANGED <<wire, received, late, repeats>>
      BY <1>3 DEF CloseInvalidate, peer
    <2>3. Blameless(t)
      BY <2>1, NothingIsNumberZero DEF Blameless, Flying, Holding, First
    <2>4. QED
      BY <2>1, <2>2, <2>3 DEF Blameless
  <1>4. ASSUME CloseClear(t) \/ CloseShutdown(t) \/ CloseSocket(t)
        PROVE  /\ UNCHANGED <<received, late, repeats>>
               /\ \A s \in Sockets : wire'[s].flight = wire[s].flight
               /\ \A u \in Threads : Blameless(u)
    <2>1. \E label \in {"k_shutdown", "k_close", "idle"} : Turns(t, label)
      BY <1>4, CloseClearTurns, CloseShutdownTurns, CloseSocketTurns DEF First
    <2>2. /\ \A u \in Threads \ {t} : me'[u] = me[u]
          /\ me'[t].at \in {"k_shutdown", "k_close", "idle"}
          /\ me'[t].op = me[t].op /\ me'[t].alters = me[t].alters
      BY <2>1 DEF Turns
    <2>3. /\ me[t].at # "idle" /\ UNCHANGED <<received, late, repeats>>
      BY <1>4, CloseClearTurns, CloseShutdownTurns, CloseSocketTurns DEF First, peer
    <2>4. Blameless(t)
      BY <2>2, <2>3 DEF Blameless, Flying, Holding
    <2>5. \A s \in Sockets : wire'[s].flight = wire[s].flight
      <3>1. CASE CloseClear(t)
        BY <3>1 DEF CloseClear
      <3>2. CASE CloseShutdown(t)
        BY <3>2, CloseShutdownTurns DEF First
      <3>3. CASE CloseSocket(t)
        BY <3>3, CloseSocketTurns, ClosedFacts DEF First
      <3>4. QED
        BY <1>4, <3>1, <3>2, <3>3
    <2>6. QED
      BY <2>2, <2>3, <2>4, <2>5 DEF Blameless
  <1>5. /\ UNCHANGED <<received, late, repeats>>
        /\ \A s \in Sockets : wire'[s].flight = wire[s].flight
        /\ \A u \in Threads : Blameless(u)
    BY <1>1, <1>2, <1>3, <1>4
  <1>6. repeats' \in Nat /\ repeats' >= repeats
    BY <1>5 DEF First, Typed
  <1>7. QED
    BY <1>5, <1>6, QuietInFlight DEF Fourth, Truth

(* What the PLC answers brings nothing to it.                              *)
LEMMA AnsweringInFlight ==
    ASSUME Third, Fourth, NEW s \in Sockets, Answer(s) \/ HangUp(s) PROVE InFlight'
  <1> USE DEF Third, Second
  <1>1. /\ OnWire(s) /\ UNCHANGED <<me, received, late>>
        /\ wire'[s].flight = wire[s].flight
        /\ repeats' \in Nat /\ repeats' >= repeats
    <2>1. repeats \in Nat
      BY DEF First, Typed
    <2>2. CASE Answer(s)
      <3>1. /\ OnWire(s) /\ UNCHANGED <<me, received, late>>
            /\ \E r \in 1..MaxRequests, kind \in Kinds, repeat \in {0, 1} :
                 ReplyComes(s, r, kind, repeat)
        BY <2>2, AnswerFacts DEF First
      <3>2. PICK repeat \in {0, 1} : /\ wire'[s].flight = wire[s].flight
                                     /\ repeats' = repeats + repeat
        BY <3>1 DEF ReplyComes
      <3>3. QED
        BY <2>1, <3>1, <3>2
    <2>3. CASE HangUp(s)
      BY <2>1, <2>3, HangUpFacts DEF First, peer
    <2>4. QED
      BY <2>2, <2>3
  <1>2. \A u \in Sockets : wire'[u].flight = wire[u].flight
    BY <1>1 DEF OnWire
  <1>3. \A u \in Threads : Blameless(u)
    BY <1>1 DEF Blameless
  <1>4. QED
    BY <1>1, <1>2, <1>3, QuietInFlight DEF Fourth, Truth

(* Every step leaves true what the calls say of the PLC, and what is under *)
(* way.                                                                    *)
LEMMA StepFourth == Third /\ Fourth /\ [Next]_vars => Fourth'
  <1> SUFFICES ASSUME Third, Fourth, [Next]_vars PROVE Fourth'
    OBVIOUS
  <1>1. ASSUME NEW t \in Threads, Ending(t) \/ Going(t) PROVE Fourth'
    <2>1. Truth'
      BY <1>1, EndingTells, QuietlyTruth, SendsTruth, WritesBackTruth
    <2>2. InFlight'
      BY <1>1, TurnInFlight, SendsInFlight
    <2>3. QED
      BY <2>1, <2>2 DEF Fourth
  <1>2. ASSUME NEW t \in Threads, Proceed(t), ~Ending(t), ~Going(t) PROVE Fourth'
    <2>1. \/ Admitted(t) \/ Rejected(t)
          \/ CloseClear(t) \/ CloseShutdown(t) \/ CloseSocket(t)
      BY <1>2, ProceedMoves DEF Third, Second, First
    <2>2. Truth'
      BY <2>1, TurnsTruth, ClosingTruth
    <2>3. InFlight'
      BY <2>1, OutsideInFlight
    <2>4. QED
      BY <2>2, <2>3 DEF Fourth
  <1>3. CASE \E t \in Threads : CloseInvalidate(t)
    BY <1>3, InvalidateTruth, OutsideInFlight DEF Fourth
  <1>4. CASE \E t \in Threads, o \in Operations : Begin(t, o)
    BY <1>4, BeginTruth, OutsideInFlight DEF Fourth
  <1>5. CASE \E s \in Sockets : Answer(s) \/ HangUp(s)
    BY <1>5, PeerTruth, AnsweringInFlight DEF Fourth
  <1>6. CASE \E s \in Sockets : Arrive(s)
    BY <1>6, ArriveTruth, ArriveInFlight DEF Fourth
  <1>7. CASE Done \/ UNCHANGED vars
    BY <1>7, StutterFourth DEF Done
  <1>8. QED
    BY <1>1, <1>2, <1>3, <1>4, <1>5, <1>6, <1>7 DEF Next
-----------------------------------------------------------------------------
(* The inductive invariant: all layers.                                    *)
IInv ==
    /\ Admission /\ Typed /\ Control /\ Enough
    /\ Ownership
    /\ Responses
    /\ AnswersWereAsked /\ Ordered /\ Updates /\ OutcomeIsTrue
    /\ InFlight

(* Whatever threads call, however they are interleaved, and whatever the   *)
(* peer and close() do to them: every layer of the invariant holds.        *)
THEOREM Invariance == Spec => []IInv
  <1>1. Init => Fourth
    BY InitFourth
  <1>2. Third /\ Fourth /\ [Next]_vars => Fourth'
    BY StepFourth
  <1>3. Third /\ Fourth => IInv
    BY DEF IInv, Third, Second, First, Fourth, Truth
  <1>4. QED
    BY <1>1, <1>2, <1>3, ThirdHolds, PTL DEF Spec

(* A function on 1..n is a sequence.                                       *)
LEMMA FunctionIsSequence ==
    ASSUME NEW S, NEW n \in Nat, NEW f \in [1..n -> S]
    PROVE  f \in Seq(S)
  OBVIOUS

(* The state of SyncClient stays within its types; the PLC has got nothing *)
(* but requests that were begun.                                           *)
THEOREM TypeCorrect == Spec => []TypeOK
  <1>1. IInv => TypeOK
    <2> SUFFICES ASSUME IInv PROVE TypeOK
      OBVIOUS
    <2>1. Adm!TypeOK /\ Typed
      BY DEF IInv, Admission
    <2>2. ASSUME NEW t \in Threads
          PROVE  /\ me[t].at \in Labels
                 /\ me[t].op \in AllOperations \cup {"none"}
                 /\ me[t].mine \in Sockets \cup {NoSocket}
                 /\ me[t].taken \subseteq Sockets
                 /\ me[t].req \in 0..MaxRequests /\ me[t].alters \in 0..MaxRequests
                 /\ me[t].outcome \in Outcomes
                 /\ me[t].sent \in BOOLEAN /\ me[t].retired \in BOOLEAN
      <3>1. me[t] \in Calls /\ NumbersAreOwn(t)
        BY DEF IInv, Typed, Control
      <3>2. requests \in 0..MaxRequests /\ MaxRequests \in Nat
        BY <2>1, ClientAssumption DEF Typed
      <3>3. me[t].req \in 0..MaxRequests /\ me[t].alters \in 0..MaxRequests
        BY <3>1, <3>2 DEF NumbersAreOwn, Calls, AllOperations
      <3>4. QED
        BY <3>1, <3>3 DEF Calls
    <2>3. \A s \in Sockets : /\ State(s) \in {"unused", "open", "shut", "closed"}
                             /\ wire[s].pending \subseteq 1..MaxRequests
                             /\ wire[s].flight \subseteq 1..MaxRequests
      BY <2>1 DEF Typed, Links, State
    <2>4. received \in Seq(1..requests) /\ late \subseteq 1..requests
      <3>1. /\ received \in Seq(1..MaxRequests)
            /\ DOMAIN received = 1..Len(received) /\ Len(received) \in Nat
        BY <2>1, ReceivedFacts DEF Typed
      <3>2. \A r : Got(r) => r \in 1..MaxRequests /\ r <= requests
        BY <2>1, NothingIsNumberZero DEF IInv, Ordered, Sent
      <3>3. \A r : Got(r) => r \in 1..requests
        BY <2>1, <3>2, ClientAssumption DEF Typed
      <3>4. \A k \in 1..Len(received) : received[k] \in 1..requests
        BY <3>1, <3>3 DEF Got
      <3>5. received \in [1..Len(received) -> 1..requests]
        BY <3>1, <3>4
      <3>6. late \subseteq 1..requests
        BY <3>3 DEF IInv, AnswersWereAsked
      <3>7. QED
        BY <3>1, <3>5, <3>6, FunctionIsSequence
    <2>5. /\ client.transport \in Transports
          /\ client.sock \in Sockets \cup {NoSocket}
          /\ client.connecting \in Sockets \cup {NoSocket}
          /\ client.monitor \in Sockets \cup {NoSocket}
          /\ client.udpConnected \in BOOLEAN /\ client.rxData \in BOOLEAN
      BY <2>1 DEF Typed, Clients
    <2>6. QED
      BY <2>1, <2>2, <2>3, <2>4, <2>5 DEF TypeOK
  <1>2. QED
    BY <1>1, Invariance, PTL

(* What a call reports is true: of what the PLC has got of it, and of the  *)
(* close() that retired it.                                                *)
THEOREM OutcomeStaysTrue == Spec => []OutcomeIsTrue
  <1>1. IInv => OutcomeIsTrue
    BY DEF IInv
  <1>2. QED
    BY <1>1, Invariance, PTL

(* Requests reach the PLC in the order of the calls but for late ones, a   *)
(* bit is written in the word its own call read with none but late         *)
(* requests between the two unless the write is late itself, and the call  *)
(* of a late write was told neither a success nor a definitive failure.    *)
THEOREM UpdatesStayWhole == Spec => []UpdatesAreWhole
  <1>1. IInv => UpdatesAreWhole
    <2> SUFFICES ASSUME IInv, repeats = 0
                 PROVE  /\ \A i, j \in DOMAIN received :
                             i < j => received[i] < received[j] \/ received[j] \in late
                        /\ \A t \in Threads, j \in DOMAIN received :
                             me[t].op = "bit" /\ received[j] = me[t].alters =>
                               \E i \in 1..(j - 1) :
                                 /\ received[i] = me[t].alters - 1
                                 /\ \A k \in (i + 1)..(j - 1) :
                                      received[k] \in late \/ me[t].alters \in late
                        /\ \A t \in Threads : me[t].alters # 0 /\ me[t].alters \in late =>
                             /\ At(t, "idle")
                             /\ me[t].outcome \in {"unknown", "ValueError", "IndexError"}
      BY DEF UpdatesAreWhole
    <2>1. /\ \A i, j \in DOMAIN received :
               i < j => received[i] < received[j] \/ received[j] \in late
          /\ \A i, j \in DOMAIN received : i # j => received[i] # received[j]
          /\ \A t \in Threads :
               /\ me[t].op = "bit" => ReadBefore(me[t].alters)
               /\ me[t].alters \in late => LateIsUnknown(t)
      BY DEF IInv, InFlight
    <2>2. ASSUME NEW t \in Threads, NEW j \in DOMAIN received,
                 me[t].op = "bit", received[j] = me[t].alters
          PROVE  \E i \in 1..(j - 1) :
                   /\ received[i] = me[t].alters - 1
                   /\ \A k \in (i + 1)..(j - 1) :
                        received[k] \in late \/ me[t].alters \in late
      <3>1. PICK i \in 1..(j - 1) : received[i] = me[t].alters - 1
        BY <2>1, <2>2 DEF ReadBefore
      <3>2. /\ DOMAIN received = 1..Len(received) /\ Len(received) \in Nat
            /\ \A k \in DOMAIN received : received[k] \in Nat
        BY ReceivedFacts DEF IInv
      <3>3. ASSUME NEW k \in (i + 1)..(j - 1), me[t].alters \notin late,
                   received[k] \notin late
            PROVE  FALSE
        <4>1. i \in DOMAIN received /\ k \in DOMAIN received /\ i < k /\ k < j
          BY <3>1, <3>2, <3>3
        <4>2. received[i] < received[k] /\ received[k] < received[j]
          BY <2>1, <2>2, <3>3, <4>1
        <4>3. QED
          BY <2>2, <3>1, <3>2, <4>1, <4>2
      <3>4. QED
        BY <3>1, <3>3
    <2>3. \A t \in Threads : me[t].alters \in late =>
            /\ At(t, "idle")
            /\ me[t].outcome \in {"unknown", "ValueError", "IndexError"}
      BY <2>1 DEF LateIsUnknown
    <2>4. QED
      BY <2>1, <2>2, <2>3
  <1>2. QED
    BY <1>1, Invariance, PTL
=============================================================================
