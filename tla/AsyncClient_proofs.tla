------------------------- MODULE AsyncClient_proofs -------------------------
(***************************************************************************)
(* Proofs about AsyncHostLinkClient, for every set of tasks, every number  *)
(* of connections, requests, closes, cancellations and repeated replies.   *)
(* They rest on the turn: every step of the client is one of the admission *)
(* or leaves it alone, so that what AsyncAdmission_proofs proves holds     *)
(* here.  What a step does is named once (Leaves, GivesUp, Retires, ...)   *)
(* and shown for every action; each part of the invariant is then kept by  *)
(* each of these moves.                                                    *)
(***************************************************************************)
EXTENDS AsyncClient, FiniteSetTheorems, SequenceTheorems, WellFoundedInduction,
        TLAPS

Turn == INSTANCE AsyncAdmission_proofs
-----------------------------------------------------------------------------
(* The full types, of which TypeOK shows what a reader looks for.          *)
Answers == [req : Nat, kind : Kinds, since : Nat]
Replies == [req : Nat, kind : Kinds \cup {"none"}, since : Nat]

Calls ==
    [at : Labels, op : AllOperations \cup {"none"}, mine : Conns \cup {NoConn},
     req : Nat, alters : Nat, part : BOOLEAN, got : Replies,
     error : {"none", "timeout", "cancelled"}, interrupted : BOOLEAN,
     asked : BOOLEAN, outcome : Outcomes, sent : BOOLEAN, retired : BOOLEAN]

Links ==
    [state : {"unused", "opening", "refused", "open", "closed"},
     inbox : Seq(Answers), eof : BOOLEAN, flight : SUBSET (1..MaxRequests),
     pending : SUBSET (1..MaxRequests), checked : Nat,
     response : {"none", "pending", "done", "cancelled"},
     held : BOOLEAN, reply : Replies, unowned : BOOLEAN]

Clients ==
    [transport : Transports, conn : Conns \cup {NoConn},
     udpConnected : BOOLEAN, monitor : Conns \cup {NoConn}]

Typed ==
    /\ running \in Tasks \cup {NoTask}
    /\ client \in Clients
    /\ me \in [Tasks -> Calls]
    /\ wire \in [Conns -> Links]
    /\ received \in Seq(1..MaxRequests)
    /\ requests \in 0..MaxRequests /\ repeats \in Nat /\ cancels \in Nat

(* The turn: what AsyncAdmission_proofs shows to be inductive.             *)
Admission ==
    /\ Adm!TypeOK
    /\ Adm!OwnerIsExact
    /\ Adm!QueueIsExact
    /\ \A t \in Tasks : waiterGeneration[t] <= generation

(* What a label of a call says about the call.                             *)
Trying(t) == me[t].at \in {"connecting", "bind"}
InUse(t) == me[t].at \in {"send", "drain", "receive", "accept"}
Disposing(t) == me[t].at \in {"dispose_attempt", "dispose_late", "dispose_retired"}

CallIsExact(t) ==
    LET c == me[t] IN
    /\ c.at = "idle" <=> pc[t] = "outside"
    /\ c.at = "queued" <=> pc[t] = "waiting"
    /\ c.at \in {"start", "send"} <=> running = t
    /\ c.at \in {"idle", "queued", "start"} => c.mine = NoConn
    /\ c.at # "idle" => c.outcome = "none" /\ c.op # "none"
    /\ c.at = "connecting" \/ Disposing(t) => c.op = "connect"
    /\ c.at \in {"bind", "send"} => Transport = "udp"
    /\ c.at = "drain" => Transport = "tcp"
    /\ c.at = "bind" \/ InUse(t) => Cost(c.op) > 0
    /\ c.at = "queued" /\ c.op = "bit" => c.req # c.alters

(* The numbers of the requests of a call.                                  *)
NumbersAreOwn(t) ==
    LET c == me[t] IN
    /\ c.op # "close"
    /\ c.op \in {"none", "connect"} => c.req = 0 /\ c.alters = 0
    /\ c.op = "read" => c.req \in 1..requests /\ c.alters = 0
    /\ c.op \in {"write", "register"} => c.req \in 1..requests /\ c.alters = c.req
    /\ c.op = "bit" => c.alters \in 2..requests /\ c.req \in {c.alters - 1, c.alters}

Control == \A t \in Tasks : CallIsExact(t) /\ NumbersAreOwn(t)
-----------------------------------------------------------------------------
(* Whom a call may still ask for a new connection.                         *)
Needing ==
    {t \in Tasks :
       /\ Creates(me[t].op)
       /\ \/ me[t].at = "queued"
          \/ me[t].at = "start" /\ (me[t].op # "bit" \/ me[t].req # me[t].alters)}

Quiet(s) ==
    /\ wire[s].inbox = <<>> /\ wire[s].pending = {} /\ wire[s].flight = {}
    /\ wire[s].response = "none"

(* A call in its turn works on the connection of the client, or the client *)
(* was closed and has none; whoever is cut off never gets one again.       *)
CallHasConnection(t) ==
    LET s == me[t].mine IN
    /\ Trying(t) => /\ s \in Conns /\ State(s) \in {"opening", "refused", "open"}
                    /\ client.conn = NoConn /\ Quiet(s)
    /\ me[t].at = "connecting" => ~client.udpConnected
    /\ me[t].at = "bind" => Adm!Invalidated \/ client.udpConnected
    /\ InUse(t) => /\ s \in Conns /\ State(s) \in {"open", "closed"}
                   /\ Adm!Invalidated \/ client.conn = s
    /\ me[t].at = "send" => client.conn = s
    /\ me[t].at = "dispose_retired" => Adm!Invalidated
    /\ me[t].at = "start" /\ me[t].op = "bit" /\ Changing(t) => client.conn # NoConn

ClientIsExact ==
    /\ Adm!Invalidated => client = Disconnected(Transport)
    /\ Transport = "tcp" => ~client.udpConnected
    /\ Transport = "udp" /\ client.conn # NoConn => client.udpConnected
    /\ client.conn # NoConn => State(client.conn) = "open"

Connections ==
    /\ ClientIsExact
    /\ \A t \in Tasks : CallHasConnection(t)
    /\ \A s \in Conns : State(s) \in {"unused", "opening", "refused"} => Quiet(s)
    /\ OpenConnectionsAreOwned
    /\ MonitorIsOfConnection

EnoughConnections ==
    IsFiniteSet(Needing) /\ Cardinality(Unused) >= Cardinality(Needing)
-----------------------------------------------------------------------------
(* What a call may still be waiting for, or has been given, is its own.    *)
Exchanging(t) == me[t].at \in {"drain", "receive"}

AnswerIsOwn(t) ==
    LET s == me[t].mine
        r == me[t].req
    IN
    /\ me[t].at # "accept" => me[t].got = NoReply
    /\ me[t].at = "accept" => /\ me[t].got.since = r
                              /\ repeats = 0 => me[t].got.req = r
    /\ Exchanging(t) =>
         /\ wire[s].checked = r
         /\ \A i \in DOMAIN wire[s].inbox : wire[s].inbox[i].since = r
         /\ Transport = "udp" /\ wire[s].response = "done" =>
              wire[s].reply.since = r
    /\ Exchanging(t) /\ repeats = 0 =>
         /\ wire[s].pending \subseteq {r} /\ wire[s].flight \subseteq {r}
         /\ \A i \in DOMAIN wire[s].inbox : wire[s].inbox[i].req = r
         /\ wire[s].inbox # <<>> => wire[s].pending = {} /\ Len(wire[s].inbox) = 1
         /\ Transport = "udp" /\ wire[s].response = "done" =>
              wire[s].pending = {} /\ wire[s].reply.req = r
         /\ wire[s].flight # {} =>
              /\ wire[s].pending = {} /\ wire[s].inbox = <<>>
              /\ Transport = "udp" => wire[s].response # "done"

Responses ==
    /\ \A s \in Conns :
         /\ Transport = "udp" => wire[s].inbox = <<>>
         /\ State(s) = "open" => wire[s].response # "cancelled"
         /\ repeats = 0 /\ State(s) = "open" =>
              \/ wire[s].pending = {} /\ wire[s].inbox = <<>> /\ wire[s].flight = {}
              \/ \E t \in Tasks : Exchanging(t) /\ me[t].mine = s
    /\ \A t \in Tasks : AnswerIsOwn(t)
-----------------------------------------------------------------------------
(* Requests that the PLC may have, and requests that it cannot have yet.   *)
Unsent(t) == me[t].at \in {"queued", "start", "bind", "send"}

AnswersWereAsked ==
    /\ \A s \in Conns :
         /\ \A r \in wire[s].pending : Got(r)
         /\ \A i \in DOMAIN wire[s].inbox : Got(wire[s].inbox[i].req)
         /\ wire[s].response = "done" =>
              Got(wire[s].reply.req) /\ wire[s].reply.kind \in Kinds
    /\ \A t \in Tasks : me[t].at = "accept" =>
         Got(me[t].got.req) /\ me[t].got.kind \in Kinds
    /\ \A r \in late : Got(r)

(* The calls are numbered in the order of the queue.                       *)
Before(t, u) ==
    me[u].req # 0 => me[t].req < me[u].req /\ me[t].alters < me[u].req

InLine(t) == Adm!Queued(t) \/ owner = t

Ordered ==
    /\ \A t, u \in Tasks : t # u /\ me[t].alters # 0 =>
         me[t].alters # me[u].req /\ me[t].alters # me[u].alters
    /\ \A i, j \in 1..Len(queue) : i < j => Before(queue[i], queue[j])
    /\ owner # NoTask => \A j \in 1..Len(queue) : Before(owner, queue[j])
    /\ \A t \in Tasks, r \in Nat : InLine(t) /\ me[t].req # 0 /\ Sent(r) =>
         r <= me[t].req /\ (Unsent(t) => r < me[t].req)
    /\ \A r \in Nat : Sent(r) => r <= requests

Updates ==
    \A t \in Tasks : me[t].alters # 0 =>
      /\ Unsent(t) \/ ~Changing(t) => ~Sent(me[t].alters)
      /\ repeats = 0 /\ me[t].op = "bit" /\ Changing(t) => Got(me[t].alters - 1)

(* What is under way arrives once, and what arrives late belongs to a call *)
(* that ended without knowing.                                             *)
LateIsUnknown(t) ==
    me[t].at = "idle" /\ me[t].outcome \in {"unknown", "AttributeError"}
Flying(t) == me[t].at \in {"drain", "receive", "accept"}
ReadBefore(r) ==
    \A j \in DOMAIN received : received[j] = r =>
      \E i \in 1..(j - 1) : received[i] = r - 1

InFlight ==
    repeats = 0 =>
      /\ \A s \in Conns : \A r \in wire[s].flight :
           ~Got(r) /\ \A u \in Conns : r \in wire[u].flight => u = s
      /\ \A i, j \in DOMAIN received :
           i < j => received[i] < received[j] \/ received[j] \in late
      /\ \A i, j \in DOMAIN received : i # j => received[i] # received[j]
      /\ \A t \in Tasks :
           /\ me[t].op = "bit" => ReadBefore(me[t].alters)
           /\ me[t].alters \in late => LateIsUnknown(t)
           /\ Flying(t) => me[t].req \notin late

(* Who is cancelled asked for it, and a response is cancelled by close().  *)
Cancellations ==
    \A t \in Tasks :
      /\ cancelled[t] => me[t].at = "queued" /\ me[t].asked
      /\ me[t].interrupted => me[t].asked
      /\ me[t].error = "cancelled" => me[t].asked
      /\ Disposing(t) /\ me[t].at # "dispose_retired" => me[t].error # "none"

IInv ==
    /\ Admission
    /\ Typed
    /\ Control
    /\ Connections
    /\ EnoughConnections
    /\ Responses
    /\ AnswersWereAsked
    /\ Ordered
    /\ Updates
    /\ InFlight
    /\ OutcomeIsTrue
    /\ Cancellations
    /\ CancelledOnlyIfAsked
-----------------------------------------------------------------------------
(* Why a call ends as it does.                                             *)
Prompted(t) ==
    \/ me[t].interrupted
    \/ me[t].error = "cancelled"
    \/ /\ me[t].at = "receive" /\ ~Adm!Invalidated
       /\ wire[me[t].mine].response = "cancelled"

TrueEnd(t, outcome) ==
    /\ outcome \in Outcomes \ {"none", "plcError"}
    /\ outcome = "closed" => Adm!Invalidated
    /\ outcome \in {"cancelled", "CancelledError"} => Prompted(t)

(* A call ends and touches nothing.                                        *)
Leaves(t, outcome) ==
    /\ \/ me[t].at = "start" \/ Disposing(t)
       \/ me[t].at = "connecting" /\ State(me[t].mine) = "refused"
    /\ outcome = "ok" => me[t].op = "connect"
    /\ outcome \notin {"unknown", "AttributeError"}
    /\ TrueEnd(t, outcome)
    /\ Finish(t, outcome, FALSE)
    /\ UNCHANGED <<client, wire, peer>>

(* A connect() ends and drops the connection it was making.                *)
GivesUp(t, outcome) ==
    /\ me[t].at = "connecting"
    /\ outcome \in {"timeout", "cancelled", "closed", "transport"}
    /\ TrueEnd(t, outcome)
    /\ wire' = WithGone(wire, {me[t].mine})
    /\ Finish(t, outcome, FALSE)
    /\ UNCHANGED <<client, peer>>

(* A connect() drops the connection it was making, and waits for that.     *)
Awaits(t, label, error) ==
    /\ me[t].at = "connecting"
    /\ \/ /\ label \in {"dispose_attempt", "dispose_late"}
          /\ error \in {"timeout", "cancelled"}
          /\ error = "cancelled" => me[t].interrupted
       \/ label = "dispose_retired" /\ error = me[t].error /\ Adm!Invalidated
    /\ wire' = WithGone(wire, {me[t].mine})
    /\ me' = [me EXCEPT ![t] = [@ EXCEPT
                !.at = label, !.error = error, !.interrupted = FALSE]]
    /\ running' = NoTask
    /\ UNCHANGED <<admission, client, peer>>

(* A connect() ends with a connection.                                     *)
Adopts(t) ==
    /\ me[t].at = "connecting" /\ State(me[t].mine) = "open" /\ ~Adm!Invalidated
    /\ client' = [client EXCEPT !.conn = me[t].mine,
                                !.udpConnected = (Transport = "udp")]
    /\ Finish(t, "ok", FALSE)
    /\ UNCHANGED <<wire, peer>>

(* A request fails, and the connection it used, and the client's, with it. *)
Retires(t, outcome, sent) ==
    /\ me[t].at \in {"start", "bind"} \/ InUse(t)
    /\ Cost(me[t].op) > 0
    /\ sent <=> me[t].at \in {"drain", "receive", "accept"}
    /\ outcome # "ok"
    /\ outcome = "unknown" => sent
    /\ sent /\ Changing(t) => outcome \in {"unknown", "AttributeError"}
    /\ ~sent => outcome # "AttributeError"
    /\ TrueEnd(t, outcome)
    /\ client' = Retired
    /\ wire' = WithGone(wire, {client.conn, me[t].mine})
    /\ Finish(t, outcome, sent)
    /\ UNCHANGED peer

(* A call begins to make a connection.                                     *)
Opens(t, label) ==
    /\ me[t].at = "start" /\ ~(me[t].op = "bit" /\ Changing(t))
    /\ client.conn = NoConn
    /\ \/ label = "connecting" /\ me[t].op = "connect" /\ ~client.udpConnected
       \/ /\ label = "bind" /\ Cost(me[t].op) > 0
          /\ Transport = "udp" /\ client.udpConnected
    /\ wire' = [wire EXCEPT ![NextConn].state = "opening"]
    /\ me' = [me EXCEPT ![t].at = label, ![t].mine = NextConn]
    /\ running' = NoTask
    /\ UNCHANGED <<admission, client, peer>>

(* The socket of the next datagram becomes the client's.                   *)
Binds(t) ==
    /\ me[t].at = "bind" /\ State(me[t].mine) = "open" /\ ~Adm!Invalidated
    /\ running = NoTask /\ running' = t
    /\ client' = [client EXCEPT !.conn = me[t].mine]
    /\ me' = [me EXCEPT ![t].at = "send", ![t].interrupted = FALSE]
    /\ UNCHANGED <<admission, wire, peer>>

(* The next datagram goes over the socket of the last.                     *)
Reuses(t) ==
    /\ me[t].at = "start" /\ Cost(me[t].op) > 0
    /\ Transport = "udp" /\ client.conn # NoConn
    /\ me' = [me EXCEPT ![t].at = "send", ![t].mine = client.conn]
    /\ UNCHANGED <<admission, running, client, wire, peer>>

(* A request is sent, and is under way.                                    *)
Sends(t, label, s) ==
    /\ Cost(me[t].op) > 0
    /\ \/ /\ label = "drain" /\ me[t].at = "start" /\ Transport = "tcp"
          /\ s = client.conn /\ s # NoConn /\ wire[s].inbox = <<>>
          /\ wire' = [wire EXCEPT ![s].checked = me[t].req,
                                  ![s].flight = @ \cup {me[t].req}]
       \/ /\ label = "receive" /\ me[t].at = "send" /\ Transport = "udp"
          /\ s = me[t].mine
          /\ wire' = [wire EXCEPT ![s].checked = me[t].req,
                                  ![s].flight = @ \cup {me[t].req},
                                  ![s].response = "pending", ![s].held = TRUE]
    /\ me' = [me EXCEPT ![t].at = label, ![t].mine = s]
    /\ running = t /\ running' = NoTask
    /\ UNCHANGED <<admission, client, peer>>

(* A request goes on waiting.                                              *)
Continues(t) ==
    /\ \/ /\ me[t].at = "drain"
          /\ me' = [me EXCEPT ![t].at = "receive", ![t].interrupted = FALSE]
       \/ /\ me[t].at = "receive"
          /\ me' = [me EXCEPT ![t].part = TRUE]
    /\ UNCHANGED <<admission, running, client, wire, peer>>

(* A request gets what came first.                                         *)
Takes(t, reply) ==
    LET s == me[t].mine IN
    /\ me[t].at = "receive"
    /\ \/ /\ Transport = "tcp" /\ wire[s].inbox # <<>> /\ reply = Head(wire[s].inbox)
          /\ wire' = [wire EXCEPT ![s].inbox = Tail(@)]
       \/ /\ Transport = "udp" /\ wire[s].response = "done" /\ reply = wire[s].reply
          /\ UNCHANGED wire
    /\ me' = [me EXCEPT ![t].at = "accept", ![t].got = reply]
    /\ UNCHANGED <<admission, running, client, peer>>

(* A response is accepted: the call ends with it, or writes its word back. *)
Accepts(t) ==
    LET s == me[t].mine IN
    /\ me[t].at = "accept" /\ ~Adm!Invalidated
    /\ me[t].got.kind \in {"ok", "plcError"}
    /\ client' = [client EXCEPT
               !.conn = IF Transport = "udp" THEN s ELSE @,
               !.monitor = IF me[t].op = "register" /\ me[t].got.kind = "ok"
                             THEN s ELSE @]
    /\ wire' = [wire EXCEPT ![s].held = FALSE, ![s].response = "none",
                            ![s].reply = NoReply]
    /\ UNCHANGED peer
    /\ \/ me[t].op = "bit" /\ ~Changing(t) /\ running = NoTask /\ WriteBack(t)
       \/ /\ ~(me[t].op = "bit" /\ ~Changing(t) /\ me[t].got.kind = "ok")
          /\ Finish(t, me[t].got.kind, TRUE)

Moves(t) ==
    \/ \E outcome \in Outcomes : Leaves(t, outcome) \/ GivesUp(t, outcome)
    \/ \E label \in Labels, error \in {"none", "timeout", "cancelled"} :
         Awaits(t, label, error)
    \/ Adopts(t)
    \/ \E outcome \in Outcomes, sent \in BOOLEAN : Retires(t, outcome, sent)
    \/ \E label \in Labels : Opens(t, label)
    \/ Binds(t) \/ Reuses(t)
    \/ \E label \in Labels, s \in Conns : Sends(t, label, s)
    \/ Continues(t)
    \/ \E reply \in Replies : Takes(t, reply)
    \/ Accepts(t)
-----------------------------------------------------------------------------
(* A connection that is new or gone is empty, and so is no reply; of what  *)
(* was sent over it nothing is lost.                                       *)
Left(flight) == [Gone EXCEPT !.flight = flight]

(* So they are, whatever is under way.                                     *)
LEMMA FreshFacts ==
    /\ NoReply \in Replies /\ Fresh \in Links
    /\ Fresh.state = "unused" /\ Fresh.flight = {}
    /\ \A flight \in SUBSET (1..MaxRequests) :
         /\ Left(flight) \in Links
         /\ Left(flight).state = "closed" /\ Left(flight).flight = flight
         /\ Left(flight).inbox = <<>> /\ Left(flight).pending = {}
         /\ Left(flight).response = "none"
    /\ Fresh.inbox = <<>> /\ Fresh.pending = {} /\ Fresh.response = "none"
    /\ NoReply.req = 0 /\ NoReply.kind = "none"
  <1>1. NoReply \in Replies /\ <<>> \in Seq(Answers)
    BY DEF NoReply, Replies
  <1>2. Fresh \in Links
    BY <1>1 DEF Fresh, Links
  <1>3. Gone \in Links /\ Gone = [Fresh EXCEPT !.state = "closed"]
    BY <1>2 DEF Gone, Links
  <1>4. ASSUME NEW flight \in SUBSET (1..MaxRequests)
        PROVE  /\ Left(flight) \in Links
               /\ Left(flight).state = "closed" /\ Left(flight).flight = flight
               /\ Left(flight).inbox = <<>> /\ Left(flight).pending = {}
               /\ Left(flight).response = "none"
    <2>1. /\ Gone.state = "closed" /\ Gone.inbox = <<>> /\ Gone.pending = {}
          /\ Gone.response = "none"
      BY <1>3 DEF Fresh
    <2>2. QED
      BY <1>3, <2>1 DEF Left, Links
  <1>5. QED
    BY <1>1, <1>2, <1>4 DEF Fresh, NoReply

(* The other calls stay as they are, and this one keeps what was asked of  *)
(* it and where it stands in the turn.                                     *)
Keeps(t) ==
    /\ me' \in [Tasks -> Calls]
    /\ \A u \in Tasks \ {t} : me'[u] = me[u]
    /\ me'[t].op = me[t].op
    /\ me'[t].alters = me[t].alters /\ me'[t].asked = me[t].asked

(* A call ends: everything about it but what was asked of it.              *)
Ends(t, outcome, sent) ==
    /\ Keeps(t) /\ me'[t].req = me[t].req
    /\ me'[t].at = "idle" /\ me'[t].mine = NoConn
    /\ me'[t].got = NoReply /\ me'[t].error = "none"
    /\ me'[t].interrupted = FALSE
    /\ me'[t].outcome = outcome /\ me'[t].sent = sent
    /\ me'[t].retired <=> Adm!Invalidated
    /\ running' = NoTask
    /\ Adm!Exit(t)

(* A call goes on at another label, with another connection perhaps.       *)
GoesOn(t, label, s, got, error) ==
    /\ Keeps(t) /\ me'[t].req = me[t].req
    /\ me'[t].at = label /\ me'[t].mine = s
    /\ me'[t].got = got /\ me'[t].error = error
    /\ me'[t].interrupted => me[t].interrupted
    /\ me'[t].outcome = me[t].outcome

(* What a call that ends leaves behind.                                    *)
LEMMA FinishFacts ==
    ASSUME Typed, NEW t \in Tasks, NEW outcome \in Outcomes, NEW sent \in BOOLEAN,
           Finish(t, outcome, sent)
    PROVE  Ends(t, outcome, sent)
  <1> DEFINE retired == Adm!Invalidated
             c == [me[t] EXCEPT
                     !.at = "idle", !.outcome = outcome, !.sent = sent,
                     !.mine = NoConn, !.part = FALSE, !.got = NoReply,
                     !.error = "none", !.interrupted = FALSE,
                     !.retired = retired]
  <1>1. me' = [me EXCEPT ![t] = c] /\ running' = NoTask /\ Adm!Exit(t)
    BY DEF Finish
  <1>2. retired \in BOOLEAN
    BY DEF Adm!Invalidated
  <1>3. me[t] \in Calls /\ NoReply \in Replies
    BY FreshFacts DEF Typed
  <1> HIDE DEF retired
  <1>4. c \in Calls
    BY <1>2, <1>3 DEF Calls, Labels
  <1>5. /\ c.at = "idle" /\ c.op = me[t].op /\ c.mine = NoConn
        /\ c.req = me[t].req /\ c.alters = me[t].alters
        /\ c.got = NoReply /\ c.error = "none"
        /\ c.interrupted = FALSE /\ c.asked = me[t].asked
        /\ c.outcome = outcome /\ c.sent = sent /\ c.retired = retired
    BY <1>3 DEF Calls
  <1> HIDE DEF c
  <1>6. QED
    BY <1>1, <1>4, <1>5 DEF Typed, retired, Ends, Keeps

(* Connections that are dropped are closed and empty; no other changes.    *)
LEMMA GoneFacts ==
    ASSUME Typed, NEW S, wire' = WithGone(wire, S)
    PROVE  /\ wire' \in [Conns -> Links]
           /\ \A s \in Conns \ S : wire'[s] = wire[s]
           /\ \A s \in Conns : s \in S =>
                wire'[s] = Left(wire[s].flight)
           /\ \A s \in Conns : wire'[s].flight = wire[s].flight
           /\ \A s \in Conns : s \in S =>
                /\ wire'[s].state = "closed" /\ wire'[s].inbox = <<>>
                /\ wire'[s].pending = {} /\ wire'[s].response = "none"
  <1>1. \A s \in Conns : wire[s] \in Links /\ wire[s].flight \in SUBSET (1..MaxRequests)
    BY DEF Typed, Links
  <1>2. /\ \A s \in Conns \ S : wire'[s] = wire[s]
        /\ \A s \in Conns : s \in S => wire'[s] = Left(wire[s].flight)
        /\ wire' = [s \in Conns |-> wire'[s]]
    BY DEF WithGone, Left
  <1>3. \A s \in Conns : wire'[s] \in Links
    BY <1>1, <1>2, FreshFacts
  <1>4. /\ \A s \in Conns : wire'[s].flight = wire[s].flight
        /\ \A s \in Conns : s \in S =>
             /\ wire'[s].state = "closed" /\ wire'[s].inbox = <<>>
             /\ wire'[s].pending = {} /\ wire'[s].response = "none"
    BY <1>1, <1>2, FreshFacts
  <1>5. QED
    BY <1>2, <1>3, <1>4

(* What a call that goes on may change.                                    *)
Changed(t, label, s, interrupted, part, got, error) ==
    [me EXCEPT ![t] = [me[t] EXCEPT
        !.at = label, !.mine = s, !.interrupted = interrupted,
        !.part = part, !.got = got, !.error = error]]

(* What is changed of a call that goes on is all that changes.             *)
LEMMA ChangedCall ==
    ASSUME Typed, NEW t \in Tasks, NEW label \in Labels,
           NEW s \in Conns \cup {NoConn}, NEW interrupted \in BOOLEAN,
           NEW part \in BOOLEAN, NEW got \in Replies,
           NEW error \in {"none", "timeout", "cancelled"},
           interrupted => me[t].interrupted,
           me' = Changed(t, label, s, interrupted, part, got, error)
    PROVE  GoesOn(t, label, s, got, error)
  <1> DEFINE c == [me[t] EXCEPT
                    !.at = label, !.mine = s, !.interrupted = interrupted,
                    !.part = part, !.got = got, !.error = error]
  <1>1. me' = [me EXCEPT ![t] = c]
    BY DEF Changed
  <1>2. me[t] \in Calls
    BY DEF Typed
  <1>3. c \in Calls
    BY <1>2 DEF Calls
  <1>4. /\ c.at = label /\ c.op = me[t].op
        /\ c.mine = s
        /\ c.req = me[t].req /\ c.alters = me[t].alters
        /\ c.got = got /\ c.error = error
        /\ c.interrupted = interrupted /\ c.asked = me[t].asked
        /\ c.outcome = me[t].outcome
    BY <1>2 DEF Calls
  <1> HIDE DEF c
  <1>5. QED
    BY <1>1, <1>3, <1>4 DEF Typed, GoesOn, Keeps
-----------------------------------------------------------------------------
(* Whatever the client does to the turn, it stays exact.                   *)
LEMMA TurnStep ==
    ASSUME Admission, [Adm!Next]_(Adm!vars)
    PROVE  Admission'
  <1>1. Admission <=> Turn!IInv
    BY DEF Admission, Turn!IInv, Adm!TypeOK, Turn!TypeOK, Adm!OwnerIsExact,
           Turn!OwnerIsExact, Adm!QueueIsExact, Turn!QueueIsExact,
           Turn!NoneIsAhead, Adm!Queued, Turn!Queued
  <1>2. Admission' <=> Turn!IInv'
    BY DEF Admission, Turn!IInv, Adm!TypeOK, Turn!TypeOK, Adm!OwnerIsExact,
           Turn!OwnerIsExact, Adm!QueueIsExact, Turn!QueueIsExact,
           Turn!NoneIsAhead, Adm!Queued, Turn!Queued
  <1>3. [Turn!Next]_(Turn!vars)
    BY DEF Adm!Next, Adm!vars, Turn!vars, Turn!Next, Adm!Step, Turn!Step,
           Adm!EnterFree, Turn!EnterFree, Adm!EnterBusy, Turn!EnterBusy,
           Adm!EnterNested, Turn!EnterNested, Adm!Cancel, Turn!Cancel,
           Adm!Resume, Turn!Resume, Adm!Admitted, Turn!Admitted,
           Adm!Rejected, Turn!Rejected, Adm!CancelledInQueue, Turn!CancelledInQueue,
           Adm!ExitNested, Turn!ExitNested, Adm!Exit, Turn!Exit,
           Adm!Invalidate, Turn!Invalidate, Adm!HandOver, Turn!HandOver,
           Adm!FreeTurn, Turn!FreeTurn, Adm!Queued, Turn!Queued,
           Adm!Without, Turn!Without, Adm!turn, Turn!turn,
           Adm!waiters, Turn!waiters
  <1>4. Turn!IInv /\ [Turn!Next]_(Turn!vars) => Turn!IInv'
    BY Turn!StepIInv, TurnAssumption DEF Turn!StepIInv, Turn!TasksAssumption
  <1>5. QED
    BY <1>1, <1>2, <1>3, <1>4

(* A call that has left the queue has the turn, and nobody else has it.    *)
LEMMA ActingFacts ==
    ASSUME Admission, Typed, Control, NEW t \in Tasks,
           me[t].at \notin {"idle", "queued"}
    PROVE  /\ pc[t] = "inside" /\ owner = t /\ owner # NoTask
           /\ running \in {t, NoTask}
           /\ \A u \in Tasks \ {t} :
                /\ me[u].at \in {"idle", "queued"} /\ me[u].mine = NoConn
                /\ running # u
  <1>1. \A u \in Tasks : pc[u] \in {"outside", "waiting", "inside"} /\ CallIsExact(u)
    BY DEF Admission, Adm!TypeOK, Control
  <1>2. \A u \in Tasks : me[u].at \notin {"idle", "queued"} => pc[u] = "inside" /\ owner = u
    BY <1>1 DEF CallIsExact, Admission, Adm!OwnerIsExact
  <1>3. \A u \in Tasks \ {t} : me[u].at \in {"idle", "queued"}
    BY <1>2
  <1>4. \A u \in Tasks \ {t} : me[u].mine = NoConn /\ running # u
    BY <1>1, <1>3 DEF CallIsExact
  <1>5. QED
    BY <1>2, <1>3, <1>4, TurnAssumption DEF Typed

(* The turn is passed on to a call that nothing has retired.               *)
LEMMA HandOverFacts ==
    ASSUME Admission, Admission', NEW t \in Tasks, owner = t, Adm!HandOver(queue),
           pc' = [pc EXCEPT ![t] = "outside"],
           generation' = generation, waiterGeneration' = waiterGeneration
    PROVE  /\ ~Adm!Invalidated'
           /\ owner # NoTask /\ owner' # t
           /\ \/ queue = <<>> /\ queue' = <<>> /\ owner' = NoTask
              \/ queue # <<>> /\ queue' = Tail(queue) /\ owner' = Head(queue)
  <1>1. \/ queue = <<>> /\ queue' = <<>> /\ owner' = NoTask
        \/ queue # <<>> /\ queue' = Tail(queue) /\ owner' = Head(queue)
    BY DEF Adm!HandOver, Adm!FreeTurn
  <1>2. t # NoTask /\ owner' # t
    BY TurnAssumption DEF Admission, Adm!OwnerIsExact, Adm!TypeOK
  <1>3. CASE queue = <<>>
    BY <1>1, <1>2, <1>3 DEF Adm!Invalidated
  <1>4. CASE queue # <<>>
    <2>1. Head(queue) \in Tasks /\ Adm!Queued(Head(queue))
      <3>1. queue \in Seq(Tasks)
        BY DEF Admission, Adm!TypeOK
      <3>2. Head(queue) = queue[1] /\ 1 \in 1..Len(queue) /\ Head(queue) \in Tasks
        BY <1>4, <3>1
      <3>3. QED
        BY <3>2 DEF Adm!Queued
    <2>2. waiterGeneration[Head(queue)] = generation
      BY <2>1 DEF Admission, Adm!QueueIsExact
    <2>3. owner' # NoTask => ownerGeneration' = waiterGeneration'[owner']
      BY DEF Admission, Adm!OwnerIsExact
    <2>4. QED
      BY <1>1, <1>2, <1>4, <2>2, <2>3 DEF Adm!Invalidated
  <1>5. QED
    BY <1>3, <1>4

(* So it is when a call ends.                                              *)
LEMMA ExitFacts ==
    ASSUME Admission, NEW t \in Tasks, Adm!Exit(t)
    PROVE  /\ Admission'
           /\ ~Adm!Invalidated'
           /\ pc' = [pc EXCEPT ![t] = "outside"]
           /\ generation' = generation /\ cancelled' = cancelled
           /\ owner = t /\ owner # NoTask /\ owner' # t
           /\ \/ queue = <<>> /\ queue' = <<>> /\ owner' = NoTask
              \/ queue # <<>> /\ queue' = Tail(queue) /\ owner' = Head(queue)
  <1>1. Admission'
    BY TurnStep DEF Adm!Next, Adm!Step
  <1>2. /\ pc' = [pc EXCEPT ![t] = "outside"] /\ owner = t
        /\ generation' = generation /\ cancelled' = cancelled
        /\ waiterGeneration' = waiterGeneration
        /\ Adm!HandOver(queue)
    BY DEF Adm!Exit
  <1>3. QED
    BY <1>1, <1>2, HandOverFacts
-----------------------------------------------------------------------------
(* A call that needs a connection finds one that was never used.           *)
LEMMA NextConnFacts ==
    ASSUME Typed, EnoughConnections, Needing # {}
    PROVE  /\ NextConn \in Conns /\ State(NextConn) = "unused"
           /\ IsFiniteSet(Unused)
  <1>1. IsFiniteSet(Conns)
    BY FS_Interval, ClientAssumption DEF Conns
  <1>2. IsFiniteSet(Unused)
    BY <1>1, FS_Subset DEF Unused
  <1>3. Unused # {}
    <2>1. SUFFICES ASSUME Unused = {} PROVE FALSE
      OBVIOUS
    <2>2. Cardinality(Unused) = 0
      BY <2>1, FS_EmptySet
    <2>3. Cardinality(Needing) \in Nat /\ Cardinality(Needing) # 0
      BY FS_CardinalityType, FS_EmptySet DEF EnoughConnections
    <2>4. QED
      BY <2>2, <2>3 DEF EnoughConnections
  <1>4. PICK n \in Unused : \A m \in Unused : n <= m
    <2> DEFINE R == OpToRel(<, Nat)
    <2>1. Unused \subseteq Nat
      BY DEF Unused, Conns
    <2>2. \A x, y \in Nat : <<y, x>> \in R <=> y < x
      BY DEF OpToRel
    <2>3. IsWellFoundedOn(R, Nat)
      BY NatLessThanWellFounded, Zenon
    <2> HIDE DEF R
    <2>4. PICK n \in Unused : \A m \in Unused : ~ (<<m, n>> \in R)
      BY <1>3, <2>1, <2>3, WFMin
    <2>5. \A m \in Unused : n \in Nat /\ m \in Nat /\ ~(m < n)
      BY <2>1, <2>2, <2>4
    <2>6. QED
      BY <2>5
  <1>5. NextConn \in Unused
    BY <1>4 DEF NextConn
  <1>6. QED
    BY <1>2, <1>5 DEF Unused

CallParts(t) ==
    /\ me[t].mine \in Conns \cup {NoConn} /\ me[t].interrupted \in BOOLEAN
    /\ me[t].part \in BOOLEAN /\ me[t].got \in Replies
    /\ me[t].error \in {"none", "timeout", "cancelled"}
    /\ TRUE \in BOOLEAN /\ FALSE \in BOOLEAN

(* A call and its fields have their types.                                 *)
LEMMA CallTypes == ASSUME Typed, NEW t \in Tasks PROVE CallParts(t)
  BY DEF Typed, Calls, CallParts

(* The moves in which a call goes on.                                      *)
LEMMA AwaitsFacts ==
    ASSUME Typed, NEW t \in Tasks, NEW label \in Labels,
           NEW error \in {"none", "timeout", "cancelled"}, Awaits(t, label, error)
    PROVE  GoesOn(t, label, me[t].mine, me[t].got, error)
  <1>0. CallParts(t)
    BY CallTypes
  <1>1. me[t] \in Calls
    BY DEF Typed
  <1>2. me' = Changed(t, label, me[t].mine, FALSE, me[t].part, me[t].got, error)
    BY <1>1 DEF Awaits, Calls, Changed
  <1>3. QED
    BY <1>0, <1>1, <1>2, ChangedCall DEF CallParts

(* What changes of a call that begins to connect or to bind.               *)
LEMMA OpensFacts ==
    ASSUME Typed, NEW t \in Tasks, NEW label \in Labels, Opens(t, label),
           NextConn \in Conns
    PROVE  GoesOn(t, label, NextConn, me[t].got, me[t].error)
  <1>0. CallParts(t)
    BY CallTypes
  <1>1. me[t] \in Calls
    BY DEF Typed
  <1>2. me' = Changed(t, label, NextConn, me[t].interrupted, me[t].part, me[t].got, me[t].error)
    BY <1>1 DEF Opens, Calls, Changed, Typed
  <1>3. QED
    BY <1>0, <1>1, <1>2, ChangedCall DEF CallParts

(* What changes of a call whose datagram socket was made.                  *)
LEMMA BindsFacts ==
    ASSUME Typed, NEW t \in Tasks, Binds(t)
    PROVE  GoesOn(t, "send", me[t].mine, me[t].got, me[t].error)
  <1>0. CallParts(t)
    BY CallTypes
  <1>1. me[t] \in Calls /\ "send" \in Labels
    BY DEF Typed, Labels
  <1>2. me' = Changed(t, "send", me[t].mine, FALSE, me[t].part, me[t].got, me[t].error)
    BY <1>1 DEF Binds, Calls, Changed, Typed
  <1>3. QED
    BY <1>0, <1>1, <1>2, ChangedCall DEF CallParts

(* What changes of a call that uses the datagram socket of the last.       *)
LEMMA ReusesFacts ==
    ASSUME Typed, NEW t \in Tasks, Reuses(t)
    PROVE  GoesOn(t, "send", client.conn, me[t].got, me[t].error)
  <1>0. CallParts(t)
    BY CallTypes
  <1>1. me[t] \in Calls /\ "send" \in Labels /\ client.conn \in Conns \cup {NoConn}
    BY DEF Typed, Labels, Clients
  <1>2. me' = Changed(t, "send", client.conn, me[t].interrupted, me[t].part, me[t].got, me[t].error)
    BY <1>1 DEF Reuses, Calls, Changed, Typed
  <1>3. QED
    BY <1>0, <1>1, <1>2, ChangedCall DEF CallParts

(* What changes of a call that has written its request.                    *)
LEMMA SendsFacts ==
    ASSUME Typed, NEW t \in Tasks, NEW label \in Labels, NEW s \in Conns,
           Sends(t, label, s)
    PROVE  GoesOn(t, label, s, me[t].got, me[t].error)
  <1>0. CallParts(t)
    BY CallTypes
  <1>1. me[t] \in Calls
    BY DEF Typed
  <1>2. me' = Changed(t, label, s, me[t].interrupted, me[t].part, me[t].got, me[t].error)
    <2>1. me' = [me EXCEPT ![t].at = label, ![t].mine = s]
      BY DEF Sends
    <2>2. QED
      BY <1>1, <2>1 DEF Calls, Changed, Typed
  <1>3. QED
    BY <1>0, <1>1, <1>2, ChangedCall DEF CallParts

(* What changes of a call that goes on waiting.                            *)
LEMMA ContinuesFacts ==
    ASSUME Typed, NEW t \in Tasks, Continues(t)
    PROVE  GoesOn(t, "receive", me[t].mine, me[t].got, me[t].error)
  <1>0. CallParts(t)
    BY CallTypes
  <1>1. me[t] \in Calls /\ "receive" \in Labels
    BY DEF Typed, Labels, Suspended
  <1>2. CASE me[t].at = "drain"
    <2>1. me' = Changed(t, "receive", me[t].mine, FALSE, me[t].part, me[t].got, me[t].error)
      BY <1>1, <1>2 DEF Continues, Calls, Changed, Typed
    <2>2. QED
      BY <1>0, <1>1, <2>1, ChangedCall DEF CallParts
  <1>3. CASE me[t].at = "receive"
    <2>1. me' = Changed(t, "receive", me[t].mine, me[t].interrupted, TRUE, me[t].got, me[t].error)
      <3>1. me' = [me EXCEPT ![t].part = TRUE]
        BY <1>3 DEF Continues
      <3>2. [me[t] EXCEPT !.part = TRUE] =
              [me[t] EXCEPT !.at = "receive", !.mine = me[t].mine,
                 !.interrupted = me[t].interrupted, !.part = TRUE,
                 !.got = me[t].got, !.error = me[t].error]
        BY <1>1, <1>3 DEF Calls
      <3>3. QED
        BY <3>1, <3>2 DEF Changed
    <2>2. QED
      BY <1>0, <1>1, <2>1, ChangedCall DEF CallParts
  <1>4. QED
    BY <1>2, <1>3 DEF Continues

(* What changes of a call that has got something.                          *)
LEMMA TakesFacts ==
    ASSUME Typed, NEW t \in Tasks, NEW reply \in Replies, Takes(t, reply)
    PROVE  GoesOn(t, "accept", me[t].mine, reply, me[t].error)
  <1>0. CallParts(t)
    BY CallTypes
  <1>1. me[t] \in Calls /\ "accept" \in Labels
    BY DEF Typed, Labels, Suspended
  <1>2. me' = Changed(t, "accept", me[t].mine, me[t].interrupted, me[t].part, reply, me[t].error)
    BY <1>1 DEF Takes, Calls, Changed, Typed
  <1>3. QED
    BY <1>0, <1>1, <1>2, ChangedCall DEF CallParts

(* The word of a bit goes back: a call is at its beginning once more.      *)
LEMMA WriteBackFacts ==
    ASSUME Typed, NEW t \in Tasks, WriteBack(t)
    PROVE  /\ Keeps(t)
           /\ me'[t].at = "start" /\ me'[t].req = me[t].alters
           /\ me'[t].mine = NoConn /\ me'[t].got = NoReply
           /\ me'[t].error = me[t].error /\ me'[t].interrupted = FALSE
           /\ me'[t].outcome = me[t].outcome
           /\ running' = t /\ UNCHANGED admission
  <1> DEFINE c == [me[t] EXCEPT
                    !.at = "start", !.req = me[t].alters, !.part = FALSE,
                    !.mine = NoConn, !.got = NoReply, !.interrupted = FALSE]
  <1>1. me' = [me EXCEPT ![t] = c] /\ running' = t /\ UNCHANGED admission
    BY DEF WriteBack
  <1>2. me[t] \in Calls
    BY DEF Typed
  <1>3. c \in Calls
    BY <1>2, FreshFacts DEF Calls, Labels
  <1>4. /\ c.at = "start" /\ c.op = me[t].op /\ c.mine = NoConn
        /\ c.req = me[t].alters /\ c.alters = me[t].alters
        /\ c.got = NoReply /\ c.error = me[t].error
        /\ c.interrupted = FALSE /\ c.asked = me[t].asked
        /\ c.outcome = me[t].outcome
    BY <1>2 DEF Calls
  <1> HIDE DEF c
  <1>5. QED
    BY <1>1, <1>3, <1>4 DEF Typed, Keeps
-----------------------------------------------------------------------------
(* Every action of a call that has the turn is one of the moves.           *)
LEMMA FailsRetires ==
    ASSUME Typed, NEW t \in Tasks, NEW sent \in BOOLEAN,
           NEW error \in {"protocol", "transport", "timeout", "closed",
                          "cancelled", "notConnected", "AttributeError"},
           me[t].at \in {"start", "bind"} \/ InUse(t),
           Cost(me[t].op) > 0,
           sent <=> me[t].at \in {"drain", "receive", "accept"},
           error = "closed" => Adm!Invalidated,
           error = "cancelled" /\ ~Adm!Invalidated => Prompted(t),
           error = "AttributeError" => sent,
           client' = Retired,
           wire' = WithGone(wire, {client.conn, me[t].mine}),
           Finish(t, Classified(t, error, sent), sent),
           UNCHANGED peer
    PROVE  Moves(t)
  <1> DEFINE outcome == Classified(t, error, sent)
  <1>1. outcome = error \/ (outcome = "unknown" /\ Changing(t) /\ sent)
                        \/ (outcome = "closed" /\ Adm!Invalidated)
    BY DEF Classified
  <1>2. sent /\ Changing(t) => outcome \in {"unknown", "AttributeError"}
    <2>1. CASE error = "AttributeError"
      BY <2>1 DEF Classified
    <2>2. CASE error # "AttributeError" /\ Changing(t) /\ sent = TRUE
      BY <2>2 DEF Classified
    <2>3. QED
      BY <2>1, <2>2
  <1>3. outcome = "cancelled" => ~Adm!Invalidated /\ error = "cancelled"
    BY DEF Classified
  <1> HIDE DEF outcome
  <1>4. outcome \in Outcomes
    BY <1>1 DEF Outcomes
  <1>5. Retires(t, outcome, sent)
    <2>1. TrueEnd(t, outcome)
      BY <1>1, <1>3, <1>4 DEF TrueEnd
    <2>2. Finish(t, outcome, sent)
      BY DEF outcome
    <2>3. outcome # "ok" /\ (outcome = "unknown" => sent)
          /\ (~sent => outcome # "AttributeError")
      BY <1>1
    <2>4. QED
      BY <1>2, <2>1, <2>2, <2>3 DEF Retires
  <1>6. QED
    BY <1>4, <1>5 DEF Moves

(* Each action of a call in its turn is one of the moves.  First the end   *)
(* of a call that touches nothing.                                         *)
LEMMA LeavesMoves ==
    ASSUME NEW t \in Tasks, NEW outcome \in Outcomes, Leaves(t, outcome)
    PROVE  Moves(t)
  BY DEF Moves

(* connect() returns at once or begins an attempt.                         *)
LEMMA ConnectStartMoves ==
    ASSUME Typed, Connections, NEW t \in Tasks, ConnectStart(t)
    PROVE  Moves(t)
  <1>1. me[t].at = "start" /\ me[t].op = "connect" /\ UNCHANGED peer /\ client' = client
    BY DEF ConnectStart, Runs
  <1>2. CASE Connected
    <2>1. Leaves(t, "ok")
      BY <1>1, <1>2 DEF ConnectStart, Leaves, TrueEnd, Outcomes
    <2>2. QED
      BY <2>1, LeavesMoves DEF Outcomes
  <1>3. CASE ~Connected
    <2>1. Opens(t, "connecting")
      BY <1>1, <1>3 DEF ConnectStart, Opens, Connected
    <2>2. QED
      BY <2>1 DEF Moves, Labels, Suspended
  <1>4. QED
    BY <1>2, <1>3

(* An attempt that is given up is dropped, and perhaps awaited.            *)
LEMMA GiveUpMoves ==
    ASSUME Typed, NEW t \in Tasks, NEW error \in {"timeout", "cancelled"},
           me[t].at = "connecting", error = "cancelled" => me[t].interrupted,
           GiveUp(t, error), UNCHANGED <<client, peer>>
    PROVE  Moves(t)
  <1>1. wire' = WithGone(wire, {me[t].mine})
    BY DEF GiveUp
  <1>2. \/ \E label \in {"dispose_attempt", "dispose_late"} :
             /\ me' = [me EXCEPT ![t].at = label, ![t].error = error,
                                 ![t].interrupted = FALSE]
             /\ running' = NoTask
             /\ UNCHANGED admission
        \/ Finish(t, error, FALSE)
    BY DEF GiveUp
  <1>3. ASSUME NEW label \in {"dispose_attempt", "dispose_late"},
               me' = [me EXCEPT ![t].at = label, ![t].error = error,
                                ![t].interrupted = FALSE],
               running' = NoTask, UNCHANGED admission
        PROVE  Moves(t)
    <2>1. Awaits(t, label, error)
      BY <1>1, <1>3 DEF Awaits, Typed
    <2>2. QED
      BY <2>1 DEF Moves, Labels, Suspended
  <1>4. CASE Finish(t, error, FALSE)
    <2>1. GivesUp(t, error)
      BY <1>1, <1>4 DEF GivesUp, TrueEnd, Prompted, Outcomes
    <2>2. QED
      BY <2>1 DEF Moves, Outcomes
  <1>5. QED
    BY <1>2, <1>3, <1>4

(* An attempt that ends is adopted, refused or dropped.                    *)
LEMMA ConnectResumesMoves ==
    ASSUME Typed, NEW t \in Tasks, ConnectResumes(t)
    PROVE  Moves(t)
  <1>1. me[t].at = "connecting" /\ UNCHANGED peer /\ running = NoTask
    BY DEF ConnectResumes, At
  <1>2. CASE State(me[t].mine) = "open" /\ Adopt(t)
    <2>1. CASE ~Adm!Invalidated
      BY <1>1, <1>2, <2>1 DEF Adopt, Adopts, Moves
    <2>2. CASE Adm!Invalidated
      <3>1. wire' = WithGone(wire, {me[t].mine}) /\ client' = client
        BY <1>2, <2>2 DEF Adopt
      <3>2. CASE Transport = "udp"
        <4>1. GivesUp(t, "closed")
          BY <1>1, <1>2, <2>2, <3>1, <3>2 DEF Adopt, GivesUp, TrueEnd, Outcomes
        <4>2. QED
          BY <4>1 DEF Moves, Outcomes
      <3>3. CASE Transport # "udp"
        <4>1. me' = [me EXCEPT ![t].at = "dispose_retired", ![t].interrupted = FALSE]
              /\ running' = NoTask /\ UNCHANGED admission
          BY <1>2, <2>2, <3>3 DEF Adopt
        <4>2. me[t] \in Calls
          BY DEF Typed
        <4>3. [me[t] EXCEPT !.at = "dispose_retired", !.interrupted = FALSE] =
              [me[t] EXCEPT !.at = "dispose_retired", !.error = me[t].error,
                            !.interrupted = FALSE]
          BY <4>2 DEF Calls
        <4>4. me' = [me EXCEPT ![t] = [@ EXCEPT !.at = "dispose_retired",
                       !.error = me[t].error, !.interrupted = FALSE]]
          BY <4>1, <4>3 DEF Typed
        <4>5. Awaits(t, "dispose_retired", me[t].error)
          BY <1>1, <2>2, <3>1, <4>1, <4>4 DEF Awaits
        <4>6. me[t].error \in {"none", "timeout", "cancelled"}
          BY <4>2 DEF Calls
        <4>7. QED
          BY <4>5, <4>6 DEF Moves, Labels, Suspended
      <3>4. QED
        BY <3>2, <3>3
    <2>3. QED
      BY <2>1, <2>2
  <1>3. CASE State(me[t].mine) = "refused" /\ Finish(t, "transport", FALSE)
             /\ UNCHANGED <<client, wire>>
    <2>1. Leaves(t, "transport")
      BY <1>1, <1>3 DEF Leaves, TrueEnd, Outcomes
    <2>2. QED
      BY <2>1, LeavesMoves DEF Outcomes
  <1>4. CASE GiveUp(t, "timeout") /\ UNCHANGED client
    BY <1>1, <1>4, GiveUpMoves
  <1>5. CASE me[t].interrupted /\ GiveUp(t, "cancelled") /\ UNCHANGED client
    BY <1>1, <1>5, GiveUpMoves
  <1>6. CASE /\ wire' = WithGone(wire, {me[t].mine})
             /\ Finish(t, "transport", FALSE)
             /\ UNCHANGED client
    <2>1. GivesUp(t, "transport")
      BY <1>1, <1>6 DEF GivesUp, TrueEnd, Outcomes
    <2>2. QED
      BY <2>1 DEF Moves, Outcomes
  <1>7. QED
    BY <1>2, <1>3, <1>4, <1>5, <1>6 DEF ConnectResumes

(* The disposal of an attempt ends its call.                               *)
LEMMA DisposedMoves ==
    ASSUME Typed, Connections, Cancellations, NEW t \in Tasks, Disposed(t)
    PROVE  Moves(t)
  <1>1. Disposing(t) /\ UNCHANGED <<client, wire, peer>>
    BY DEF Disposed, Disposing, At
  <1>2. /\ me[t].at # "dispose_retired" => me[t].error # "none"
        /\ me[t].at = "dispose_retired" => Adm!Invalidated
        /\ me[t].error \in {"none", "timeout", "cancelled"}
    BY <1>1 DEF Cancellations, Connections, CallHasConnection, Typed, Calls
  <1>3. \E outcome \in Outcomes :
            /\ Finish(t, outcome, FALSE)
            /\ outcome \notin {"none", "ok", "plcError", "unknown", "AttributeError"}
            /\ outcome = "closed" => Adm!Invalidated
            /\ outcome \in {"cancelled", "CancelledError"} => Prompted(t)
    <2>1. CASE me[t].at \in {"dispose_attempt", "dispose_late"}
               /\ Finish(t, me[t].error, FALSE)
      BY <1>2, <2>1 DEF Outcomes, Prompted
    <2>2. CASE Finish(t, "OSError", FALSE)
      BY <2>2 DEF Outcomes
    <2>3. CASE me[t].interrupted /\ Finish(t, "CancelledError", FALSE)
      BY <2>3 DEF Outcomes, Prompted
    <2>4. CASE me[t].at = "dispose_retired" /\ Finish(t, "closed", FALSE)
      BY <1>2, <2>4 DEF Outcomes
    <2>5. CASE Finish(t, "transport", FALSE)
      BY <2>5 DEF Outcomes
    <2>6. CASE me[t].interrupted /\ Finish(t, "cancelled", FALSE)
      BY <2>6 DEF Outcomes, Prompted
    <2>7. QED
      BY <2>1, <2>2, <2>3, <2>4, <2>5, <2>6 DEF Disposed, At
  <1>4. PICK outcome \in Outcomes :
            /\ Finish(t, outcome, FALSE)
            /\ outcome \notin {"none", "ok", "plcError", "unknown", "AttributeError"}
            /\ outcome = "closed" => Adm!Invalidated
            /\ outcome \in {"cancelled", "CancelledError"} => Prompted(t)
    BY <1>3
  <1>5. Leaves(t, outcome)
    BY <1>1, <1>4 DEF Leaves, TrueEnd
  <1>6. QED
    BY <1>5, LeavesMoves

(* A request fails at its entry, is written, or gets a socket first.       *)
LEMMA RequestStartMoves ==
    ASSUME Typed, Control, Connections, NEW t \in Tasks, RequestStart(t)
    PROVE  Moves(t)
  <1>1. /\ me[t].at = "start" /\ Cost(me[t].op) > 0 /\ running = t
        /\ UNCHANGED peer
    BY DEF RequestStart, Runs
  <1>2. me[t].mine = NoConn /\ NoConn \notin Conns /\ client.conn \in Conns \cup {NoConn}
    BY <1>1 DEF Control, CallIsExact, Conns, NoConn, Typed, Clients
  <1>3. ~Adm!Invalidated \/ ~Connected
    BY DEF Connections, ClientIsExact, Disconnected, Connected
  <1>4. CASE ~Connected /\ Finish(t, "notConnected", FALSE)
             /\ UNCHANGED <<client, wire>>
    <2>1. Leaves(t, "notConnected")
      BY <1>1, <1>4 DEF Leaves, TrueEnd, Outcomes
    <2>2. QED
      BY <2>1, LeavesMoves DEF Outcomes
  <1>5. CASE Fails(t, "protocol", FALSE)
    <2>1. /\ client' = Retired /\ wire' = WithGone(wire, {client.conn, me[t].mine})
          /\ Finish(t, Classified(t, "protocol", FALSE), FALSE) /\ UNCHANGED peer
      BY <1>1, <1>5 DEF Fails
    <2>2. QED
      BY <1>1, <2>1, FailsRetires
  <1>6. CASE /\ Connected /\ Transport = "tcp"
             /\ ~UnownedInput(client.conn)
             /\ wire' = [wire EXCEPT ![client.conn].checked = me[t].req,
                                     ![client.conn].flight = @ \cup {me[t].req}]
             /\ me' = [me EXCEPT ![t].at = "drain", ![t].mine = client.conn]
             /\ running' = NoTask
             /\ UNCHANGED <<admission, client>>
    <2>1. client.conn # NoConn
      BY <1>6 DEF Connections, ClientIsExact, Connected
    <2>2. Sends(t, "drain", client.conn)
      BY <1>1, <1>6, <2>1 DEF Sends, UnownedInput
    <2>3. QED
      BY <1>2, <2>1, <2>2 DEF Moves, Labels, Suspended
  <1>7. CASE /\ Connected /\ Transport = "udp" /\ client.conn # NoConn
             /\ me' = [me EXCEPT ![t].at = "send", ![t].mine = client.conn]
             /\ UNCHANGED <<admission, running, client, wire>>
    BY <1>1, <1>7 DEF Reuses, Moves
  <1>8. CASE /\ Connected /\ Transport = "udp" /\ client.conn = NoConn
             /\ wire' = [wire EXCEPT ![NextConn].state = "opening"]
             /\ me' = [me EXCEPT ![t].at = "bind", ![t].mine = NextConn]
             /\ running' = NoTask
             /\ UNCHANGED <<admission, client>>
    <2>1. ~(me[t].op = "bit" /\ Changing(t))
      BY <1>1, <1>8 DEF Connections, CallHasConnection
    <2>2. client.udpConnected
      BY <1>8 DEF Connected
    <2>3. Opens(t, "bind")
      BY <1>1, <1>8, <2>1, <2>2 DEF Opens
    <2>4. QED
      BY <2>3 DEF Moves, Labels, Suspended
  <1>9. QED
    BY <1>4, <1>5, <1>6, <1>7, <1>8 DEF RequestStart

(* The datagram socket is the client's, or the call ends.                  *)
LEMMA BindResumesMoves ==
    ASSUME Typed, Control, Connections, NEW t \in Tasks, BindResumes(t)
    PROVE  Moves(t)
  <1>1. me[t].at = "bind" /\ running = NoTask /\ UNCHANGED peer
    BY DEF BindResumes, At
  <1>2. /\ Cost(me[t].op) > 0 /\ client.conn = NoConn /\ NoConn \notin Conns
    BY <1>1 DEF Control, CallIsExact, Connections, CallHasConnection, Trying,
                Conns, NoConn
  <1>3. CASE /\ State(me[t].mine) = "open" /\ ~Adm!Invalidated
             /\ client' = [client EXCEPT !.conn = me[t].mine]
             /\ me' = [me EXCEPT ![t].at = "send", ![t].interrupted = FALSE]
             /\ running' = t
             /\ UNCHANGED <<admission, wire>>
    BY <1>1, <1>3 DEF Binds, Moves
  <1>4. ASSUME NEW error \in {"closed", "transport", "timeout", "cancelled"},
               client' = Retired, wire' = WithGone(wire, {me[t].mine}),
               Finish(t, Classified(t, error, FALSE), FALSE),
               error = "closed" => Adm!Invalidated,
               error = "cancelled" => me[t].interrupted
        PROVE  Moves(t)
    <2>1. WithGone(wire, {me[t].mine}) = WithGone(wire, {client.conn, me[t].mine})
      BY <1>2 DEF WithGone
    <2>2. error = "cancelled" => Prompted(t)
      BY <1>4 DEF Prompted
    <2>3. QED
      BY <1>1, <1>2, <1>4, <2>1, <2>2, FailsRetires
  <1>5. QED
    BY <1>3, <1>4 DEF BindResumes

(* The datagram is sent, or the socket is found unfit for it.              *)
LEMMA SendDatagramMoves ==
    ASSUME Typed, Control, Connections, NEW t \in Tasks, SendDatagram(t)
    PROVE  Moves(t)
  <1>1. /\ me[t].at = "send" /\ running = t /\ UNCHANGED peer
    BY DEF SendDatagram, Runs
  <1>2. /\ Cost(me[t].op) > 0 /\ Transport = "udp" /\ me[t].mine \in Conns /\ InUse(t)
    BY <1>1 DEF Control, CallIsExact, Connections, CallHasConnection, InUse
  <1>3. ASSUME NEW error \in {"protocol", "transport"}, Fails(t, error, FALSE)
        PROVE  Moves(t)
    <2>1. /\ client' = Retired /\ wire' = WithGone(wire, {client.conn, me[t].mine})
          /\ Finish(t, Classified(t, error, FALSE), FALSE) /\ UNCHANGED peer
      BY <1>1, <1>3 DEF Fails
    <2>2. QED
      BY <1>1, <1>2, <2>1, FailsRetires
  <1>4. CASE /\ wire' = [wire EXCEPT ![me[t].mine].checked = me[t].req,
                                     ![me[t].mine].flight = @ \cup {me[t].req},
                                     ![me[t].mine].response = "pending",
                                     ![me[t].mine].held = TRUE]
             /\ me' = [me EXCEPT ![t].at = "receive"]
             /\ running' = NoTask
             /\ UNCHANGED <<admission, client>>
    <2>1. me[t] \in Calls
      BY DEF Typed
    <2>2. [me[t] EXCEPT !.at = "receive"] =
          [me[t] EXCEPT !.at = "receive", !.mine = me[t].mine]
      BY <2>1 DEF Calls
    <2>3. me' = [me EXCEPT ![t].at = "receive", ![t].mine = me[t].mine]
      BY <1>4, <2>2 DEF Typed
    <2>4. Sends(t, "receive", me[t].mine)
      BY <1>1, <1>2, <1>4, <2>3 DEF Sends
    <2>5. QED
      BY <1>2, <2>4 DEF Moves, Labels, Suspended
  <1>5. QED
    BY <1>3, <1>4 DEF SendDatagram, UnownedErrors

(* drain() returns, or its error ends the call.                            *)
LEMMA DrainEndsMoves ==
    ASSUME Typed, Control, NEW t \in Tasks, DrainEnds(t)
    PROVE  Moves(t)
  <1>1. me[t].at = "drain" /\ UNCHANGED peer /\ running = NoTask
    BY DEF DrainEnds, At
  <1>2. Cost(me[t].op) > 0 /\ InUse(t)
    BY <1>1 DEF Control, CallIsExact, InUse
  <1>3. CASE /\ me' = [me EXCEPT ![t].at = "receive", ![t].interrupted = FALSE]
             /\ UNCHANGED <<admission, running, client, wire>>
    BY <1>1, <1>3 DEF Continues, Moves
  <1>4. ASSUME NEW error \in {"timeout", "transport", "cancelled"},
               Fails(t, error, TRUE), error = "cancelled" => me[t].interrupted
        PROVE  Moves(t)
    BY <1>1, <1>2, <1>4, FailsRetires DEF Fails, Prompted
  <1>5. QED
    BY <1>3, <1>4 DEF DrainEnds

(* Something is received, or an error of the wait ends the call.           *)
LEMMA ReceiveMoves ==
    ASSUME Typed, Control, Connections, Responses, AnswersWereAsked,
           NEW t \in Tasks,
           ReceivePart(t) \/ ReceiveLine(t) \/ ReceiveDatagram(t) \/ ReceiveFails(t)
    PROVE  Moves(t)
  <1>1. me[t].at = "receive" /\ UNCHANGED peer /\ running = NoTask
    BY DEF ReceivePart, ReceiveLine, ReceiveDatagram, ReceiveFails, At
  <1>2. /\ Cost(me[t].op) > 0 /\ InUse(t) /\ me[t].mine \in Conns
        /\ client.conn = NoConn => Adm!Invalidated
    BY <1>1 DEF Control, CallIsExact, Connections, CallHasConnection, InUse, Conns, NoConn
  <1>3. ASSUME NEW error \in {"timeout", "transport", "cancelled", "protocol",
                              "notConnected", "AttributeError"},
               Fails(t, error, TRUE), error = "cancelled" => Adm!Invalidated \/ Prompted(t)
        PROVE  Moves(t)
    BY <1>1, <1>2, <1>3, FailsRetires DEF Fails
  <1>4. CASE ReceivePart(t)
    <2>1. CASE client.conn = NoConn
      BY <1>3, <1>4, <2>1 DEF ReceivePart
    <2>2. CASE client.conn # NoConn
      BY <1>1, <1>4, <2>2 DEF ReceivePart, Continues, Moves
    <2>3. QED
      BY <2>1, <2>2
  <1>5. CASE ReceiveLine(t)
    <2> DEFINE lines == wire[me[t].mine].inbox
    <2>1. CASE Fails(t, "protocol", TRUE)
      BY <1>3, <2>1
    <2>2. CASE ~Fails(t, "protocol", TRUE)
      <3>1. lines # <<>> /\ Transport = "tcp"
            /\ wire' = [wire EXCEPT ![me[t].mine].inbox = Tail(@)]
            /\ me' = [me EXCEPT ![t].at = "accept", ![t].got = Head(lines)]
            /\ UNCHANGED <<admission, running, client>>
        BY <1>5, <2>2 DEF ReceiveLine
      <3>2. lines \in Seq(Answers)
        BY <1>2 DEF Typed, Links
      <3>3. Head(lines) \in Answers
        BY <3>1, <3>2
      <3>4. Head(lines) \in Replies
        BY <3>3 DEF Answers, Replies
      <3>5. Takes(t, Head(lines))
        BY <1>1, <3>1 DEF Takes
      <3>6. QED
        BY <3>4, <3>5 DEF Moves
    <2>3. QED
      BY <2>1, <2>2
  <1>6. CASE ReceiveDatagram(t)
    <2>1. wire[me[t].mine].reply \in Replies
      BY <1>2 DEF Typed, Links
    <2>2. Takes(t, wire[me[t].mine].reply)
      BY <1>1, <1>6 DEF ReceiveDatagram, Takes
    <2>3. QED
      BY <2>1, <2>2 DEF Moves
  <1>7. CASE ReceiveFails(t)
    <2>1. me[t].interrupted => Prompted(t)
      BY DEF Prompted
    <2>2. wire[me[t].mine].response = "cancelled" => Adm!Invalidated \/ Prompted(t)
      BY <1>1 DEF Prompted
    <2>3. QED
      BY <1>3, <1>7, <2>1, <2>2 DEF ReceiveFails
  <1>8. QED
    BY <1>4, <1>5, <1>6, <1>7

(* The response is accepted or refused.                                    *)
LEMMA AcceptMoves ==
    ASSUME Typed, Control, Connections, Responses, AnswersWereAsked,
           NEW t \in Tasks, Accept(t)
    PROVE  Moves(t)
  <1>1. me[t].at = "accept" /\ UNCHANGED peer /\ running = NoTask
    BY DEF Accept, At
  <1>2. Cost(me[t].op) > 0 /\ InUse(t) /\ me[t].got.kind \in Kinds
    BY <1>1 DEF Control, CallIsExact, InUse, AnswersWereAsked
  <1>3. ASSUME NEW error \in {"timeout", "transport", "cancelled", "protocol", "closed"},
               Fails(t, error, TRUE), error = "cancelled" => Prompted(t),
               error = "closed" => Adm!Invalidated
        PROVE  Moves(t)
    BY <1>1, <1>2, <1>3, FailsRetires DEF Fails
  <1>4. ASSUME NEW error \in AcceptErrors(t), Fails(t, error, TRUE) PROVE Moves(t)
    <2>1. error \in {"timeout", "transport", "protocol", "closed"}
      BY DEF AcceptErrors, AcceptErrorsWithoutClose, UnownedErrors
    <2>2. error = "closed" => Adm!Invalidated
      BY DEF AcceptErrors, AcceptErrorsWithoutClose, UnownedErrors
    <2>3. QED
      BY <1>3, <1>4, <2>1, <2>2
  <1>5. CASE me[t].interrupted /\ Fails(t, "cancelled", TRUE)
    BY <1>3, <1>5 DEF Prompted
  <1>6. ASSUME AcceptErrors(t) \cap {"protocol", "closed"} = {},
               client' = [client EXCEPT
                  !.conn = IF Transport = "udp" THEN me[t].mine ELSE @,
                  !.monitor = IF me[t].op = "register" /\ me[t].got.kind = "ok"
                             THEN me[t].mine ELSE @],
               wire' = [wire EXCEPT ![me[t].mine].held = FALSE,
                                    ![me[t].mine].response = "none",
                                    ![me[t].mine].reply = NoReply],
               IF me[t].op = "bit" /\ ~Changing(t) /\ me[t].got.kind = "ok"
                 THEN WriteBack(t) ELSE Finish(t, me[t].got.kind, TRUE)
        PROVE  Moves(t)
    <2>1. "closed" \notin AcceptErrors(t) /\ "protocol" \notin AcceptErrors(t)
      BY <1>6
    <2>2. ~Adm!Invalidated /\ me[t].got.kind \notin {"framing", "decoding"}
      BY <2>1 DEF AcceptErrors, AcceptErrorsWithoutClose
    <2>3. me[t].got.kind \in {"ok", "plcError"}
      BY <1>2, <2>2 DEF Kinds
    <2>4. Accepts(t)
      BY <1>1, <1>6, <2>2, <2>3 DEF Accepts
    <2>5. QED
      BY <2>4 DEF Moves
  <1>7. QED
    BY <1>1, <1>4, <1>5, <1>6 DEF Accept

(* What the event loop does for a call in its turn is a move.              *)
LEMMA ProceedMoves ==
    ASSUME IInv, NEW t \in Tasks, Proceed(t), ~Resumed(t)
    PROVE  Moves(t)
  BY ConnectStartMoves, ConnectResumesMoves, DisposedMoves, RequestStartMoves,
     BindResumesMoves, SendDatagramMoves, DrainEndsMoves, ReceiveMoves,
     AcceptMoves DEF Proceed, IInv
-----------------------------------------------------------------------------
(* What a step does to a connection, field by field.                       *)
SameButState(s) ==
    /\ wire'[s].inbox = wire[s].inbox /\ wire'[s].pending = wire[s].pending
    /\ wire'[s].checked = wire[s].checked /\ wire'[s].response = wire[s].response
    /\ wire'[s].reply = wire[s].reply /\ wire'[s].flight = wire[s].flight

(* Only connection s changes.                                              *)
Rewires(s) ==
    /\ wire' \in [Conns -> Links]
    /\ \A u \in Conns \ {s} : wire'[u] = wire[u]

(* Another state of a connection is all that changes of it.                *)
LEMMA StateFacts ==
    ASSUME Typed, NEW s \in Conns, NEW state \in {"opening", "open", "refused"},
           wire' = [wire EXCEPT ![s].state = state]
    PROVE  Rewires(s) /\ wire'[s].state = state /\ SameButState(s)
  <1> DEFINE c == [wire[s] EXCEPT !.state = state]
  <1>1. wire[s] \in Links
    BY DEF Typed
  <1>2. c \in Links /\ c.state = state
        /\ c.inbox = wire[s].inbox /\ c.pending = wire[s].pending
        /\ c.checked = wire[s].checked /\ c.response = wire[s].response
        /\ c.reply = wire[s].reply /\ c.flight = wire[s].flight
    BY <1>1 DEF Links
  <1>3. wire' = [wire EXCEPT ![s] = c]
    OBVIOUS
  <1> HIDE DEF c
  <1>4. QED
    BY <1>2, <1>3 DEF Typed, Rewires, SameButState

(* What a request that is written does to its connection.                  *)
LEMMA SendsWire ==
    ASSUME Typed, NEW t \in Tasks, NEW label \in Labels, NEW s \in Conns,
           Sends(t, label, s), me[t].req \in 1..MaxRequests
    PROVE  /\ Rewires(s)
           /\ wire'[s].state = wire[s].state /\ wire'[s].inbox = wire[s].inbox
           /\ wire'[s].checked = me[t].req /\ wire'[s].reply = wire[s].reply
           /\ wire'[s].response = IF label = "drain" THEN wire[s].response ELSE "pending"
           /\ wire'[s].pending = wire[s].pending
           /\ wire'[s].flight = wire[s].flight \cup {me[t].req}
  <1>1. PICK r \in 1..MaxRequests : r = me[t].req
    OBVIOUS
  <1>2. PICK b \in Links : b = wire[s]
    BY DEF Typed
  <1>3. r \in Nat
    BY <1>1
  <1>4. CASE label = "drain"
    <2>1. PICK c : c = [b EXCEPT !.checked = r, !.flight = @ \cup {r}]
      OBVIOUS
    <2>2. wire' = [wire EXCEPT ![s] = c]
      BY <1>1, <1>2, <1>4, <2>1 DEF Sends, Typed
    <2>3. /\ c \in Links /\ c.state = b.state /\ c.inbox = b.inbox
          /\ c.checked = r /\ c.reply = b.reply /\ c.pending = b.pending
          /\ c.response = b.response /\ c.flight = b.flight \cup {r}
      BY <1>1, <1>2, <1>3, <2>1 DEF Links
    <2>4. Rewires(s) /\ wire'[s] = c
      BY <2>2, <2>3 DEF Typed, Rewires
    <2>5. QED
      BY <1>1, <1>2, <1>4, <2>3, <2>4
  <1>5. CASE label # "drain"
    <2>1. PICK c : c = [b EXCEPT !.checked = r, !.flight = @ \cup {r},
                                 !.response = "pending", !.held = TRUE]
      OBVIOUS
    <2>2. wire' = [wire EXCEPT ![s] = c]
      BY <1>1, <1>2, <1>5, <2>1 DEF Sends, Typed
    <2>3. /\ c \in Links /\ c.state = b.state /\ c.inbox = b.inbox
          /\ c.checked = r /\ c.reply = b.reply /\ c.pending = b.pending
          /\ c.response = "pending" /\ c.flight = b.flight \cup {r}
      BY <1>1, <1>2, <1>3, <2>1 DEF Links
    <2>4. Rewires(s) /\ wire'[s] = c
      BY <2>2, <2>3 DEF Typed, Rewires
    <2>5. QED
      BY <1>1, <1>2, <1>5, <2>3, <2>4
  <1>6. QED
    BY <1>4, <1>5

(* What a response that is taken does to its connection.                   *)
LEMMA TakesWire ==
    ASSUME Typed, NEW s \in Conns, wire[s].inbox # <<>>,
           wire' = [wire EXCEPT ![s].inbox = Tail(@)]
    PROVE  /\ Rewires(s)
           /\ wire'[s].state = wire[s].state /\ wire'[s].inbox = Tail(wire[s].inbox)
           /\ wire'[s].pending = wire[s].pending /\ wire'[s].flight = wire[s].flight
           /\ wire'[s].response = wire[s].response /\ wire'[s].reply = wire[s].reply
  <1> DEFINE rest == Tail(wire[s].inbox)
             c == [wire[s] EXCEPT !.inbox = rest]
  <1>1. wire[s] \in Links /\ wire' = [wire EXCEPT ![s] = c]
    BY DEF Typed
  <1>2. rest \in Seq(Answers)
    BY <1>1 DEF Links
  <1> HIDE DEF rest
  <1>3. c \in Links /\ c.state = wire[s].state /\ c.inbox = rest
        /\ c.pending = wire[s].pending /\ c.flight = wire[s].flight
        /\ c.response = wire[s].response /\ c.reply = wire[s].reply
    BY <1>1, <1>2 DEF Links
  <1> HIDE DEF c
  <1>4. QED
    BY <1>1, <1>3 DEF Typed, Rewires, rest

(* What a response that is accepted does to its connection.                *)
LEMMA AcceptsWire ==
    ASSUME Typed, NEW s \in Conns,
           wire' = [wire EXCEPT ![s].held = FALSE, ![s].response = "none",
                                ![s].reply = NoReply]
    PROVE  /\ Rewires(s)
           /\ wire'[s].state = wire[s].state /\ wire'[s].inbox = wire[s].inbox
           /\ wire'[s].pending = wire[s].pending /\ wire'[s].response = "none"
           /\ wire'[s].flight = wire[s].flight
  <1> DEFINE c == [wire[s] EXCEPT !.held = FALSE, !.response = "none",
                                  !.reply = NoReply]
  <1>1. wire[s] \in Links
    BY DEF Typed
  <1>2. c \in Links /\ c.state = wire[s].state /\ c.inbox = wire[s].inbox
        /\ c.pending = wire[s].pending /\ c.response = "none"
        /\ c.flight = wire[s].flight
    BY <1>1, FreshFacts DEF Links
  <1>3. wire' = [wire EXCEPT ![s] = c]
    BY DEF Typed
  <1> HIDE DEF c
  <1>4. QED
    BY <1>2, <1>3 DEF Typed, Rewires

(* close() empties nothing that was received, but nothing more arrives.    *)
LEMMA ClosesWire ==
    ASSUME Typed, NEW s, wire' = WithClosed(wire, {s})
    PROVE  /\ Rewires(s)
           /\ s \in Conns =>
                /\ wire'[s].state = "closed" /\ wire'[s].pending = {}
                /\ wire'[s].inbox = wire[s].inbox
                /\ wire'[s].checked = wire[s].checked
                /\ wire'[s].reply = wire[s].reply
                /\ wire'[s].flight = wire[s].flight
                /\ wire'[s].response = "done" => wire[s].response = "done"
  <1> DEFINE c == Closed(wire[s])
             answer == IF wire[s].held /\ wire[s].response = "pending"
                         THEN "cancelled" ELSE wire[s].response
  <1>1. CASE s \in Conns
    <2>1. wire[s] \in Links
      BY <1>1 DEF Typed
    <2>2. answer \in {"none", "pending", "done", "cancelled"}
          /\ (answer = "done" => wire[s].response = "done")
      BY <2>1 DEF Links
    <2>3. c = [wire[s] EXCEPT !.state = "closed", !.pending = {}, !.eof = FALSE,
                              !.response = answer, !.held = FALSE]
      BY <2>1 DEF Closed, Links
    <2> HIDE DEF answer
    <2>4. c \in Links /\ c.state = "closed" /\ c.pending = {}
          /\ c.inbox = wire[s].inbox /\ c.checked = wire[s].checked
          /\ c.reply = wire[s].reply /\ c.response = answer
          /\ c.flight = wire[s].flight
      BY <2>1, <2>2, <2>3 DEF Links
    <2>5. wire' = [u \in Conns |-> IF u = s THEN c ELSE wire[u]]
      BY DEF WithClosed
    <2> HIDE DEF c
    <2>6. QED
      BY <1>1, <2>2, <2>4, <2>5 DEF Typed, Rewires
  <1>2. CASE s \notin Conns
    BY <1>2 DEF Typed, Rewires, WithClosed
  <1>3. QED
    BY <1>1, <1>2
-----------------------------------------------------------------------------
(* What a step that only shortens the queue and sends nothing keeps.       *)
SameNumbers ==
    \A u \in Tasks : me'[u].req = me[u].req /\ me'[u].alters = me[u].alters

(* The PLC has, or may still get, the same requests.                       *)
SameRequests == \A r : (Got(r)' <=> Got(r)) /\ (Sent(r)' <=> Sent(r))

(* So it is when nothing is sent and nothing arrives.                      *)
LEMMA RequestsStay ==
    ASSUME received' = received,
           \A s \in Conns : wire'[s].flight = wire[s].flight
    PROVE  SameRequests
  <1>1. \A r : Got(r)' <=> Got(r)
    BY DEF Got
  <1>2. \A r : Sent(r)' <=> Sent(r)
    BY <1>1 DEF Sent
  <1>3. QED
    BY <1>1, <1>2 DEF SameRequests

(* The elements of a sequence are of its set.                              *)
LEMMA SequenceElements ==
    ASSUME NEW S, NEW q \in Seq(S)
    PROVE  /\ DOMAIN q = 1..Len(q) /\ Len(q) \in Nat
           /\ \A k \in 1..Len(q) : q[k] \in S
  OBVIOUS

(* What the PLC has got are numbers of requests.                           *)
LEMMA ReceivedFacts ==
    ASSUME Typed
    PROVE  \A k \in DOMAIN received :
             k \in Nat /\ received[k] \in 1..MaxRequests /\ received[k] \in Nat
  <1>1. received \in Seq(1..MaxRequests)
    BY DEF Typed
  <1>2. DOMAIN received = 1..Len(received) /\ Len(received) \in Nat
    BY <1>1
  <1>3. \A k \in 1..Len(received) : received[k] \in 1..MaxRequests
    BY <1>1, SequenceElements, Zenon
  <1>4. ASSUME NEW k \in 1..Len(received)
        PROVE  k \in Nat /\ received[k] \in 1..MaxRequests /\ received[k] \in Nat
    <2>1. k \in Nat
      BY <1>2
    <2>2. received[k] \in 1..MaxRequests
      BY <1>3
    <2>3. \A n \in 1..MaxRequests : n \in Nat
      BY ClientAssumption
    <2>4. QED
      BY <2>1, <2>2, <2>3
  <1>5. QED
    BY <1>2, <1>4

(* The calls stay in order when the queue keeps some of its tickets, in    *)
(* their order, and the first of those that go may get the turn.           *)
LEMMA OrderedShrinks ==
    ASSUME IInv, SameNumbers, requests' \in Nat, requests' >= requests,
           \A r \in Nat : Sent(r)' => Sent(r),
           Len(queue') \in Nat,
           NEW f \in [1..Len(queue') -> 1..Len(queue)],
           \A i, j \in 1..Len(queue') : i < j => f[i] < f[j],
           \A i \in 1..Len(queue') : queue'[i] = queue[f[i]],
           \/ owner' \in {owner, NoTask}
           \/ /\ 1 \in 1..Len(queue) /\ owner' = queue[1]
              /\ \A i \in 1..Len(queue') : 1 < f[i],
           \A u \in Tasks : InLine(u)' /\ me[u].req # 0 => InLine(u) /\ (Unsent(u)' => Unsent(u))
    PROVE  Ordered'
  <1>0. Ordered /\ requests \in Nat
    BY DEF IInv, Typed
  <1>1. /\ queue \in Seq(Tasks) /\ owner \in Tasks \cup {NoTask}
        /\ \A i \in 1..Len(queue) : queue[i] \in Tasks
    BY DEF IInv, Admission, Adm!TypeOK
  <1>2. \A t, u \in Tasks : Before(t, u)' <=> Before(t, u)
    BY DEF SameNumbers, Before
  <1>3. \A t, u \in Tasks : t # u /\ me'[t].alters # 0 =>
          me'[t].alters # me'[u].req /\ me'[t].alters # me'[u].alters
    BY <1>0 DEF SameNumbers, Ordered
  <1>4. ASSUME NEW i \in 1..Len(queue'), NEW j \in 1..Len(queue'), i < j
        PROVE  Before(queue[i], queue[j])'
    <2>1. f[i] \in 1..Len(queue) /\ f[j] \in 1..Len(queue) /\ f[i] < f[j]
      BY <1>4
    <2>2. Before(queue[f[i]], queue[f[j]])
      BY <1>0, <2>1 DEF Ordered
    <2>3. queue'[i] = queue[f[i]] /\ queue'[j] = queue[f[j]]
          /\ queue'[i] \in Tasks /\ queue'[j] \in Tasks
      BY <1>1, <2>1
    <2>4. Before(queue'[i], queue'[j])
      BY <2>2, <2>3
    <2>5. QED
      BY <2>3, <2>4 DEF Before, SameNumbers
  <1>5. ASSUME owner' # NoTask, NEW j \in 1..Len(queue')
        PROVE  Before(owner, queue[j])'
    <2>1. f[j] \in 1..Len(queue) /\ queue'[j] = queue[f[j]] /\ queue'[j] \in Tasks
      BY <1>1
    <2>2. owner' \in Tasks /\ Before(owner', queue'[j])
      <3>1. CASE owner' = owner
        BY <1>0, <1>1, <1>5, <2>1, <3>1 DEF Ordered
      <3>2. CASE 1 \in 1..Len(queue) /\ owner' = queue[1] /\ 1 < f[j]
        BY <1>0, <1>1, <2>1, <3>2 DEF Ordered
      <3>3. QED
        BY <1>5, <3>1, <3>2
    <2>3. QED
      BY <2>1, <2>2 DEF Before, SameNumbers
  <1>6. ASSUME NEW u \in Tasks, NEW r \in Nat, InLine(u)', me'[u].req # 0, Sent(r)'
        PROVE  r <= me'[u].req /\ (Unsent(u)' => r < me'[u].req)
    <2>1. me'[u].req = me[u].req
      BY DEF SameNumbers
    <2>2. InLine(u) /\ (Unsent(u)' => Unsent(u)) /\ Sent(r)
      BY <1>6, <2>1
    <2>3. r <= me[u].req /\ (Unsent(u) => r < me[u].req)
      BY <1>0, <1>6, <2>1, <2>2 DEF Ordered
    <2>4. QED
      BY <2>1, <2>2, <2>3
  <1>7. \A r \in Nat : Sent(r)' => r <= requests'
    <2>1. \A r \in Nat : Sent(r) => r <= requests
      BY <1>0 DEF Ordered
    <2>2. QED
      BY <1>0, <2>1
  <1>8. QED
    BY <1>3, <1>4, <1>5, <1>6, <1>7 DEF Ordered

(* Nobody loses the place in the queue: the same tickets, or all but the   *)
(* first, which gets the turn.                                             *)
LEMMA OrderedHandOver ==
    ASSUME IInv, NEW t \in Tasks, SameNumbers, UNCHANGED requests,
           \A r \in Nat : Sent(r)' => Sent(r),
           \A u \in Tasks \ {t} : me'[u] = me[u],
           Admission', owner = t, owner' # t, pc' = [pc EXCEPT ![t] = "outside"],
           \/ queue = <<>> /\ queue' = <<>> /\ owner' = NoTask
           \/ queue # <<>> /\ queue' = Tail(queue) /\ owner' = Head(queue)
    PROVE  Ordered'
  <1>1. /\ Admission' /\ owner = t /\ owner' # t
        /\ pc' = [pc EXCEPT ![t] = "outside"]
        /\ \/ queue = <<>> /\ queue' = <<>> /\ owner' = NoTask
           \/ queue # <<>> /\ queue' = Tail(queue) /\ owner' = Head(queue)
    OBVIOUS
  <1>2. queue \in Seq(Tasks) /\ queue' \in Seq(Tasks) /\ pc \in [Tasks -> {"outside", "waiting", "inside"}]
    BY <1>1 DEF IInv, Admission, Adm!TypeOK
  <1>3. ~Adm!Queued(t)'
    BY <1>1, <1>2 DEF Admission, Adm!QueueIsExact
  <1>4. requests' \in Nat /\ requests' >= requests
    BY DEF IInv, Typed
  <1>5. CASE queue = <<>>
    <2> DEFINE f == [i \in 1..0 |-> i]
    <2>1. Len(queue') = 0 /\ 1..Len(queue') = {} /\ Len(queue) = 0
      BY <1>1, <1>5
    <2>2. f \in [1..Len(queue') -> 1..Len(queue)]
      BY <2>1
    <2>3. \A u \in Tasks : ~InLine(u)'
      BY <1>1, <1>5, <2>1, TurnAssumption DEF InLine, Adm!Queued
    <2> HIDE DEF f
    <2>4. QED
      BY <1>1, <1>4, <1>5, <2>1, <2>2, <2>3, OrderedShrinks
  <1>6. CASE queue # <<>>
    <2> DEFINE f == [i \in 1..Len(queue') |-> i + 1]
    <2>1. /\ Len(queue) \in Nat /\ Len(queue') = Len(queue) - 1 /\ Len(queue') \in Nat
          /\ Head(queue) = queue[1] /\ 1 \in 1..Len(queue)
          /\ \A i \in 1..Len(queue') : queue'[i] = queue[i + 1] /\ i + 1 \in 1..Len(queue)
      BY <1>1, <1>2, <1>6
    <2>2. /\ f \in [1..Len(queue') -> 1..Len(queue)]
          /\ \A i \in 1..Len(queue') : f[i] = i + 1
      BY <2>1
    <2>3. /\ \A i, j \in 1..Len(queue') : i < j => f[i] < f[j]
          /\ \A i \in 1..Len(queue') : 1 < f[i] /\ queue'[i] = queue[f[i]]
      BY <2>1, <2>2
    <2>4. ASSUME NEW u \in Tasks, InLine(u)'
          PROVE  InLine(u) /\ (Unsent(u)' => Unsent(u))
      <3>1. u # t
        BY <1>1, <1>3, <2>4 DEF InLine
      <3>2. Adm!Queued(u)
        <4>1. CASE owner' = u
          BY <1>1, <1>6, <2>1, <4>1 DEF Adm!Queued
        <4>2. CASE Adm!Queued(u)'
          <5>1. PICK i \in 1..Len(queue') : queue'[i] = u
            BY <4>2 DEF Adm!Queued
          <5>2. queue[i + 1] = u /\ i + 1 \in 1..Len(queue)
            BY <2>1, <5>1
          <5>3. QED
            BY <5>2 DEF Adm!Queued
        <4>3. QED
          BY <2>4, <4>1, <4>2 DEF InLine
      <3>3. QED
        BY <3>1, <3>2 DEF InLine, Unsent
    <2> HIDE DEF f
    <2>5. QED
      BY <1>1, <1>4, <1>6, <2>1, <2>2, <2>3, <2>4, OrderedShrinks
  <1>7. QED
    BY <1>5, <1>6

(* The calls stay in order when one of them ends.                          *)
LEMMA OrderedExit ==
    ASSUME IInv, NEW t \in Tasks, Adm!Exit(t), SameNumbers,
           UNCHANGED requests, \A r \in Nat : Sent(r)' => Sent(r),
           \A u \in Tasks \ {t} : me'[u] = me[u]
    PROVE  Ordered'
  BY ExitFacts, OrderedHandOver DEF IInv

(* The queue stays as it is.                                               *)
LEMMA OrderedStays ==
    ASSUME IInv, SameNumbers, UNCHANGED <<requests, queue, owner>>,
           \A r \in Nat : Sent(r)' => Sent(r),
           \A u \in Tasks : me[u].req # 0 => (Unsent(u)' => Unsent(u))
    PROVE  Ordered'
  <1> DEFINE f == [i \in 1..Len(queue) |-> i]
  <1>1. Len(queue) \in Nat
    BY DEF IInv, Admission, Adm!TypeOK
  <1>2. /\ f \in [1..Len(queue') -> 1..Len(queue)]
        /\ \A i \in 1..Len(queue') : f[i] = i
    BY <1>1
  <1>3. /\ \A i, j \in 1..Len(queue') : i < j => f[i] < f[j]
        /\ \A i \in 1..Len(queue') : queue'[i] = queue[f[i]]
    BY <1>2
  <1>4. requests' \in Nat /\ requests' >= requests
    BY DEF IInv, Typed
  <1>5. \A u \in Tasks : InLine(u)' => InLine(u)
    BY DEF InLine, Adm!Queued
  <1> HIDE DEF f
  <1>6. QED
    BY <1>1, <1>2, <1>3, <1>4, <1>5, OrderedShrinks

(* Who sends nothing keeps what is known of the requests the PLC has.      *)
LEMMA UpdatesStay ==
    ASSUME Updates, SameNumbers, SameRequests, repeats' = repeats,
           \A u \in Tasks : me'[u].op = me[u].op,
           \A u \in Tasks : me[u].alters # 0 => (Unsent(u)' => Unsent(u))
    PROVE  Updates'
  <1>1. ASSUME NEW u \in Tasks, me'[u].alters # 0
        PROVE  /\ Unsent(u)' \/ ~Changing(u)' => ~Sent(me[u].alters)'
               /\ repeats' = 0 /\ me'[u].op = "bit" /\ Changing(u)' =>
                    Got(me[u].alters - 1)'
    <2>1. PICK a, b : a = me[u].alters /\ b = me[u].alters - 1
      OBVIOUS
    <2>2. /\ me'[u].alters = a /\ me'[u].alters - 1 = b
          /\ Changing(u)' <=> Changing(u)
          /\ Unsent(u)' => Unsent(u)
      BY <1>1, <2>1 DEF SameNumbers, Changing
    <2>3. /\ Unsent(u)' \/ ~Changing(u)' => ~Sent(a)'
          /\ repeats' = 0 /\ me'[u].op = "bit" /\ Changing(u)' => Got(b)'
      BY <1>1, <2>1, <2>2 DEF Updates, SameRequests
    <2>4. QED
      BY <2>2, <2>3 DEF Got, Sent
  <1>2. QED
    BY <1>1 DEF Updates

(* What is under way, and what comes late.  A call that was in the turn,   *)
(* or in the queue, or has numbers that the PLC has not got, has nothing   *)
(* late to answer for.                                                     *)
Blameless(u) ==
    \/ me'[u] = me[u]
    \/ /\ me[u].at # "idle"
       /\ me'[u].op = me[u].op /\ me'[u].alters = me[u].alters
       /\ Flying(u)' => Flying(u) /\ me'[u].req = me[u].req
    \/ \A a : a = me'[u].alters => ~Got(a) /\ ~Flying(u)'

(* Nothing is sent and nothing arrives.                                    *)
LEMMA QuietInFlight ==
    ASSUME Typed, AnswersWereAsked, InFlight, UNCHANGED <<received, late>>,
           \A s \in Conns : wire'[s].flight = wire[s].flight,
           repeats' >= repeats, repeats' \in Nat,
           \A u \in Tasks : Blameless(u)
    PROVE  InFlight'
  <1> SUFFICES ASSUME repeats' = 0
               PROVE  (/\ \A s \in Conns : \A r \in wire[s].flight :
                            ~Got(r) /\ \A u \in Conns : r \in wire[u].flight => u = s
                       /\ \A i, j \in DOMAIN received :
                            i < j => received[i] < received[j] \/ received[j] \in late
                       /\ \A i, j \in DOMAIN received : i # j => received[i] # received[j]
                       /\ \A t \in Tasks :
                            /\ me[t].op = "bit" => ReadBefore(me[t].alters)
                            /\ me[t].alters \in late => LateIsUnknown(t)
                            /\ Flying(t) => me[t].req \notin late)'
    BY DEF InFlight
  <1>1. repeats = 0
    BY DEF Typed
  <1>2. \A r : Got(r)' <=> Got(r)
    BY DEF Got
  <1>3. \A s \in Conns : \A r \in wire'[s].flight :
          ~Got(r)' /\ \A u \in Conns : r \in wire'[u].flight => u = s
    BY <1>1, <1>2 DEF InFlight
  <1>4. /\ \A i, j \in DOMAIN received' :
             i < j => received'[i] < received'[j] \/ received'[j] \in late'
        /\ \A i, j \in DOMAIN received' : i # j => received'[i] # received'[j]
    BY <1>1 DEF InFlight
  <1>5. ASSUME NEW t \in Tasks
        PROVE  /\ me'[t].op = "bit" => ReadBefore(me[t].alters)'
               /\ me'[t].alters \in late' => LateIsUnknown(t)'
               /\ Flying(t)' => me'[t].req \notin late'
    <2>1. /\ me[t].op = "bit" => ReadBefore(me[t].alters)
          /\ me[t].alters \in late => LateIsUnknown(t)
          /\ Flying(t) => me[t].req \notin late
      BY <1>1 DEF InFlight
    <2>2. CASE me'[t] = me[t]
      BY <2>1, <2>2 DEF ReadBefore, LateIsUnknown, Flying
    <2>3. CASE /\ me[t].at # "idle"
               /\ me'[t].op = me[t].op /\ me'[t].alters = me[t].alters
               /\ Flying(t)' => Flying(t) /\ me'[t].req = me[t].req
      <3>1. me'[t].alters \notin late'
        BY <2>1, <2>3 DEF LateIsUnknown
      <3>2. QED
        BY <2>1, <2>3, <3>1 DEF ReadBefore
    <2>4. CASE \A a : a = me'[t].alters => ~Got(a) /\ ~Flying(t)'
      <3>1. PICK a : a = me'[t].alters
        OBVIOUS
      <3>2. ~Got(a) /\ ~Flying(t)'
        BY <2>4, <3>1
      <3>3. a \notin late'
        BY <3>2 DEF AnswersWereAsked
      <3>4. \A j \in DOMAIN received' : received'[j] # a
        BY <3>2 DEF Got
      <3>5. QED
        BY <3>1, <3>2, <3>3, <3>4 DEF ReadBefore
    <2>5. QED
      BY <2>2, <2>3, <2>4 DEF Blameless
  <1>6. QED
    BY <1>3, <1>4, <1>5 DEF Got

-----------------------------------------------------------------------------
(* What a call may report when it ends.                                    *)
Truthful(t, outcome, sent) ==
    /\ outcome \in Outcomes \ {"none"}
    /\ outcome = "closed" => Adm!Invalidated
    /\ outcome \in {"cancelled", "CancelledError"} => Prompted(t)
    /\ me[t].alters # 0 =>
         /\ outcome = "ok" /\ repeats = 0 =>
              Got(me[t].alters) /\ me[t].alters \notin late
         /\ outcome = "plcError" /\ repeats = 0 =>
              Got(me[t].req) /\ me[t].req \notin late
         /\ outcome = "unknown" => sent
         /\ outcome \notin {"ok", "plcError", "unknown", "AttributeError"} =>
              ~Sent(me[t].alters)

(* Connections lose what the peer had answered or would, and none is used  *)
(* up or revived.                                                          *)
Fades(s) ==
    /\ wire'[s].flight = wire[s].flight
    /\ wire'[s].state = wire[s].state \/ wire'[s].state = "closed"
    /\ wire'[s].state = "unused" <=> wire[s].state = "unused"
    /\ wire'[s].pending \subseteq wire[s].pending
    /\ wire'[s].inbox = wire[s].inbox \/ wire'[s].inbox = <<>>
    /\ wire'[s].response \in {wire[s].response, "none"}
    /\ wire'[s].response = "done" => wire'[s].reply = wire[s].reply

(* Whoever would end as cancelled was asked to.                            *)
LEMMA PromptedWasAsked ==
    ASSUME Connections, Responses, Cancellations, NEW t \in Tasks, Prompted(t)
    PROVE  me[t].asked
  <1>1. CASE me[t].interrupted \/ me[t].error = "cancelled"
    BY <1>1 DEF Cancellations
  <1>2. CASE /\ me[t].at = "receive" /\ ~Adm!Invalidated
             /\ wire[me[t].mine].response = "cancelled"
    <2>1. me[t].mine \in Conns /\ State(me[t].mine) = "open"
      BY <1>2 DEF Connections, CallHasConnection, ClientIsExact, InUse, Conns, NoConn
    <2>2. FALSE
      BY <1>2, <2>1 DEF Responses
    <2>3. QED
      BY <2>2
  <1>3. QED
    BY <1>1, <1>2 DEF Prompted

(* The label and the numbers of a call that ends.                          *)
LEMMA EndsControl ==
    ASSUME IInv, NEW t \in Tasks, me[t].at \notin {"idle", "queued"},
           NEW outcome, NEW sent, Ends(t, outcome, sent), requests' = requests
    PROVE  Control'
  <1>1. /\ pc' = [pc EXCEPT ![t] = "outside"] /\ pc[t] = "inside"
        /\ pc \in [Tasks -> {"outside", "waiting", "inside"}]
        /\ running' = NoTask /\ NoTask \notin Tasks
    BY ExitFacts, TurnAssumption DEF Ends, IInv, Admission, Adm!TypeOK, Adm!Exit
  <1>2. \A u \in Tasks \ {t} :
          me[u].at \in {"idle", "queued"} /\ me[u].mine = NoConn /\ running # u
    BY ActingFacts DEF IInv
  <1>3. \A u \in Tasks : NumbersAreOwn(u)'
    BY DEF IInv, Control, NumbersAreOwn, Ends, Keeps
  <1>4. ASSUME NEW u \in Tasks \ {t} PROVE CallIsExact(u)'
    <2>1. me'[u] = me[u] /\ pc'[u] = pc[u] /\ CallIsExact(u) /\ running' # u
      BY <1>1 DEF IInv, Control, Ends, Keeps
    <2>2. QED
      BY <1>2, <2>1 DEF CallIsExact, Disposing, InUse
  <1>5. CallIsExact(t)'
    <2>1. me'[t].at = "idle" /\ me'[t].mine = NoConn /\ pc'[t] = "outside" /\ running' # t
      BY <1>1 DEF Ends
    <2>2. QED
      BY <2>1 DEF CallIsExact, Disposing, InUse
  <1>6. QED
    BY <1>3, <1>4, <1>5 DEF Control

(* There are connections enough when no call needs one that did not.       *)
LEMMA NeedingShrinks ==
    ASSUME EnoughConnections, Needing' \subseteq Needing, Unused' = Unused
    PROVE  EnoughConnections'
  <1>1. IsFiniteSet(Needing') /\ Cardinality(Needing') <= Cardinality(Needing)
    BY FS_Subset DEF EnoughConnections
  <1>2. /\ Cardinality(Needing) \in Nat /\ Cardinality(Needing') \in Nat
        /\ Cardinality(Unused) >= Cardinality(Needing)
    BY <1>1, FS_CardinalityType DEF EnoughConnections
  <1>3. Cardinality(Unused)' = Cardinality(Unused)
    OBVIOUS
  <1>4. IsFiniteSet(Unused) /\ Cardinality(Unused) \in Nat
    <2>1. IsFiniteSet(Conns)
      BY FS_Interval, ClientAssumption DEF Conns
    <2>2. QED
      BY <2>1, FS_Subset, FS_CardinalityType DEF Unused
  <1>5. QED
    BY <1>1, <1>2, <1>3, <1>4 DEF EnoughConnections

(* What the others have reported stays true, and what this one reports is. *)
LEMMA EndsOutcome ==
    ASSUME OutcomeIsTrue, NEW t \in Tasks, me[t].at # "idle",
           NEW outcome, NEW sent, Ends(t, outcome, sent), Truthful(t, outcome, sent),
           SameRequests, UNCHANGED <<late, repeats>>
    PROVE  OutcomeIsTrue'
  <1>1. ASSUME NEW u \in Tasks
        PROVE  /\ me'[u].outcome = "closed" => me'[u].retired
               /\ me'[u].at = "idle" /\ me'[u].alters # 0 =>
                  /\ me'[u].outcome = "ok" /\ repeats' = 0 =>
                       Got(me[u].alters)' /\ me'[u].alters \notin late'
                  /\ me'[u].outcome = "plcError" /\ repeats' = 0 =>
                       Got(me[u].req)' /\ me'[u].req \notin late'
                  /\ me'[u].outcome = "unknown" => me'[u].sent
                  /\ me'[u].outcome \notin {"ok", "plcError", "unknown", "AttributeError"} =>
                       ~Sent(me[u].alters)'
    <2>1. PICK a, r : a = me[u].alters /\ r = me[u].req
      OBVIOUS
    <2>2. me'[u].alters = a /\ me'[u].req = r
      BY <2>1 DEF Ends, Keeps
    <2>3. (Got(a)' <=> Got(a)) /\ (Sent(a)' <=> Sent(a)) /\ (Got(r)' <=> Got(r))
      BY DEF SameRequests
    <2>4. /\ me'[u].outcome = "closed" => me'[u].retired
          /\ me'[u].at = "idle" /\ a # 0 =>
             /\ me'[u].outcome = "ok" /\ repeats' = 0 => Got(a) /\ a \notin late
             /\ me'[u].outcome = "plcError" /\ repeats' = 0 => Got(r) /\ r \notin late
             /\ me'[u].outcome = "unknown" => me'[u].sent
             /\ me'[u].outcome \notin {"ok", "plcError", "unknown", "AttributeError"} =>
                  ~Sent(a)
      <3>1. CASE u = t
        BY <2>1, <3>1 DEF Ends, Truthful
      <3>2. CASE u # t
        <4>1. me'[u] = me[u]
          BY <3>2 DEF Ends, Keeps
        <4>2. QED
          BY <2>1, <4>1 DEF OutcomeIsTrue
      <3>3. QED
        BY <3>1, <3>2
    <2>5. /\ Got(a)' => Got(me[u].alters)'
          /\ Got(r)' => Got(me[u].req)'
          /\ ~Sent(a)' => ~Sent(me[u].alters)'
      BY <2>2 DEF Got, Sent
    <2>6. QED
      BY <2>2, <2>3, <2>4, <2>5
  <1>2. QED
    BY <1>1 DEF OutcomeIsTrue

(* A call that ends, and lets its connection fade, keeps the invariant.    *)
LEMMA EndsIInv ==
    ASSUME IInv, NEW t \in Tasks, me[t].at \notin {"idle", "queued"},
           NEW outcome, NEW sent, Ends(t, outcome, sent), UNCHANGED peer,
           Truthful(t, outcome, sent),
           client' \in Clients, Transport' = Transport,
           wire' \in [Conns -> Links],
           \A s \in Conns : Fades(s),
           Exchanging(t) => wire'[me[t].mine].state = "closed",
           ClientIsExact', OpenConnectionsAreOwned', MonitorIsOfConnection'
    PROVE  IInv'
  <1>1. Admission' /\ ~Adm!Invalidated' /\ cancelled' = cancelled
    BY ExitFacts DEF Ends, IInv
  <1>2. UNCHANGED <<received, late, requests, repeats, cancels>>
    BY DEF peer
  <1>18. /\ SameRequests
         /\ \A s \in Conns : wire'[s].flight = wire[s].flight
    BY <1>2, RequestsStay DEF Fades
  <1>3. /\ \A u \in Tasks \ {t} : me[u].at \in {"idle", "queued"} /\ me[u].mine = NoConn
        /\ \A u \in Tasks \ {t} : me'[u] = me[u]
        /\ me'[t].at = "idle" /\ me'[t].mine = NoConn /\ me'[t].got = NoReply
        /\ \A u \in Tasks : me'[u].at \in {"idle", "queued"} /\ me'[u].mine = NoConn
    BY ActingFacts DEF IInv, Ends, Keeps
  <1>4. SameNumbers /\ \A u \in Tasks : me'[u].op = me[u].op
    BY DEF Ends, Keeps, SameNumbers
  <1>5. \A u \in Tasks : Unsent(u)' => Unsent(u)
    BY <1>3 DEF Unsent
  <1>6. Typed'
    BY <1>2, TurnAssumption DEF IInv, Typed, Ends, Keeps
  <1>7. Control'
    BY <1>2, EndsControl
  <1>8. Connections'
    <2>1. \A u \in Tasks : CallHasConnection(u)'
      BY <1>3 DEF CallHasConnection, Trying, InUse
    <2>2. \A s \in Conns : State(s)' \in {"unused", "opening", "refused"} => Quiet(s)'
      <3>1. SUFFICES ASSUME NEW s \in Conns,
                            wire'[s].state \in {"unused", "opening", "refused"}
                     PROVE  wire'[s].inbox = <<>> /\ wire'[s].pending = {}
                            /\ wire'[s].flight = {} /\ wire'[s].response = "none"
        BY DEF Quiet, State
      <3>2. Quiet(s)
        BY <3>1 DEF Fades, IInv, Connections, State
      <3>3. QED
        BY <3>2 DEF Fades, Quiet
    <2>3. QED
      BY <2>1, <2>2 DEF Connections
  <1>9. EnoughConnections'
    <2>1. Needing' \subseteq Needing
      BY <1>3, <1>4 DEF Needing, Creates
    <2>2. Unused' = Unused
      BY DEF Unused, Fades, State
    <2>3. QED
      BY <2>1, <2>2, NeedingShrinks DEF IInv
  <1>10. Responses'
    <2>1. \A u \in Tasks : AnswerIsOwn(u)'
      <3>1. \A u \in Tasks \ {t} : me[u].got = NoReply
        BY <1>3 DEF IInv, Responses, AnswerIsOwn
      <3>2. QED
        BY <1>3, <3>1 DEF AnswerIsOwn, Exchanging
    <2>2. ASSUME NEW s \in Conns
          PROVE  /\ Transport' = "udp" => wire'[s].inbox = <<>>
                 /\ wire'[s].state = "open" => wire'[s].response # "cancelled"
                 /\ repeats' = 0 /\ wire'[s].state = "open" =>
                      /\ wire'[s].pending = {} /\ wire'[s].inbox = <<>>
                      /\ wire'[s].flight = {}
      <3>1. /\ Transport = "udp" => wire[s].inbox = <<>>
            /\ wire[s].state = "open" => wire[s].response # "cancelled"
        BY DEF IInv, Responses, State
      <3>2. ASSUME repeats = 0, wire'[s].state = "open"
            PROVE  wire'[s].pending = {} /\ wire'[s].inbox = <<>> /\ wire'[s].flight = {}
        <4>1. wire[s].state = "open" /\ ~(Exchanging(t) /\ me[t].mine = s)
          BY <3>2 DEF Fades, State
        <4>2. \A u \in Tasks \ {t} : ~Exchanging(u)
          BY <1>3 DEF Exchanging
        <4>3. wire[s].pending = {} /\ wire[s].inbox = <<>> /\ wire[s].flight = {}
          BY <3>2, <4>1, <4>2 DEF IInv, Responses, State
        <4>4. QED
          BY <4>3 DEF Fades
      <3>3. QED
        BY <1>2, <3>1, <3>2 DEF Fades
    <2>3. QED
      BY <2>1, <2>2 DEF Responses, State
  <1>11. AnswersWereAsked'
    <2>1. \A n : Got(n)' <=> Got(n)
      BY <1>2 DEF Got
    <2>2. ASSUME NEW s \in Conns
          PROVE  /\ \A r \in wire'[s].pending : Got(r)
                 /\ \A i \in DOMAIN wire'[s].inbox : Got(wire'[s].inbox[i].req)
                 /\ wire'[s].response = "done" =>
                      Got(wire'[s].reply.req) /\ wire'[s].reply.kind \in Kinds
      <3>1. /\ \A r \in wire[s].pending : Got(r)
            /\ \A i \in DOMAIN wire[s].inbox : Got(wire[s].inbox[i].req)
            /\ wire[s].response = "done" =>
                 Got(wire[s].reply.req) /\ wire[s].reply.kind \in Kinds
        BY DEF IInv, AnswersWereAsked
      <3>2. CASE wire'[s].inbox = wire[s].inbox
        BY <3>1, <3>2 DEF Fades
      <3>3. CASE wire'[s].inbox = <<>>
        BY <3>1, <3>3 DEF Fades
      <3>4. QED
        BY <3>2, <3>3 DEF Fades
    <2>3. \A r \in late' : Got(r)'
      BY <1>2, <2>1 DEF IInv, AnswersWereAsked
    <2>4. QED
      BY <1>2, <1>3, <2>2, <2>3 DEF AnswersWereAsked, Got
  <1>12. Ordered'
    <2>1. \A r \in Nat : Sent(r)' => Sent(r)
      BY <1>18 DEF SameRequests
    <2>2. QED
      BY <1>2, <1>3, <1>4, <2>1, OrderedExit DEF Ends
  <1>13. Updates'
    BY <1>2, <1>4, <1>5, <1>18, UpdatesStay DEF IInv
  <1>14. OutcomeIsTrue'
    BY <1>2, <1>3, <1>18, EndsOutcome DEF IInv
  <1>19. InFlight'
    <2>1. \A u \in Tasks \ {t} : me'[u] = me[u]
      BY <1>3
    <2>2. /\ me[t].at # "idle" /\ ~Flying(t)'
          /\ me'[t].op = me[t].op /\ me'[t].alters = me[t].alters
      BY <1>3, <1>4 DEF Flying, SameNumbers
    <2>3. \A u \in Tasks : Blameless(u)
      BY <2>1, <2>2 DEF Blameless
    <2>4. repeats' >= repeats /\ repeats' \in Nat
      BY <1>2 DEF IInv, Typed
    <2>5. QED
      BY <1>2, <1>18, <2>3, <2>4, QuietInFlight DEF IInv
  <1>15. Cancellations'
    <2>1. ~cancelled[t]
      BY DEF IInv, Cancellations
    <2>2. QED
      BY <1>1, <1>3, <2>1 DEF IInv, Cancellations, Ends, Disposing
  <1>16. CancelledOnlyIfAsked'
    <2>1. Prompted(t) => me[t].asked
      BY PromptedWasAsked DEF IInv
    <2>2. QED
      BY <1>3, <2>1 DEF IInv, CancelledOnlyIfAsked, Ends, Keeps, Truthful
  <1>17. QED
    BY <1>1, <1>6, <1>7, <1>8, <1>9, <1>10, <1>11, <1>12, <1>13, <1>14, <1>15, <1>16,
       <1>19 DEF IInv
-----------------------------------------------------------------------------
(* Each of the moves that end a call.                                      *)

(* Only the call in its turn can be making a connection.                   *)
LEMMA OpenIsMine ==
    ASSUME Admission, Typed, Control, OpenConnectionsAreOwned, NEW t \in Tasks,
           me[t].at \notin {"idle", "queued"},
           NEW s \in Conns, wire[s].state \in {"opening", "open"}
    PROVE  s = client.conn \/ (me[t].mine = s /\ Trying(t))
  <1>1. \A u \in Tasks \ {t} : ~Trying(u)
    BY ActingFacts DEF Trying
  <1>2. QED
    BY <1>1 DEF OpenConnectionsAreOwned, State, Trying

(* A connection that does not change fades by nothing.                     *)
LEMMA WireStays ==
    ASSUME Typed, wire' = wire
    PROVE  wire' \in [Conns -> Links] /\ \A s \in Conns : Fades(s)
  BY DEF Typed, Fades

(* The invariant after a call that ended and touched nothing.              *)
LEMMA LeavesIInv ==
    ASSUME IInv, NEW t \in Tasks, NEW outcome \in Outcomes, Leaves(t, outcome)
    PROVE  IInv'
  <1>1. /\ me[t].at = "start" \/ Disposing(t)
           \/ (me[t].at = "connecting" /\ State(me[t].mine) = "refused")
        /\ Finish(t, outcome, FALSE) /\ UNCHANGED <<client, wire, peer>>
    BY DEF Leaves
  <1>2. /\ me[t].at \notin {"idle", "queued"} /\ ~Exchanging(t)
        /\ Trying(t) => State(me[t].mine) = "refused"
    BY <1>1 DEF Disposing, Exchanging, Trying
  <1>3. Ends(t, outcome, FALSE)
    BY <1>1, FinishFacts DEF IInv
  <1>4. Truthful(t, outcome, FALSE)
    <2>1. /\ outcome \in Outcomes \ {"none", "plcError", "unknown", "AttributeError"}
          /\ outcome = "closed" => Adm!Invalidated
          /\ outcome \in {"cancelled", "CancelledError"} => Prompted(t)
          /\ outcome = "ok" => me[t].op = "connect"
      BY DEF Leaves, TrueEnd
    <2>2. me[t].op = "connect" => me[t].alters = 0
      BY DEF IInv, Control, NumbersAreOwn
    <2>3. me[t].at # "start" => me[t].op = "connect"
      BY <1>1 DEF IInv, Control, CallIsExact
    <2>4. me[t].at = "start" /\ me[t].alters # 0 => ~Sent(me[t].alters)
      BY DEF IInv, Updates, Unsent
    <2>5. QED
      BY <2>1, <2>2, <2>3, <2>4 DEF Truthful
  <1>5. ~Adm!Invalidated'
    BY <1>3, ExitFacts DEF IInv, Ends
  <1>6. ClientIsExact' /\ MonitorIsOfConnection'
    BY <1>1, <1>5 DEF IInv, Connections, ClientIsExact, MonitorIsOfConnection, State, Transport
  <1>7. OpenConnectionsAreOwned'
    <2>1. ASSUME NEW s \in Conns, wire[s].state \in {"opening", "open"}
          PROVE  s = client.conn
      BY <1>2, <2>1, OpenIsMine DEF IInv, Connections, State
    <2>2. QED
      BY <1>1, <2>1 DEF OpenConnectionsAreOwned, State
  <1>8. client' \in Clients /\ Transport' = Transport
    BY <1>1 DEF IInv, Typed, Transport
  <1>9. wire' \in [Conns -> Links] /\ \A s \in Conns : Fades(s)
    BY <1>1, WireStays DEF IInv
  <1>10. QED
    BY <1>1, <1>2, <1>3, <1>4, <1>6, <1>7, <1>8, <1>9, EndsIInv

(* A connection that is dropped fades.                                     *)
LEMMA GoneFades ==
    ASSUME Typed, NEW S, wire' = WithGone(wire, S),
           \A s \in Conns : s \in S => wire[s].state # "unused"
    PROVE  wire' \in [Conns -> Links] /\ \A s \in Conns : Fades(s)
  <1>1. /\ wire' \in [Conns -> Links]
        /\ \A s \in Conns \ S : wire'[s] = wire[s]
        /\ \A s \in Conns : wire'[s].flight = wire[s].flight
        /\ \A s \in Conns : s \in S =>
             /\ wire'[s].state = "closed" /\ wire'[s].inbox = <<>>
             /\ wire'[s].pending = {} /\ wire'[s].response = "none"
    BY GoneFacts
  <1>2. QED
    BY <1>1 DEF Fades

(* The invariant after a connect() that dropped its connection.            *)
LEMMA GivesUpIInv ==
    ASSUME IInv, NEW t \in Tasks, NEW outcome \in Outcomes, GivesUp(t, outcome)
    PROVE  IInv'
  <1>1. /\ me[t].at = "connecting" /\ outcome \in {"timeout", "cancelled", "closed", "transport"}
        /\ TrueEnd(t, outcome)
        /\ wire' = WithGone(wire, {me[t].mine})
        /\ Finish(t, outcome, FALSE) /\ UNCHANGED <<client, peer>>
    BY DEF GivesUp
  <1>2. /\ me[t].at \notin {"idle", "queued"} /\ ~Exchanging(t) /\ Trying(t)
        /\ me[t].mine \in Conns /\ client.conn = NoConn /\ NoConn \notin Conns
        /\ State(me[t].mine) # "unused"
    BY <1>1 DEF Exchanging, Trying, IInv, Connections, CallHasConnection, Conns, NoConn
  <1>3. Ends(t, outcome, FALSE)
    BY <1>1, FinishFacts DEF IInv
  <1>4. Truthful(t, outcome, FALSE)
    <2>1. me[t].alters = 0
      BY <1>1 DEF IInv, Control, NumbersAreOwn, CallIsExact
    <2>2. QED
      BY <1>1, <2>1 DEF Truthful, TrueEnd
  <1>5. ~Adm!Invalidated'
    BY <1>3, ExitFacts DEF IInv, Ends
  <1>6. wire' \in [Conns -> Links] /\ \A s \in Conns : Fades(s)
    BY <1>1, <1>2, GoneFades DEF IInv, State
  <1>7. ClientIsExact' /\ MonitorIsOfConnection'
    BY <1>1, <1>2, <1>5 DEF IInv, Connections, ClientIsExact, MonitorIsOfConnection, Transport,
       Disconnected
  <1>8. OpenConnectionsAreOwned'
    <2>1. ASSUME NEW s \in Conns, wire'[s].state \in {"opening", "open"}
          PROVE  s = client.conn
      <3>1. wire'[s] = wire[s] /\ s # me[t].mine
        BY <1>1, <2>1, GoneFacts DEF IInv
      <3>2. QED
        BY <1>2, <2>1, <3>1, OpenIsMine DEF IInv, Connections
    <2>2. QED
      BY <1>1, <2>1 DEF OpenConnectionsAreOwned, State
  <1>9. client' \in Clients /\ Transport' = Transport
    BY <1>1 DEF IInv, Typed, Transport
  <1>10. QED
    BY <1>1, <1>2, <1>3, <1>4, <1>6, <1>7, <1>8, <1>9, EndsIInv

(* The invariant after a connect() that adopted its connection.            *)
LEMMA AdoptsIInv ==
    ASSUME IInv, NEW t \in Tasks, Adopts(t)
    PROVE  IInv'
  <1>1. /\ me[t].at = "connecting" /\ State(me[t].mine) = "open"
        /\ client' = [client EXCEPT !.conn = me[t].mine,
                                    !.udpConnected = (Transport = "udp")]
        /\ Finish(t, "ok", FALSE) /\ UNCHANGED <<wire, peer>>
    BY DEF Adopts
  <1>2. /\ me[t].at \notin {"idle", "queued"} /\ ~Exchanging(t) /\ Trying(t)
        /\ me[t].mine \in Conns /\ client.conn = NoConn /\ NoConn \notin Conns
    BY <1>1 DEF Exchanging, Trying, IInv, Connections, CallHasConnection, Conns, NoConn
  <1>3. Ends(t, "ok", FALSE)
    BY <1>1, FinishFacts DEF IInv, Outcomes
  <1>4. Truthful(t, "ok", FALSE)
    <2>1. me[t].alters = 0
      BY <1>1 DEF IInv, Control, NumbersAreOwn, CallIsExact
    <2>2. QED
      BY <2>1 DEF Truthful, Outcomes
  <1>5. ~Adm!Invalidated'
    BY <1>3, ExitFacts DEF IInv, Ends
  <1>6. wire' \in [Conns -> Links] /\ \A s \in Conns : Fades(s)
    BY <1>1, WireStays DEF IInv
  <1>7. /\ client' \in Clients /\ client'.conn = me[t].mine
        /\ client'.udpConnected = (Transport = "udp")
        /\ client'.monitor = client.monitor /\ client'.transport = client.transport
    BY <1>1, <1>2 DEF IInv, Typed, Clients
  <1>8. Transport \in {"tcp", "udp"}
    BY ClientAssumption DEF IInv, Typed, Clients, Transport
  <1>9. ClientIsExact' /\ MonitorIsOfConnection'
    BY <1>1, <1>2, <1>5, <1>7, <1>8 DEF IInv, Connections, ClientIsExact,
       MonitorIsOfConnection, State, Transport
  <1>10. OpenConnectionsAreOwned'
    <2>1. ASSUME NEW s \in Conns, wire[s].state \in {"opening", "open"}
          PROVE  s = client'.conn
      BY <1>2, <1>7, <2>1, OpenIsMine DEF IInv, Connections
    <2>2. QED
      BY <1>1, <2>1 DEF OpenConnectionsAreOwned, State
  <1>11. "ok" \in Outcomes /\ Transport' = Transport
    BY <1>7 DEF Outcomes, Transport
  <1>12. QED
    BY <1>1, <1>2, <1>3, <1>4, <1>6, <1>7, <1>9, <1>10, <1>11, EndsIInv

(* The invariant after a request that failed.                              *)
LEMMA RetiresIInv ==
    ASSUME IInv, NEW t \in Tasks, NEW outcome \in Outcomes, NEW sent \in BOOLEAN,
           Retires(t, outcome, sent)
    PROVE  IInv'
  <1>1. /\ me[t].at \in {"start", "bind"} \/ InUse(t)
        /\ sent <=> me[t].at \in {"drain", "receive", "accept"}
        /\ TrueEnd(t, outcome)
        /\ client' = Retired
        /\ wire' = WithGone(wire, {client.conn, me[t].mine})
        /\ Finish(t, outcome, sent) /\ UNCHANGED peer
    BY DEF Retires
  <1>2. /\ me[t].at \notin {"idle", "queued"}
        /\ NoConn \notin Conns
        /\ me[t].at = "start" => me[t].mine = NoConn
        /\ Exchanging(t) => me[t].mine \in Conns
        /\ me[t].mine \in Conns => State(me[t].mine) # "unused"
        /\ client.conn \in Conns => State(client.conn) # "unused"
    BY <1>1 DEF InUse, Exchanging, Trying, IInv, Control, CallIsExact, Connections,
       CallHasConnection, ClientIsExact, Conns, NoConn
  <1>3. Ends(t, outcome, sent)
    BY <1>1, FinishFacts DEF IInv
  <1>4. Truthful(t, outcome, sent)
    <2>1. (~sent \/ ~Changing(t)) /\ me[t].alters # 0 => ~Sent(me[t].alters)
      BY <1>1 DEF IInv, Updates, Unsent, InUse
    <2>2. /\ outcome \in Outcomes \ {"none", "plcError", "ok"}
          /\ outcome = "closed" => Adm!Invalidated
          /\ outcome \in {"cancelled", "CancelledError"} => Prompted(t)
          /\ outcome = "unknown" => sent
          /\ sent /\ Changing(t) => outcome \in {"unknown", "AttributeError"}
      BY DEF Retires, TrueEnd
    <2>3. QED
      BY <2>1, <2>2 DEF Truthful
  <1>5. ~Adm!Invalidated'
    BY <1>3, ExitFacts DEF IInv, Ends
  <1>6. /\ wire' \in [Conns -> Links] /\ \A s \in Conns : Fades(s)
        /\ \A s \in Conns :
             IF s \in {client.conn, me[t].mine} THEN wire'[s].state = "closed"
             ELSE wire'[s] = wire[s]
    <2> DEFINE S == {client.conn, me[t].mine}
    <2>1. \A s \in Conns : s \in S => wire[s].state # "unused"
      BY <1>2 DEF State
    <2>2. wire' = WithGone(wire, S) /\ Typed
      BY <1>1 DEF IInv
    <2> HIDE DEF S
    <2>3. wire' \in [Conns -> Links] /\ \A s \in Conns : Fades(s)
      BY <2>1, <2>2, GoneFades
    <2>4. \A s \in Conns :
            IF s \in S THEN wire'[s].state = "closed" ELSE wire'[s] = wire[s]
      BY <2>2, GoneFacts
    <2>5. QED
      BY <2>3, <2>4 DEF S
  <1>7. Exchanging(t) => wire'[me[t].mine].state = "closed"
    BY <1>2, <1>6
  <1>8. /\ client' \in Clients /\ client'.conn = NoConn
        /\ client'.transport = client.transport
        /\ Transport = "udp" => client'.udpConnected = client.udpConnected
                                /\ client'.monitor = client.monitor
        /\ Transport # "udp" => client'.udpConnected = FALSE
                                /\ client'.monitor = NoConn
    BY <1>1 DEF Retired, Disconnected, IInv, Typed, Clients, Transport
  <1>9. ClientIsExact' /\ MonitorIsOfConnection'
    <2>1. Transport \in {"tcp", "udp"}
      BY ClientAssumption DEF IInv, Typed, Clients, Transport
    <2>2. QED
      BY <1>5, <1>8, <2>1 DEF IInv, Connections, ClientIsExact, MonitorIsOfConnection,
         Transport
  <1>10. OpenConnectionsAreOwned'
    <2>1. ASSUME NEW s \in Conns, wire'[s].state \in {"opening", "open"}
          PROVE  FALSE
      <3>1. wire'[s] = wire[s] /\ s # me[t].mine /\ s # client.conn
        BY <1>6, <2>1
      <3>2. QED
        BY <1>2, <2>1, <3>1, OpenIsMine DEF IInv, Connections
    <2>2. QED
      BY <2>1 DEF OpenConnectionsAreOwned, State
  <1>11. Transport' = Transport
    BY <1>8 DEF Transport
  <1>12. QED
    BY <1>1, <1>2, <1>3, <1>4, <1>6, <1>7, <1>8, <1>9, <1>10, <1>11, EndsIInv

(* What a call that accepts a response does to the client.                 *)
LEMMA AcceptsFacts ==
    ASSUME IInv, NEW t \in Tasks, Accepts(t)
    PROVE  /\ me[t].at = "accept" /\ me[t].mine \in Conns
           /\ client.conn = me[t].mine /\ State(me[t].mine) = "open"
           /\ client' \in Clients /\ client'.conn = client.conn
           /\ client'.transport = client.transport
           /\ client'.udpConnected = client.udpConnected
           /\ client'.monitor \in {client.monitor, client.conn}
           /\ Rewires(me[t].mine)
           /\ LET s == me[t].mine IN
              /\ wire'[s].state = wire[s].state /\ wire'[s].inbox = wire[s].inbox
              /\ wire'[s].pending = wire[s].pending /\ wire'[s].response = "none"
              /\ wire'[s].flight = wire[s].flight
  <1>1. me[t].at = "accept" /\ ~Adm!Invalidated
    BY DEF Accepts
  <1>2. /\ me[t].mine \in Conns /\ client.conn = me[t].mine
        /\ State(me[t].mine) = "open"
    BY <1>1 DEF IInv, Connections, CallHasConnection, ClientIsExact, InUse, Conns, NoConn
  <1>3. /\ client' \in Clients /\ client'.conn = client.conn
        /\ client'.transport = client.transport
        /\ client'.udpConnected = client.udpConnected
        /\ client'.monitor \in {client.monitor, client.conn}
    <2>1. client \in Clients
      BY DEF IInv, Typed
    <2>2. PICK c \in {client.conn, me[t].mine}, m \in {client.monitor, me[t].mine} :
            client' = [client EXCEPT !.conn = c, !.monitor = m]
      BY DEF Accepts
    <2>3. QED
      BY <1>2, <2>1, <2>2 DEF Clients
  <1>4. wire' = [wire EXCEPT ![me[t].mine].held = FALSE,
                             ![me[t].mine].response = "none",
                             ![me[t].mine].reply = NoReply]
    BY DEF Accepts
  <1>5. QED
    BY <1>1, <1>2, <1>3, <1>4, AcceptsWire DEF IInv

(* The invariant after a call that ended with its response.                *)
LEMMA AcceptsEndIInv ==
    ASSUME IInv, NEW t \in Tasks, Accepts(t), Finish(t, me[t].got.kind, TRUE),
           ~(me[t].op = "bit" /\ ~Changing(t) /\ me[t].got.kind = "ok")
    PROVE  IInv'
  <1> DEFINE s == me[t].mine
             outcome == me[t].got.kind
  <1>1. /\ me[t].at = "accept" /\ s \in Conns
        /\ client.conn = s /\ State(s) = "open"
        /\ client' \in Clients /\ client'.conn = client.conn
        /\ client'.transport = client.transport
        /\ client'.udpConnected = client.udpConnected
        /\ client'.monitor \in {client.monitor, client.conn}
        /\ Rewires(s)
        /\ wire'[s].state = wire[s].state /\ wire'[s].inbox = wire[s].inbox
        /\ wire'[s].pending = wire[s].pending /\ wire'[s].response = "none"
        /\ wire'[s].flight = wire[s].flight
    BY AcceptsFacts
  <1>2. outcome \in {"ok", "plcError"} /\ UNCHANGED peer /\ outcome \in Outcomes
    BY DEF Accepts, Outcomes
  <1>3. Ends(t, outcome, TRUE)
    BY <1>2, FinishFacts DEF IInv
  <1>4. Truthful(t, outcome, TRUE)
    <2>1. repeats = 0 => Got(me[t].req)
      BY <1>1 DEF IInv, AnswersWereAsked, Responses, AnswerIsOwn
    <2>2. me[t].alters # 0 /\ outcome = "ok" => me[t].req = me[t].alters
      <3>1. NumbersAreOwn(t) /\ me[t].op \in AllOperations \cup {"none"}
        BY DEF IInv, Control, Typed, Calls
      <3>2. me[t].op = "bit" /\ outcome = "ok" => me[t].req = me[t].alters
        BY DEF Changing
      <3>3. QED
        BY <3>1, <3>2 DEF NumbersAreOwn, AllOperations
    <2>3. repeats = 0 => me[t].req \notin late
      BY <1>1 DEF IInv, InFlight, Flying
    <2>4. QED
      BY <1>2, <2>1, <2>2, <2>3 DEF Truthful
  <1>5. ~Adm!Invalidated'
    BY <1>3, ExitFacts DEF IInv, Ends
  <1> HIDE DEF outcome, s
  <1>6. wire' \in [Conns -> Links] /\ \A u \in Conns : Fades(u)
    BY <1>1 DEF Rewires, Fades
  <1>7. Transport \in {"tcp", "udp"}
    BY ClientAssumption DEF IInv, Typed, Clients, Transport
  <1>8. ClientIsExact' /\ MonitorIsOfConnection'
    BY <1>1, <1>5, <1>7 DEF IInv, Connections, ClientIsExact, MonitorIsOfConnection,
       State, Transport, Conns, NoConn
  <1>9. OpenConnectionsAreOwned'
    <2>1. ASSUME NEW u \in Conns, wire'[u].state \in {"opening", "open"}
          PROVE  u = client'.conn
      <3>1. wire[u].state \in {"opening", "open"}
        BY <1>1, <2>1 DEF Rewires
      <3>2. ~Trying(t) /\ me[t].at \notin {"idle", "queued"}
        BY <1>1 DEF Trying
      <3>3. QED
        BY <1>1, <3>1, <3>2, OpenIsMine DEF IInv, Connections
    <2>2. QED
      BY <2>1 DEF OpenConnectionsAreOwned, State
  <1>10. ~Exchanging(t) /\ me[t].at \notin {"idle", "queued"} /\ Transport' = Transport
    BY <1>1 DEF Exchanging, Transport
  <1>11. QED
    BY <1>1, <1>2, <1>3, <1>4, <1>6, <1>8, <1>9, <1>10, EndsIInv
-----------------------------------------------------------------------------
(* What a step keeps in which a call goes on.                              *)

(* Nothing is sent over a connection, and nothing new comes back.          *)
Dims(s) ==
    /\ wire'[s].flight = wire[s].flight
    /\ wire'[s].state = "open" => wire[s].state = "open" \/ Quiet(s)
    /\ wire'[s].pending \subseteq wire[s].pending
    /\ wire[s].inbox = <<>> => wire'[s].inbox = <<>>
    /\ \A i \in DOMAIN wire'[s].inbox :
         \E j \in DOMAIN wire[s].inbox : wire'[s].inbox[i] = wire[s].inbox[j]
    /\ wire'[s].response \in {wire[s].response, "none"}
    /\ wire'[s].response = "done" => wire'[s].reply = wire[s].reply

(* A connection that fades dims.                                           *)
LEMMA FadesDims ==
    ASSUME NEW s \in Conns, Fades(s) PROVE Dims(s)
  <1>1. CASE wire'[s].inbox = wire[s].inbox
    BY <1>1 DEF Fades, Dims
  <1>2. CASE wire'[s].inbox = <<>>
    BY <1>2 DEF Fades, Dims
  <1>3. QED
    BY <1>1, <1>2 DEF Fades

(* A call goes on in its turn.                                             *)
Onward(t) ==
    /\ Keeps(t)
    /\ me'[t].at \notin {"idle", "queued"}
    /\ me'[t].outcome = me[t].outcome
    /\ me'[t].interrupted => me[t].interrupted
    /\ \/ me'[t].req = me[t].req
       \/ me[t].op = "bit" /\ me'[t].req = me[t].alters
    /\ UNCHANGED <<admission, received, late, requests, repeats, cancels>>

(* Of the changes the other calls are for nothing new was sent.            *)
Unspoken(t) ==
    \A u \in Tasks \ {t}, a \in Nat : a = me[u].alters /\ a # 0 /\ Sent(a)' => Sent(a)

(* Answers are still those of the request that waits for them.             *)
LEMMA ResponsesStay ==
    ASSUME IInv, NEW t \in Tasks, me[t].at \notin {"idle", "queued"}, Onward(t),
           Transport' = Transport, \A s \in Conns : Dims(s), AnswerIsOwn(t)',
           Exchanging(t) /\ repeats = 0 =>
              \/ Exchanging(t)' /\ me'[t].mine = me[t].mine
              \/ wire'[me[t].mine].state # "open"
              \/ /\ wire'[me[t].mine].pending = {} /\ wire'[me[t].mine].inbox = <<>>
                 /\ wire'[me[t].mine].flight = {}
    PROVE  Responses'
  <1>1. /\ repeats' = repeats
        /\ \A u \in Tasks \ {t} : me[u].at \in {"idle", "queued"} /\ me'[u] = me[u]
    BY ActingFacts DEF IInv, Onward, Keeps
  <1>2. ASSUME NEW u \in Tasks \ {t} PROVE AnswerIsOwn(u)'
    <2>1. me[u].got = NoReply
      BY <1>1 DEF IInv, Responses, AnswerIsOwn
    <2>2. QED
      BY <1>1, <2>1 DEF AnswerIsOwn, Exchanging
  <1>3. ASSUME NEW s \in Conns
        PROVE  /\ Transport' = "udp" => wire'[s].inbox = <<>>
               /\ wire'[s].state = "open" => wire'[s].response # "cancelled"
    BY DEF IInv, Responses, State, Dims, Quiet
  <1>4. ASSUME NEW s \in Conns, repeats = 0, wire'[s].state = "open"
        PROVE  \/ wire'[s].pending = {} /\ wire'[s].inbox = <<>> /\ wire'[s].flight = {}
               \/ Exchanging(t)' /\ me'[t].mine = s
    <2>1. CASE wire[s].pending = {} /\ wire[s].inbox = <<>> /\ wire[s].flight = {}
      BY <2>1 DEF Dims
    <2>2. CASE ~(wire[s].pending = {} /\ wire[s].inbox = <<>> /\ wire[s].flight = {})
      <3>1. wire[s].state = "open"
        BY <1>4, <2>2 DEF Dims, Quiet
      <3>2. \E u \in Tasks : Exchanging(u) /\ me[u].mine = s
        BY <1>4, <2>2, <3>1 DEF IInv, Responses, State
      <3>3. Exchanging(t) /\ me[t].mine = s
        BY <1>1, <3>2 DEF Exchanging
      <3>4. QED
        BY <1>4, <3>3
    <2>3. QED
      BY <2>1, <2>2
  <1>5. QED
    BY <1>1, <1>2, <1>3, <1>4 DEF Responses, State

(* Answers are still answers to requests that arrived.                     *)
LEMMA AsksStay ==
    ASSUME IInv, NEW t \in Tasks, me[t].at \notin {"idle", "queued"}, Onward(t),
           \A s \in Conns : Dims(s),
           me'[t].at = "accept" => Got(me'[t].got.req) /\ me'[t].got.kind \in Kinds
    PROVE  AnswersWereAsked'
  <1>1. /\ \A u \in Tasks \ {t} : me[u].at \in {"idle", "queued"} /\ me'[u] = me[u]
        /\ UNCHANGED <<received, late>>
    BY ActingFacts DEF IInv, Onward, Keeps
  <1>2. ASSUME NEW s \in Conns
        PROVE  /\ \A r \in wire'[s].pending : Got(r)
               /\ \A i \in DOMAIN wire'[s].inbox : Got(wire'[s].inbox[i].req)
               /\ wire'[s].response = "done" =>
                    Got(wire'[s].reply.req) /\ wire'[s].reply.kind \in Kinds
    BY DEF IInv, AnswersWereAsked, Dims
  <1>3. \A r \in late : Got(r)
    BY DEF IInv, AnswersWereAsked
  <1>4. QED
    BY <1>1, <1>2, <1>3 DEF AnswersWereAsked, Got

(* A step in which a call goes on keeps the invariant if it keeps what     *)
(* concerns its connection, its answer and the requests that arrived.      *)
LEMMA OnwardIInv ==
    ASSUME IInv, NEW t \in Tasks, me[t].at \notin {"idle", "queued"}, Onward(t),
           running' \in {t, NoTask}, CallIsExact(t)',
           client' \in Clients, Transport' = Transport, wire' \in [Conns -> Links],
           ClientIsExact', CallHasConnection(t)',
           \A s \in Conns : wire'[s].state \in {"unused", "opening", "refused"} =>
             Quiet(s)',
           OpenConnectionsAreOwned', MonitorIsOfConnection', EnoughConnections',
           Responses', AnswersWereAsked', Ordered', Updates',
           InFlight', Unspoken(t),
           me'[t].error = "cancelled" => me[t].asked,
           Disposing(t)' /\ me'[t].at # "dispose_retired" => me'[t].error # "none"
    PROVE  IInv'
  <1>1. /\ UNCHANGED <<owner, ownerGeneration, depth, queue, generation,
                       waiterGeneration, future, cancelled, pc>>
        /\ UNCHANGED <<received, late, requests, repeats, cancels>>
    BY DEF Onward, admission
  <1>2. \A u \in Tasks \ {t} : /\ me[u].at \in {"idle", "queued"} /\ me[u].mine = NoConn
                               /\ me'[u] = me[u] /\ running # u
    BY ActingFacts DEF IInv, Onward, Keeps
  <1>3. Admission'
    BY <1>1, TurnStep DEF IInv, Adm!vars, Adm!turn, Adm!waiters
  <1>4. Typed'
    BY <1>1 DEF IInv, Typed, Onward, Keeps
  <1>5. Control'
    <2>1. ASSUME NEW u \in Tasks PROVE NumbersAreOwn(u)'
      <3>1. NumbersAreOwn(u) /\ me'[u].op = me[u].op /\ me'[u].alters = me[u].alters
        BY <1>2 DEF IInv, Control, Onward, Keeps
      <3>2. me'[u].req = me[u].req \/ (me[u].op = "bit" /\ me'[u].req = me[u].alters)
        BY <1>2 DEF Onward
      <3>3. QED
        BY <1>1, <3>1, <3>2 DEF NumbersAreOwn
    <2>2. ASSUME NEW u \in Tasks \ {t} PROVE CallIsExact(u)'
      <3>1. CallIsExact(u) /\ running' # u
        BY TurnAssumption DEF IInv, Control
      <3>2. QED
        BY <1>1, <1>2, <3>1 DEF CallIsExact, Disposing, InUse
    <2>3. QED
      BY <2>1, <2>2 DEF Control
  <1>6. Connections'
    <2>1. \A u \in Tasks \ {t} : CallHasConnection(u)'
      <3>1. SUFFICES ASSUME NEW u \in Tasks \ {t} PROVE CallHasConnection(u)'
        OBVIOUS
      <3>2. me'[u].at \in {"idle", "queued"}
        BY <1>2
      <3>3. QED
        BY <3>2 DEF CallHasConnection, Trying, InUse
    <2>2. QED
      BY <2>1 DEF Connections, State
  <1>7. OutcomeIsTrue'
    <2>1. me'[t].outcome = "none" /\ me'[t].at # "idle"
      BY DEF Onward, IInv, Control, CallIsExact
    <2>2. ASSUME NEW u \in Tasks \ {t}
          PROVE  /\ me'[u].outcome = "closed" => me'[u].retired
                 /\ me'[u].at = "idle" /\ me'[u].alters # 0 =>
                    /\ me'[u].outcome = "ok" /\ repeats' = 0 =>
                         Got(me[u].alters)' /\ me'[u].alters \notin late'
                    /\ me'[u].outcome = "plcError" /\ repeats' = 0 =>
                         Got(me[u].req)' /\ me'[u].req \notin late'
                    /\ me'[u].outcome = "unknown" => me'[u].sent
                    /\ me'[u].outcome \notin {"ok", "plcError", "unknown", "AttributeError"} =>
                         ~Sent(me[u].alters)'
      <3>1. PICK a \in Nat, r \in Nat : a = me[u].alters /\ r = me[u].req
        BY DEF IInv, Typed, Calls
      <3>2. /\ me'[u] = me[u] /\ repeats' = repeats /\ late' = late
            /\ me'[u].alters = a /\ me'[u].req = r
        BY <1>1, <1>2, <3>1
      <3>3. /\ me[u].outcome = "closed" => me[u].retired
            /\ me[u].at = "idle" /\ a # 0 =>
                    /\ me[u].outcome = "ok" /\ repeats = 0 => Got(a) /\ a \notin late
                    /\ me[u].outcome = "plcError" /\ repeats = 0 => Got(r) /\ r \notin late
                    /\ me[u].outcome = "unknown" => me[u].sent
                    /\ me[u].outcome \notin {"ok", "plcError", "unknown", "AttributeError"} =>
                         ~Sent(a)
        BY <3>1 DEF IInv, OutcomeIsTrue
      <3>4. (Got(a) => Got(a)') /\ (Got(r) => Got(r)')
        BY <1>1 DEF Got
      <3>5. a # 0 /\ Sent(a)' => Sent(a)
        BY <3>1 DEF Unspoken
      <3>6. /\ Got(a)' => Got(me[u].alters)'
            /\ Got(r)' => Got(me[u].req)'
            /\ ~Sent(a)' => ~Sent(me[u].alters)'
        BY <3>2 DEF Got, Sent
      <3>7. QED
        BY <3>2, <3>3, <3>4, <3>5, <3>6
    <2>3. QED
      BY <2>1, <2>2 DEF OutcomeIsTrue, Outcomes
  <1>8. Cancellations'
    BY <1>1, <1>2 DEF IInv, Cancellations, Onward, Keeps, Disposing
  <1>9. CancelledOnlyIfAsked'
    BY <1>2 DEF IInv, CancelledOnlyIfAsked, Onward, Keeps
  <1>10. QED
    BY <1>3, <1>4, <1>5, <1>6, <1>7, <1>8, <1>9 DEF IInv
-----------------------------------------------------------------------------
(* Each of the moves in which a call goes on.                              *)

(* A call that sends nothing.                                              *)
LEMMA SilentFacts ==
    ASSUME IInv, NEW t \in Tasks, me[t].at \notin {"idle", "queued"},
           NEW label \in Labels \ {"idle", "queued"}, NEW s, NEW got, NEW error,
           GoesOn(t, label, s, got, error), UNCHANGED admission, UNCHANGED peer,
           Unsent(t)' => Unsent(t), Flying(t)' => Flying(t),
           \A u \in Conns : wire'[u].flight = wire[u].flight
    PROVE  /\ Onward(t) /\ Ordered' /\ Updates' /\ InFlight' /\ Unspoken(t)
  <1>1. Onward(t) /\ UNCHANGED <<received, late, repeats>> /\ repeats \in Nat
    BY DEF GoesOn, Onward, IInv, Typed, peer
  <1>7. SameRequests /\ \A r : Sent(r)' => Sent(r)
    BY <1>1, RequestsStay DEF SameRequests
  <1>2. SameNumbers /\ \A u \in Tasks : me'[u].op = me[u].op
    BY DEF GoesOn, Keeps, SameNumbers
  <1>3. \A u \in Tasks : Unsent(u)' => Unsent(u)
    BY DEF GoesOn, Keeps, Unsent
  <1>4. Ordered'
    BY <1>1, <1>2, <1>3, <1>7, OrderedStays DEF admission, Onward
  <1>5. Updates'
    BY <1>1, <1>2, <1>3, <1>7, UpdatesStay DEF IInv, Onward
  <1>6. InFlight'
    <2>1. \A u \in Tasks : Blameless(u)
      <3>1. ASSUME NEW u \in Tasks \ {t} PROVE me'[u] = me[u]
        BY DEF GoesOn, Keeps
      <3>2. /\ me[t].at # "idle" /\ me'[t].op = me[t].op
            /\ me'[t].alters = me[t].alters /\ me'[t].req = me[t].req
        BY DEF GoesOn, Keeps
      <3>3. QED
        BY <3>1, <3>2 DEF Blameless
    <2>2. repeats' \in Nat /\ repeats' >= repeats
      BY <1>1
    <2>3. QED
      BY <1>1, <2>1, <2>2, QuietInFlight DEF IInv
  <1>8. QED
    BY <1>1, <1>4, <1>5, <1>6, <1>7 DEF Unspoken

(* The invariant while a dropped connection is awaited.                    *)
LEMMA AwaitsIInv ==
    ASSUME IInv, NEW t \in Tasks, NEW label \in Labels,
           NEW error \in {"none", "timeout", "cancelled"}, Awaits(t, label, error)
    PROVE  IInv'
  <1>1. /\ me[t].at = "connecting"
        /\ label \in {"dispose_attempt", "dispose_late", "dispose_retired"}
        /\ label = "dispose_retired" => Adm!Invalidated
        /\ label # "dispose_retired" => error # "none"
        /\ wire' = WithGone(wire, {me[t].mine})
        /\ running' = NoTask /\ UNCHANGED admission /\ UNCHANGED client /\ UNCHANGED peer
    BY DEF Awaits
  <1>2. error = "cancelled" => me[t].asked
    BY DEF Awaits, IInv, Cancellations
  <1>3. GoesOn(t, label, me[t].mine, me[t].got, error)
    BY AwaitsFacts DEF IInv
  <1>4. /\ me[t].at \notin {"idle", "queued"} /\ ~Exchanging(t) /\ Trying(t) /\ ~Unsent(t)'
        /\ me[t].mine \in Conns /\ client.conn = NoConn /\ NoConn \notin Conns
        /\ State(me[t].mine) # "unused" /\ me[t].op = "connect"
        /\ me[t].got = NoReply /\ me[t].outcome = "none"
    BY <1>1, <1>3 DEF Exchanging, Trying, IInv, Connections, CallHasConnection, Conns,
       NoConn, Control, CallIsExact, Responses, AnswerIsOwn, Unsent, GoesOn
  <1>5. label \in Labels \ {"idle", "queued"}
    BY <1>1
  <1>7. wire' \in [Conns -> Links] /\ \A u \in Conns : Fades(u) /\ Dims(u)
    BY <1>1, <1>4, GoneFades, FadesDims DEF IInv, State
  <1>6. /\ Onward(t) /\ Ordered' /\ Updates' /\ InFlight' /\ Unspoken(t)
    <2>1. ~Flying(t)' /\ \A u \in Conns : wire'[u].flight = wire[u].flight
      BY <1>1, <1>3, <1>7 DEF Flying, GoesOn, Dims
    <2>2. QED
      BY <1>1, <1>3, <1>4, <1>5, <2>1, SilentFacts
  <1>8. /\ ClientIsExact' /\ MonitorIsOfConnection' /\ client' \in Clients
        /\ Transport' = Transport /\ (Adm!Invalidated' <=> Adm!Invalidated)
    BY <1>1, <1>4 DEF IInv, Typed, Connections, ClientIsExact, MonitorIsOfConnection,
       Transport, admission, Adm!Invalidated
  <1>9. OpenConnectionsAreOwned'
    <2>1. ASSUME NEW s \in Conns, wire'[s].state \in {"opening", "open"}
          PROVE  FALSE
      <3>1. wire'[s] = wire[s] /\ s # me[t].mine
        BY <1>1, <2>1, GoneFacts DEF IInv
      <3>2. QED
        BY <1>4, <2>1, <3>1, OpenIsMine DEF IInv, Connections
    <2>2. QED
      BY <2>1 DEF OpenConnectionsAreOwned, State
  <1>10. CallIsExact(t)' /\ CallHasConnection(t)' /\ AnswerIsOwn(t)'
    <2>1. pc'[t] = "inside"
      BY <1>1, <1>4, ActingFacts DEF IInv, admission
    <2>2. me'[t].at = label /\ me'[t].op = "connect" /\ me'[t].outcome = "none"
          /\ me'[t].got = NoReply /\ running' # t
      BY <1>1, <1>3, <1>4, TurnAssumption DEF GoesOn, Keeps
    <2>3. QED
      BY <1>1, <1>8, <2>1, <2>2 DEF CallIsExact, CallHasConnection, AnswerIsOwn,
         Disposing, InUse, Trying, Exchanging
  <1>11. Responses' /\ AnswersWereAsked'
    <2>1. me'[t].at # "accept"
      BY <1>1, <1>3 DEF GoesOn
    <2>2. QED
      BY <1>1, <1>4, <1>6, <1>7, <1>8, <1>10, <2>1, ResponsesStay, AsksStay DEF peer
  <1>12. \A s \in Conns : wire'[s].state \in {"unused", "opening", "refused"} => Quiet(s)'
    <2>1. ASSUME NEW s \in Conns, wire'[s].state \in {"unused", "opening", "refused"}
          PROVE  wire'[s] = wire[s]
      BY <1>1, <2>1, GoneFacts DEF IInv
    <2>2. QED
      BY <2>1 DEF IInv, Connections, State, Quiet
  <1>13. EnoughConnections'
    <2>1. Needing' \subseteq Needing
      BY <1>1, <1>3, <1>8 DEF Needing, Creates, GoesOn, Keeps
    <2>2. Unused' = Unused
      BY <1>7 DEF Unused, Fades, State
    <2>3. QED
      BY <2>1, <2>2, NeedingShrinks DEF IInv
  <1>14. running' \in {t, NoTask} /\ me'[t].at = label /\ me'[t].error = error
    BY <1>1, <1>3 DEF GoesOn
  <1>15. QED
    BY <1>1, <1>2, <1>4, <1>6, <1>7, <1>8, <1>9, <1>10, <1>11, <1>12, <1>13, <1>14,
       OnwardIInv
(* A call that goes on over the connections as they are.                   *)
LEMMA StillWire ==
    ASSUME IInv, NEW t \in Tasks, me[t].at \notin {"idle", "queued"},
           NEW label \in Labels \ {"idle", "queued", "start"}, NEW s, NEW got, NEW error,
           GoesOn(t, label, s, got, error), wire' = wire, Transport' = Transport
    PROVE  /\ wire' \in [Conns -> Links] /\ \A u \in Conns : Dims(u)
           /\ \A u \in Conns : wire'[u].state \in {"unused", "opening", "refused"} =>
                Quiet(u)'
           /\ EnoughConnections'
  <1>1. wire' \in [Conns -> Links] /\ \A u \in Conns : Dims(u)
    BY WireStays, FadesDims DEF IInv
  <1>2. \A u \in Conns : wire'[u].state \in {"unused", "opening", "refused"} => Quiet(u)'
    BY DEF IInv, Connections, State, Quiet
  <1>3. EnoughConnections'
    <2>1. Needing' \subseteq Needing
      BY DEF Needing, Creates, GoesOn, Keeps
    <2>2. Unused' = Unused
      BY DEF Unused, State
    <2>3. QED
      BY <2>1, <2>2, NeedingShrinks DEF IInv
  <1>4. QED
    BY <1>1, <1>2, <1>3

(* The invariant after a datagram socket became the client's.              *)
LEMMA BindsIInv ==
    ASSUME IInv, NEW t \in Tasks, Binds(t)
    PROVE  IInv'
  <1> DEFINE s == me[t].mine
  <1>1. /\ me[t].at = "bind" /\ State(s) = "open" /\ ~Adm!Invalidated
        /\ running' = t /\ client' = [client EXCEPT !.conn = s]
        /\ UNCHANGED admission /\ wire' = wire /\ UNCHANGED peer
    BY DEF Binds
  <1>2. GoesOn(t, "send", s, me[t].got, me[t].error)
    BY BindsFacts DEF IInv
  <1>3. /\ me[t].at \notin {"idle", "queued"} /\ ~Exchanging(t) /\ Unsent(t) /\ Trying(t)
        /\ s \in Conns /\ client.conn = NoConn /\ NoConn \notin Conns
        /\ client.udpConnected /\ Transport = "udp" /\ Cost(me[t].op) > 0
        /\ me[t].got = NoReply /\ me[t].outcome = "none" /\ me[t].op # "none"
    BY <1>1 DEF Exchanging, Trying, IInv, Connections, CallHasConnection, Conns,
       NoConn, Control, CallIsExact, Responses, AnswerIsOwn, Unsent
  <1>4. "send" \in Labels \ {"idle", "queued", "start"}
    BY DEF Labels
  <1>5. /\ Onward(t) /\ Ordered' /\ Updates' /\ InFlight' /\ Unspoken(t)
    <2>1. ~Flying(t)'
      BY <1>2 DEF Flying, GoesOn
    <2>2. QED
      BY <1>1, <1>2, <1>3, <1>4, <2>1, SilentFacts
  <1>6. /\ client' \in Clients /\ client'.conn = s
        /\ client'.udpConnected = client.udpConnected
        /\ client'.monitor = client.monitor /\ client'.transport = client.transport
    BY <1>1, <1>3 DEF IInv, Typed, Clients
  <1>7. Transport' = Transport /\ ~Adm!Invalidated'
    BY <1>1, <1>6 DEF Transport, admission, Adm!Invalidated
  <1>8. /\ wire' \in [Conns -> Links] /\ \A u \in Conns : Dims(u)
        /\ \A u \in Conns : wire'[u].state \in {"unused", "opening", "refused"} => Quiet(u)'
        /\ EnoughConnections'
    BY <1>1, <1>2, <1>3, <1>4, <1>7, StillWire
  <1>9. ClientIsExact' /\ MonitorIsOfConnection'
    BY <1>1, <1>3, <1>6, <1>7 DEF ClientIsExact, MonitorIsOfConnection, Transport, State
  <1>10. OpenConnectionsAreOwned'
    <2>1. ASSUME NEW u \in Conns, wire[u].state \in {"opening", "open"}
          PROVE  u = client'.conn
      BY <1>3, <1>6, <2>1, OpenIsMine DEF IInv, Connections
    <2>2. QED
      BY <1>1, <2>1 DEF OpenConnectionsAreOwned, State
  <1>11. CallIsExact(t)' /\ CallHasConnection(t)' /\ AnswerIsOwn(t)'
    <2>1. pc'[t] = "inside"
      BY <1>1, <1>3, ActingFacts DEF IInv, admission
    <2>2. me'[t].at = "send" /\ me'[t].op = me[t].op /\ me'[t].outcome = "none"
          /\ me'[t].got = NoReply /\ me'[t].mine = s
      BY <1>1, <1>2, <1>3 DEF GoesOn, Keeps
    <2>3. QED
      BY <1>1, <1>3, <1>6, <1>7, <2>1, <2>2 DEF CallIsExact, CallHasConnection,
         AnswerIsOwn, Disposing, InUse, Trying, Exchanging, State, Transport
  <1>12. Responses' /\ AnswersWereAsked'
    <2>1. me'[t].at # "accept"
      BY <1>1, <1>2 DEF GoesOn
    <2>2. QED
      BY <1>1, <1>3, <1>5, <1>7, <1>8, <1>11, <2>1, ResponsesStay, AsksStay DEF peer
  <1>13. /\ running' \in {t, NoTask} /\ me'[t].at = "send"
         /\ me'[t].error = "cancelled" => me[t].asked
    BY <1>1, <1>2 DEF GoesOn, IInv, Cancellations
  <1>14. ~Disposing(t)'
    BY <1>13 DEF Disposing
  <1>15. QED
    BY <1>3, <1>5, <1>6, <1>7, <1>8, <1>9, <1>10, <1>11, <1>12, <1>13, <1>14, OnwardIInv

(* The invariant after a request took the socket of the last.              *)
LEMMA ReusesIInv ==
    ASSUME IInv, NEW t \in Tasks, Reuses(t)
    PROVE  IInv'
  <1> DEFINE s == client.conn
  <1>1. /\ me[t].at = "start" /\ Cost(me[t].op) > 0
        /\ Transport = "udp" /\ s # NoConn
        /\ UNCHANGED admission /\ running' = running /\ client' = client
        /\ wire' = wire /\ UNCHANGED peer
    BY DEF Reuses
  <1>2. GoesOn(t, "send", s, me[t].got, me[t].error)
    BY ReusesFacts DEF IInv
  <1>3. /\ me[t].at \notin {"idle", "queued"} /\ ~Exchanging(t) /\ Unsent(t) /\ ~Trying(t)
        /\ s \in Conns /\ State(s) = "open" /\ ~Adm!Invalidated /\ running = t
        /\ me[t].got = NoReply /\ me[t].outcome = "none" /\ me[t].op # "none"
    BY <1>1 DEF Exchanging, Trying, IInv, Connections, CallHasConnection, ClientIsExact,
       Disconnected, Typed, Clients, NoConn, Control, CallIsExact, Responses,
       AnswerIsOwn, Unsent
  <1>4. "send" \in Labels \ {"idle", "queued", "start"}
    BY DEF Labels
  <1>5. /\ Onward(t) /\ Ordered' /\ Updates' /\ InFlight' /\ Unspoken(t)
    <2>1. ~Flying(t)'
      BY <1>2 DEF Flying, GoesOn
    <2>2. QED
      BY <1>1, <1>2, <1>3, <1>4, <2>1, SilentFacts
  <1>6. client' \in Clients /\ Transport' = Transport /\ ~Adm!Invalidated'
    BY <1>1, <1>3 DEF Transport, IInv, Typed, admission, Adm!Invalidated
  <1>7. /\ wire' \in [Conns -> Links] /\ \A u \in Conns : Dims(u)
        /\ \A u \in Conns : wire'[u].state \in {"unused", "opening", "refused"} => Quiet(u)'
        /\ EnoughConnections'
    BY <1>1, <1>2, <1>3, <1>4, <1>6, StillWire
  <1>8. ClientIsExact' /\ MonitorIsOfConnection'
    BY <1>1, <1>3, <1>6 DEF IInv, Connections, ClientIsExact, MonitorIsOfConnection,
       Transport, State
  <1>9. OpenConnectionsAreOwned'
    <2>1. ASSUME NEW u \in Conns, wire[u].state \in {"opening", "open"}
          PROVE  u = client.conn
      BY <1>3, <2>1, OpenIsMine DEF IInv, Connections
    <2>2. QED
      BY <1>1, <2>1 DEF OpenConnectionsAreOwned, State
  <1>10. CallIsExact(t)' /\ CallHasConnection(t)' /\ AnswerIsOwn(t)'
    <2>1. pc'[t] = "inside"
      BY <1>1, <1>3, ActingFacts DEF IInv, admission
    <2>2. me'[t].at = "send" /\ me'[t].op = me[t].op /\ me'[t].outcome = "none"
          /\ me'[t].got = NoReply /\ me'[t].mine = s
      BY <1>1, <1>2, <1>3 DEF GoesOn, Keeps
    <2>3. QED
      BY <1>1, <1>3, <1>6, <2>1, <2>2 DEF CallIsExact, CallHasConnection,
         AnswerIsOwn, Disposing, InUse, Trying, Exchanging, State, Transport
  <1>11. Responses' /\ AnswersWereAsked'
    <2>1. me'[t].at # "accept"
      BY <1>1, <1>2 DEF GoesOn
    <2>2. QED
      BY <1>1, <1>3, <1>5, <1>6, <1>7, <1>10, <2>1, ResponsesStay, AsksStay DEF peer
  <1>12. /\ running' \in {t, NoTask} /\ me'[t].at = "send"
         /\ me'[t].error = "cancelled" => me[t].asked
    BY <1>1, <1>2, <1>3 DEF GoesOn, IInv, Cancellations
  <1>13. ~Disposing(t)'
    BY <1>12 DEF Disposing
  <1>14. QED
    BY <1>3, <1>5, <1>6, <1>7, <1>8, <1>9, <1>10, <1>11, <1>12, <1>13, OnwardIInv

(* The invariant while a request goes on waiting.                          *)
LEMMA ContinuesIInv ==
    ASSUME IInv, NEW t \in Tasks, Continues(t)
    PROVE  IInv'
  <1> DEFINE s == me[t].mine
  <1>1. /\ Exchanging(t) /\ UNCHANGED admission /\ running' = running /\ client' = client
        /\ wire' = wire /\ UNCHANGED peer
    BY DEF Continues, Exchanging
  <1>2. GoesOn(t, "receive", s, me[t].got, me[t].error)
    BY ContinuesFacts DEF IInv
  <1>3. /\ me[t].at \notin {"idle", "queued"} /\ ~Trying(t) /\ InUse(t) /\ running # t
        /\ s \in Conns /\ State(s) \in {"open", "closed"}
        /\ Adm!Invalidated \/ client.conn = s
        /\ Cost(me[t].op) > 0
        /\ me[t].got = NoReply /\ me[t].outcome = "none" /\ me[t].op # "none"
    BY <1>1 DEF Exchanging, InUse, Trying, IInv, Connections, CallHasConnection,
       Control, CallIsExact, Responses, AnswerIsOwn
  <1>4. "receive" \in Labels \ {"idle", "queued", "start"}
    BY DEF Labels, Suspended
  <1>5. ~Unsent(t)' /\ me'[t].at = "receive" /\ me'[t].mine = s /\ Exchanging(t)'
        /\ me'[t].req = me[t].req /\ me'[t].got = me[t].got
    BY <1>2 DEF Unsent, Exchanging, GoesOn
  <1>6. /\ Onward(t) /\ Ordered' /\ Updates' /\ InFlight' /\ Unspoken(t)
    <2>1. Flying(t)
      BY <1>1 DEF Flying, Exchanging
    <2>2. QED
      BY <1>1, <1>2, <1>3, <1>4, <1>5, <2>1, SilentFacts
  <1>7. client' \in Clients /\ Transport' = Transport
        /\ (Adm!Invalidated' <=> Adm!Invalidated)
    BY <1>1, <1>3 DEF Transport, IInv, Typed, admission, Adm!Invalidated
  <1>8. /\ wire' \in [Conns -> Links] /\ \A u \in Conns : Dims(u)
        /\ \A u \in Conns : wire'[u].state \in {"unused", "opening", "refused"} => Quiet(u)'
        /\ EnoughConnections'
    BY <1>1, <1>2, <1>3, <1>4, <1>7, StillWire
  <1>9. ClientIsExact' /\ MonitorIsOfConnection'
    BY <1>1, <1>3, <1>7 DEF IInv, Connections, ClientIsExact, MonitorIsOfConnection,
       Transport, State
  <1>10. OpenConnectionsAreOwned'
    <2>1. ASSUME NEW u \in Conns, wire[u].state \in {"opening", "open"}
          PROVE  u = client.conn
      BY <1>3, <2>1, OpenIsMine DEF IInv, Connections
    <2>2. QED
      BY <1>1, <2>1 DEF OpenConnectionsAreOwned, State
  <1>11. CallIsExact(t)' /\ CallHasConnection(t)'
    <2>1. pc'[t] = "inside"
      BY <1>1, <1>3, ActingFacts DEF IInv, admission
    <2>2. me'[t].op = me[t].op /\ me'[t].outcome = "none"
      BY <1>2, <1>3 DEF GoesOn, Keeps
    <2>3. QED
      BY <1>1, <1>3, <1>5, <1>7, <2>1, <2>2 DEF CallIsExact, CallHasConnection,
         Disposing, InUse, Trying, State, Transport
  <1>12. AnswerIsOwn(t)'
    <2>1. repeats' = repeats /\ AnswerIsOwn(t)
      BY <1>1 DEF peer, IInv, Responses
    <2>2. QED
      BY <1>1, <1>3, <1>5, <1>7, <2>1 DEF AnswerIsOwn
  <1>13. Responses' /\ AnswersWereAsked'
    <2>1. me'[t].at # "accept"
      BY <1>5
    <2>2. QED
      BY <1>1, <1>3, <1>5, <1>6, <1>7, <1>8, <1>12, <2>1, ResponsesStay, AsksStay DEF peer
  <1>14. /\ running' \in {t, NoTask} /\ me'[t].at = "receive"
         /\ me'[t].error = "cancelled" => me[t].asked
    BY <1>1, <1>2, <1>3, <1>5, ActingFacts DEF GoesOn, IInv, Cancellations
  <1>15. ~Disposing(t)'
    BY <1>14 DEF Disposing
  <1>16. QED
    BY <1>3, <1>6, <1>7, <1>8, <1>9, <1>10, <1>11, <1>12, <1>13, <1>14, <1>15, OnwardIInv
(* The rest of a sequence of one is empty.                                 *)
LEMMA TailOfOne ==
    ASSUME NEW S, NEW q \in Seq(S), Len(q) = 1
    PROVE  Tail(q) = <<>>
  <1>1. Tail(q) \in Seq(S) /\ Len(Tail(q)) = 0
    OBVIOUS
  <1>2. QED
    BY <1>1, EmptySeq

(* The invariant after a response was taken.                               *)
LEMMA TakesIInv ==
    ASSUME IInv, NEW t \in Tasks, NEW reply \in Replies, Takes(t, reply)
    PROVE  IInv'
  <1> DEFINE s == me[t].mine
  <1>1. /\ me[t].at = "receive" /\ Exchanging(t)
        /\ UNCHANGED admission /\ running' = running /\ client' = client /\ UNCHANGED peer
    BY DEF Takes, Exchanging
  <1>2. GoesOn(t, "accept", s, reply, me[t].error)
    BY TakesFacts DEF IInv
  <1>3. /\ me[t].at \notin {"idle", "queued"} /\ ~Trying(t) /\ InUse(t) /\ running # t
        /\ s \in Conns /\ State(s) \in {"open", "closed"}
        /\ Adm!Invalidated \/ client.conn = s
        /\ Cost(me[t].op) > 0 /\ me[t].outcome = "none" /\ me[t].op # "none"
    BY <1>1 DEF Exchanging, InUse, Trying, IInv, Connections, CallHasConnection,
       Control, CallIsExact
  <1>4. "accept" \in Labels \ {"idle", "queued", "start"}
    BY DEF Labels, Suspended
  <1>5. ~Unsent(t)' /\ me'[t].at = "accept" /\ me'[t].mine = s /\ ~Exchanging(t)'
        /\ me'[t].req = me[t].req /\ me'[t].got = reply
    BY <1>2 DEF Unsent, Exchanging, GoesOn
  <1>7. client' \in Clients /\ Transport' = Transport
        /\ (Adm!Invalidated' <=> Adm!Invalidated)
    BY <1>1, <1>3 DEF Transport, IInv, Typed, admission, Adm!Invalidated
  <1>8. /\ wire' \in [Conns -> Links] /\ \A u \in Conns \ {s} : wire'[u] = wire[u]
        /\ wire'[s].state = wire[s].state /\ wire'[s].pending = wire[s].pending
        /\ wire'[s].response = wire[s].response /\ wire'[s].reply = wire[s].reply
        /\ wire'[s].flight = wire[s].flight
        /\ \/ wire'[s].inbox = wire[s].inbox /\ Transport = "udp"
           \/ /\ wire[s].inbox # <<>> /\ wire'[s].inbox = Tail(wire[s].inbox)
    <2>1. CASE wire' = [wire EXCEPT ![s].inbox = Tail(@)] /\ wire[s].inbox # <<>>
      BY <1>3, <2>1, TakesWire DEF IInv, Rewires
    <2>2. CASE wire' = wire /\ Transport = "udp"
      BY <2>2 DEF IInv, Typed
    <2>3. QED
      BY <2>1, <2>2 DEF Takes
  <1>6. /\ Onward(t) /\ Ordered' /\ Updates' /\ InFlight' /\ Unspoken(t)
    <2>1. Flying(t) /\ \A u \in Conns : wire'[u].flight = wire[u].flight
      BY <1>1, <1>8 DEF Flying
    <2>2. QED
      BY <1>1, <1>2, <1>3, <1>4, <1>5, <2>1, SilentFacts
  <1>9. \A u \in Conns : Dims(u)
    <2>1. wire[s].inbox \in Seq(Answers)
      BY <1>3 DEF IInv, Typed, Links
    <2>2. Dims(s)
      <3>1. CASE wire'[s].inbox = wire[s].inbox
        BY <1>8, <3>1 DEF Dims
      <3>2. CASE wire[s].inbox # <<>> /\ wire'[s].inbox = Tail(wire[s].inbox)
        <4>1. \A i \in DOMAIN Tail(wire[s].inbox) :
                i + 1 \in DOMAIN wire[s].inbox
                /\ Tail(wire[s].inbox)[i] = wire[s].inbox[i + 1]
          BY <2>1, <3>2
        <4>2. QED
          BY <1>8, <3>2, <4>1 DEF Dims
      <3>3. QED
        BY <1>8, <3>1, <3>2
    <2>3. ASSUME NEW u \in Conns \ {s} PROVE Dims(u)
      BY <1>8 DEF Dims
    <2>4. QED
      BY <2>2, <2>3
  <1>10. \A u \in Conns : wire'[u].state \in {"unused", "opening", "refused"} => Quiet(u)'
    BY <1>3, <1>8 DEF IInv, Connections, State, Quiet
  <1>11. EnoughConnections'
    <2>1. Needing' \subseteq Needing
      BY <1>2, <1>7 DEF Needing, Creates, GoesOn, Keeps
    <2>2. Unused' = Unused
      BY <1>8 DEF Unused, State
    <2>3. QED
      BY <2>1, <2>2, NeedingShrinks DEF IInv
  <1>12. ClientIsExact' /\ MonitorIsOfConnection'
    <2>1. client.conn # NoConn => client.conn \in Conns
      BY DEF IInv, Typed, Clients
    <2>2. QED
      BY <1>1, <1>3, <1>7, <1>8, <2>1 DEF IInv, Connections, ClientIsExact,
         MonitorIsOfConnection, Transport, State
  <1>13. OpenConnectionsAreOwned'
    <2>1. ASSUME NEW u \in Conns, wire'[u].state \in {"opening", "open"}
          PROVE  u = client.conn
      BY <1>3, <1>8, <2>1, OpenIsMine DEF IInv, Connections
    <2>2. QED
      BY <1>1, <2>1 DEF OpenConnectionsAreOwned, State
  <1>14. CallIsExact(t)' /\ CallHasConnection(t)'
    <2>1. pc'[t] = "inside"
      BY <1>1, <1>3, ActingFacts DEF IInv, admission
    <2>2. me'[t].op = me[t].op /\ me'[t].outcome = "none"
      BY <1>2, <1>3 DEF GoesOn, Keeps
    <2>3. QED
      BY <1>1, <1>3, <1>5, <1>7, <1>8, <2>1, <2>2 DEF CallIsExact, CallHasConnection,
         Disposing, InUse, Trying, State, Transport
  <1>15. /\ reply.since = me[t].req /\ (repeats = 0 => reply.req = me[t].req)
         /\ Got(reply.req) /\ reply.kind \in Kinds
         /\ repeats = 0 => /\ wire'[s].pending = {} /\ wire'[s].inbox = <<>>
                           /\ wire'[s].flight = {}
    <2>1. AnswerIsOwn(t)
      BY DEF IInv, Responses
    <2>2. CASE Transport = "tcp" /\ wire[s].inbox # <<>> /\ reply = Head(wire[s].inbox)
               /\ wire' = [wire EXCEPT ![s].inbox = Tail(@)]
      <3>1. wire[s].inbox \in Seq(Answers)
        BY <1>3 DEF IInv, Typed, Links
      <3>2. 1 \in DOMAIN wire[s].inbox /\ reply = wire[s].inbox[1] /\ reply \in Answers
        BY <2>2, <3>1
      <3>3. wire'[s].inbox = Tail(wire[s].inbox)
        BY <1>3, <2>2, TakesWire DEF IInv
      <3>4. Len(wire[s].inbox) = 1 => Tail(wire[s].inbox) = <<>>
        BY <2>2, <3>1, TailOfOne
      <3>5. Got(reply.req) /\ reply.kind \in Kinds
        BY <1>3, <3>2 DEF IInv, AnswersWereAsked, Answers
      <3>6. QED
        BY <1>1, <1>8, <2>1, <2>2, <3>2, <3>3, <3>4, <3>5 DEF AnswerIsOwn
    <2>3. CASE Transport = "udp" /\ wire[s].response = "done" /\ reply = wire[s].reply
               /\ wire' = wire
      <3>1. wire[s].inbox = <<>>
        BY <1>3, <2>3 DEF IInv, Responses
      <3>2. Got(reply.req) /\ reply.kind \in Kinds
        BY <1>3, <2>3 DEF IInv, AnswersWereAsked
      <3>3. QED
        BY <1>1, <2>1, <2>3, <3>1, <3>2 DEF AnswerIsOwn
    <2>4. QED
      BY <2>2, <2>3 DEF Takes
  <1>16. AnswerIsOwn(t)'
    BY <1>1, <1>5, <1>15 DEF AnswerIsOwn, peer
  <1>17. Responses' /\ AnswersWereAsked'
    BY <1>1, <1>3, <1>5, <1>6, <1>7, <1>9, <1>15, <1>16, ResponsesStay, AsksStay DEF peer
  <1>18. /\ running' \in {t, NoTask}
         /\ me'[t].error = "cancelled" => me[t].asked
    BY <1>1, <1>2, <1>3, <1>5, ActingFacts DEF GoesOn, IInv, Cancellations
  <1>19. ~Disposing(t)'
    BY <1>5 DEF Disposing
  <1>20. QED
    BY <1>3, <1>6, <1>7, <1>8, <1>10, <1>11, <1>12, <1>13, <1>14, <1>17, <1>18, <1>19,
       OnwardIInv

(* The invariant after a connection was begun.                             *)
LEMMA OpensIInv ==
    ASSUME IInv, NEW t \in Tasks, NEW label \in Labels, Opens(t, label)
    PROVE  IInv'
  <1>0. PICK s : s = NextConn
    OBVIOUS
  <1>1. /\ me[t].at = "start" /\ ~(me[t].op = "bit" /\ Changing(t))
        /\ client.conn = NoConn /\ label \in {"connecting", "bind"}
        /\ label = "connecting" => me[t].op = "connect" /\ ~client.udpConnected
        /\ label = "bind" => Cost(me[t].op) > 0 /\ Transport = "udp" /\ client.udpConnected
        /\ wire' = [wire EXCEPT ![s].state = "opening"]
        /\ running' = NoTask
        /\ UNCHANGED admission /\ client' = client /\ UNCHANGED peer
    BY <1>0 DEF Opens
  <1>2. t \in Needing
    <2>1. Creates(me[t].op)
      BY <1>1 DEF Creates
    <2>2. QED
      BY <1>1, <2>1 DEF Needing, Changing
  <1>3. s \in Conns /\ State(s) = "unused" /\ IsFiniteSet(Unused)
    BY <1>0, <1>2, NextConnFacts DEF IInv
  <1>4. GoesOn(t, label, s, me[t].got, me[t].error)
    BY <1>0, <1>3, OpensFacts DEF IInv
  <1>5. /\ me[t].at \notin {"idle", "queued"} /\ ~Trying(t) /\ Unsent(t) /\ ~Exchanging(t)
        /\ me[t].outcome = "none" /\ me[t].op # "none" /\ me[t].got = NoReply
    BY <1>1 DEF Exchanging, Trying, Unsent, IInv, Control, CallIsExact, Responses,
       AnswerIsOwn
  <1>6. label \in Labels \ {"idle", "queued"}
    BY <1>1
  <1>7. me'[t].at = label /\ me'[t].mine = s /\ me'[t].got = NoReply
        /\ me'[t].op = me[t].op /\ me'[t].outcome = "none"
        /\ ~Exchanging(t)' /\ ~Disposing(t)' /\ ~InUse(t)' /\ Trying(t)'
    BY <1>1, <1>4, <1>5 DEF Exchanging, Disposing, InUse, Trying, GoesOn, Keeps
  <1>9. client' \in Clients /\ Transport' = Transport
        /\ (Adm!Invalidated' <=> Adm!Invalidated)
    BY <1>1 DEF Transport, IInv, Typed, admission, Adm!Invalidated
  <1>10. Rewires(s) /\ wire'[s].state = "opening" /\ SameButState(s)
    BY <1>1, <1>3, StateFacts DEF IInv
  <1>11. Quiet(s) /\ Quiet(s)'
    BY <1>3, <1>10 DEF IInv, Connections, Quiet, SameButState
  <1>12. \A u \in Conns : Dims(u)
    <2>1. Dims(s)
      BY <1>10, <1>11 DEF Dims, SameButState, Quiet
    <2>2. ASSUME NEW u \in Conns \ {s} PROVE Dims(u)
      BY <1>10 DEF Dims, Rewires
    <2>3. QED
      BY <2>1, <2>2
  <1>8. /\ Onward(t) /\ Ordered' /\ Updates' /\ InFlight' /\ Unspoken(t)
    <2>1. ~Flying(t)' /\ \A u \in Conns : wire'[u].flight = wire[u].flight
      BY <1>7, <1>12 DEF Flying, Trying, Dims
    <2>2. QED
      BY <1>1, <1>4, <1>5, <1>6, <2>1, SilentFacts
  <1>13. \A u \in Conns : wire'[u].state \in {"unused", "opening", "refused"} => Quiet(u)'
    <2>1. ASSUME NEW u \in Conns \ {s}, wire'[u].state \in {"unused", "opening", "refused"}
          PROVE  Quiet(u)'
      BY <1>10, <2>1 DEF IInv, Connections, State, Quiet, Rewires
    <2>2. QED
      BY <1>11, <2>1
  <1>14. EnoughConnections'
    <2>1. Needing' \subseteq Needing \ {t}
      BY <1>1, <1>4, <1>7, <1>9 DEF Needing, Creates, GoesOn, Keeps
    <2>2. Unused' = Unused \ {s}
      BY <1>3, <1>10 DEF Unused, State, Rewires
    <2>3. s \in Unused
      BY <1>3 DEF Unused, State
    <2>4. /\ IsFiniteSet(Needing \ {t})
          /\ Cardinality(Needing \ {t}) = Cardinality(Needing) - 1
          /\ Cardinality(Needing) \in Nat
      BY <1>2, FS_RemoveElement, FS_CardinalityType DEF IInv, EnoughConnections
    <2>5. /\ Cardinality(Unused \ {s}) = Cardinality(Unused) - 1
          /\ Cardinality(Unused) \in Nat
      BY <1>3, <2>3, FS_RemoveElement, FS_CardinalityType
    <2>6. IsFiniteSet(Needing') /\ Cardinality(Needing') <= Cardinality(Needing \ {t})
          /\ Cardinality(Needing') \in Nat
      BY <2>1, <2>4, FS_Subset, FS_CardinalityType
    <2>7. Cardinality(Unused)' = Cardinality(Unused) - 1
      BY <2>2, <2>5
    <2>8. Cardinality(Unused) >= Cardinality(Needing)
      BY DEF IInv, EnoughConnections
    <2>9. QED
      BY <2>4, <2>5, <2>6, <2>7, <2>8 DEF EnoughConnections
  <1>15. ClientIsExact' /\ MonitorIsOfConnection'
    BY <1>1, <1>9 DEF IInv, Connections, ClientIsExact, MonitorIsOfConnection, Transport
  <1>16. OpenConnectionsAreOwned'
    <2>1. ASSUME NEW u \in Conns, wire'[u].state \in {"opening", "open"}
          PROVE  u = client.conn \/ u = s
      BY <1>5, <1>10, <2>1, OpenIsMine DEF IInv, Connections, Rewires
    <2>2. QED
      BY <1>1, <1>7, <2>1 DEF OpenConnectionsAreOwned, State, Trying
  <1>17. CallIsExact(t)' /\ CallHasConnection(t)' /\ AnswerIsOwn(t)'
    <2>1. pc'[t] = "inside" /\ running' # t
      BY <1>1, <1>5, ActingFacts, TurnAssumption DEF IInv, admission
    <2>2. CallIsExact(t)'
      BY <1>1, <1>5, <1>7, <1>9, <2>1 DEF CallIsExact
    <2>3. CallHasConnection(t)'
      BY <1>1, <1>3, <1>7, <1>9, <1>10, <1>11 DEF CallHasConnection, State
    <2>4. AnswerIsOwn(t)'
      BY <1>1, <1>7 DEF AnswerIsOwn
    <2>5. QED
      BY <2>2, <2>3, <2>4
  <1>18. Responses' /\ AnswersWereAsked'
    <2>1. me'[t].at # "accept"
      BY <1>1, <1>7
    <2>2. QED
      BY <1>1, <1>5, <1>8, <1>9, <1>12, <1>17, <2>1, ResponsesStay, AsksStay DEF peer
  <1>19. /\ running' \in {t, NoTask} /\ wire' \in [Conns -> Links]
         /\ me'[t].error = "cancelled" => me[t].asked
    BY <1>1, <1>4, <1>10 DEF GoesOn, IInv, Cancellations, Rewires
  <1>20. QED
    BY <1>5, <1>7, <1>8, <1>9, <1>13, <1>14, <1>15, <1>16, <1>17, <1>18, <1>19, OnwardIInv
(* A request that is sent is the last of those that were, and is the       *)
(* call's own.                                                             *)
LEMMA SentFacts ==
    ASSUME IInv, NEW t \in Tasks, me[t].at \notin {"idle", "queued"}, Unsent(t),
           NEW r \in Nat, r = me[t].req, r # 0, NEW s \in Conns,
           wire'[s].flight = wire[s].flight \cup {r},
           \A u \in Conns \ {s} : wire'[u].flight = wire[u].flight,
           received' = received
    PROVE  /\ owner = t /\ owner # NoTask
           /\ ~Sent(r)
           /\ \A n : Got(n)' <=> Got(n)
           /\ \A n : Sent(n)' <=> Sent(n) \/ n = r
           /\ \A n \in Nat : Sent(n) => n < r
  <1>1. owner = t /\ owner # NoTask /\ InLine(t)
    BY ActingFacts DEF IInv, InLine
  <1>2. \A n \in Nat : Sent(n) => n < r
    BY <1>1 DEF IInv, Ordered
  <1>3. ~Sent(r)
    BY <1>2
  <1>4. \A n : Got(n)' <=> Got(n)
    BY DEF Got
  <1>5. \A n : Sent(n)' <=> Sent(n) \/ n = r
    BY <1>4 DEF Sent
  <1>6. QED
    BY <1>1, <1>2, <1>3, <1>4, <1>5

(* The calls stay in the order of their requests.                          *)
LEMMA SentOrdered ==
    ASSUME IInv, NEW t \in Tasks, Unsent(t), ~Unsent(t)', owner = t, owner # NoTask,
           NEW r \in Nat, r = me[t].req, r # 0, r <= requests, SameNumbers,
           \A u \in Tasks \ {t} : me'[u] = me[u],
           \A n : Sent(n)' <=> Sent(n) \/ n = r,
           \A n \in Nat : Sent(n) => n < r,
           UNCHANGED <<queue, owner, requests>>
    PROVE  Ordered'
  <1>1. /\ queue \in Seq(Tasks) /\ \A i \in 1..Len(queue) : queue[i] \in Tasks
    BY DEF IInv, Admission, Adm!TypeOK
  <1>2. \A u, v \in Tasks : u # v /\ me'[u].alters # 0 =>
          me'[u].alters # me'[v].req /\ me'[u].alters # me'[v].alters
    BY DEF IInv, Ordered, SameNumbers
  <1>3. \A i, j \in 1..Len(queue) : i < j => Before(queue[i], queue[j])'
    BY <1>1 DEF IInv, Ordered, Before, SameNumbers
  <1>4. \A j \in 1..Len(queue) : Before(owner, queue[j])'
    BY <1>1 DEF IInv, Ordered, Before, SameNumbers
  <1>5. ASSUME NEW u \in Tasks, NEW n \in Nat, InLine(u)', me'[u].req # 0, Sent(n)'
        PROVE  n <= me'[u].req /\ (Unsent(u)' => n < me'[u].req)
    <2>1. InLine(u) /\ me'[u].req = me[u].req /\ me[u].req \in Nat
      BY <1>5 DEF InLine, Adm!Queued, SameNumbers, IInv, Typed, Calls
    <2>2. n <= r
      BY <1>5
    <2>3. CASE u = t
      BY <2>1, <2>2, <2>3
    <2>4. CASE u # t
      <3>1. PICK j \in 1..Len(queue) : queue[j] = u
        BY <2>1, <2>4 DEF InLine, Adm!Queued
      <3>2. r < me[u].req
        BY <1>5, <2>1, <3>1 DEF IInv, Ordered, Before
      <3>3. QED
        BY <2>1, <2>2, <3>2
    <2>5. QED
      BY <2>3, <2>4
  <1>6. \A n \in Nat : Sent(n)' => n <= requests'
    BY DEF IInv, Ordered
  <1>7. QED
    BY <1>2, <1>3, <1>4, <1>5, <1>6 DEF Ordered

(* Changes that the PLC must not have, it has not.                         *)
LEMMA SentUpdates ==
    ASSUME IInv, NEW t \in Tasks, ~Unsent(t)', NEW r, r = me[t].req, SameNumbers,
           \A u \in Tasks : me'[u].op = me[u].op,
           \A u \in Tasks \ {t} : me'[u] = me[u],
           \A n : Got(n)' <=> Got(n),
           \A n : Sent(n)' <=> Sent(n) \/ n = r,
           repeats' = repeats
    PROVE  Updates' /\ Unspoken(t)
  <1>1. \A u \in Tasks \ {t} : me[u].alters # 0 => me[u].alters # r
    BY DEF IInv, Ordered
  <1>2. ASSUME NEW u \in Tasks, me'[u].alters # 0
        PROVE  /\ Unsent(u)' \/ ~Changing(u)' => ~Sent(me[u].alters)'
               /\ repeats' = 0 /\ me'[u].op = "bit" /\ Changing(u)' =>
                    Got(me[u].alters - 1)'
    <2>1. PICK a, b : a = me[u].alters /\ b = me[u].alters - 1
      OBVIOUS
    <2>2. /\ me'[u].alters = a /\ me'[u].alters - 1 = b /\ a # 0
          /\ Changing(u)' <=> Changing(u)
          /\ Unsent(u)' => Unsent(u) /\ u # t
      BY <1>2, <2>1 DEF SameNumbers, Changing, Unsent
    <2>3. repeats' = 0 /\ me'[u].op = "bit" /\ Changing(u)' => Got(b)'
      BY <2>1, <2>2 DEF IInv, Updates
    <2>4. ASSUME Unsent(u)' \/ ~Changing(u)' PROVE ~Sent(a)'
      <3>1. ~Sent(a)
        BY <2>1, <2>2, <2>4 DEF IInv, Updates
      <3>2. a # r
        BY <1>1, <2>1, <2>2, <2>4 DEF Changing
      <3>3. QED
        BY <3>1, <3>2
    <2>5. QED
      BY <2>2, <2>3, <2>4 DEF Got, Sent
  <1>3. Updates'
    BY <1>2 DEF Updates
  <1>4. Unspoken(t)
    BY <1>1 DEF Unspoken
  <1>5. QED
    BY <1>3, <1>4

(* What is under way arrives once, with one more request under way.        *)
LEMMA SentInFlight ==
    ASSUME IInv, NEW t \in Tasks, me[t].at # "idle", NEW r, r = me[t].req, ~Sent(r),
           NEW s \in Conns,
           wire'[s].flight = wire[s].flight \cup {r},
           \A u \in Conns \ {s} : wire'[u].flight = wire[u].flight,
           SameNumbers, me'[t].op = me[t].op,
           \A u \in Tasks \ {t} : me'[u] = me[u],
           UNCHANGED <<received, late, repeats>>
    PROVE  InFlight'
  <1> SUFFICES ASSUME repeats = 0
               PROVE  (/\ \A c \in Conns : \A n \in wire[c].flight :
                            ~Got(n) /\ \A u \in Conns : n \in wire[u].flight => u = c
                       /\ \A i, j \in DOMAIN received :
                            i < j => received[i] < received[j] \/ received[j] \in late
                       /\ \A i, j \in DOMAIN received : i # j => received[i] # received[j]
                       /\ \A u \in Tasks :
                            /\ me[u].op = "bit" => ReadBefore(me[u].alters)
                            /\ me[u].alters \in late => LateIsUnknown(u)
                            /\ Flying(u) => me[u].req \notin late)'
    BY DEF InFlight
  <1>1. \A n : Got(n)' <=> Got(n)
    BY DEF Got
  <1>2. ~Got(r) /\ \A u \in Conns : r \notin wire[u].flight
    BY DEF Sent
  <1>3. \A c \in Conns : \A n \in wire'[c].flight :
          ~Got(n)' /\ \A u \in Conns : n \in wire'[u].flight => u = c
    BY <1>1, <1>2 DEF IInv, InFlight
  <1>4. ASSUME NEW u \in Tasks
        PROVE  /\ me'[u].op = "bit" => ReadBefore(me[u].alters)'
               /\ me'[u].alters \in late' => LateIsUnknown(u)'
               /\ Flying(u)' => me'[u].req \notin late'
    <2>1. /\ me[u].op = "bit" => ReadBefore(me[u].alters)
          /\ me[u].alters \in late => LateIsUnknown(u)
          /\ Flying(u) => me[u].req \notin late
      BY DEF IInv, InFlight
    <2>2. me'[u].alters = me[u].alters /\ me'[u].req = me[u].req /\ me'[u].op = me[u].op
      BY DEF SameNumbers
    <2>3. CASE u # t
      BY <2>1, <2>3 DEF ReadBefore, LateIsUnknown, Flying
    <2>4. CASE u = t
      <3>1. me[t].alters \notin late
        BY <2>1, <2>4 DEF LateIsUnknown
      <3>2. r \notin late
        BY <1>2 DEF IInv, AnswersWereAsked
      <3>3. QED
        BY <2>1, <2>2, <2>4, <3>1, <3>2 DEF ReadBefore
    <2>5. QED
      BY <2>3, <2>4
  <1>5. QED
    BY <1>3, <1>4 DEF IInv, InFlight, Got

(* The invariant after a request was written.                              *)
LEMMA SendsIInv ==
    ASSUME IInv, NEW t \in Tasks, NEW label \in Labels, NEW s \in Conns,
           Sends(t, label, s)
    PROVE  IInv'
  <1> DEFINE r == me[t].req
  <1>1. /\ Cost(me[t].op) > 0
        /\ \/ label = "drain" /\ me[t].at = "start" /\ Transport = "tcp"
              /\ s = client.conn /\ wire[s].inbox = <<>>
           \/ label = "receive" /\ me[t].at = "send" /\ Transport = "udp"
              /\ s = me[t].mine
        /\ running = t /\ running' = NoTask
        /\ UNCHANGED admission /\ client' = client
        /\ UNCHANGED <<received, late, requests, repeats, cancels>>
    BY DEF Sends, peer
  <1>2. GoesOn(t, label, s, me[t].got, me[t].error)
    BY SendsFacts DEF IInv
  <1>3. /\ me[t].at \notin {"idle", "queued"} /\ ~Trying(t) /\ Unsent(t) /\ ~Exchanging(t)
        /\ me[t].outcome = "none" /\ me[t].op # "none" /\ me[t].got = NoReply
        /\ client.conn = s /\ NoConn \notin Conns
    BY <1>1 DEF Exchanging, Trying, Unsent, IInv, Control, CallIsExact, Responses,
       AnswerIsOwn, Connections, CallHasConnection, Conns, NoConn
  <1>4. /\ State(s) = "open" /\ ~Adm!Invalidated /\ wire[s].inbox = <<>>
        /\ repeats = 0 => wire[s].pending = {} /\ wire[s].flight = {}
    <2>1. State(s) = "open" /\ ~Adm!Invalidated
      BY <1>3 DEF IInv, Connections, ClientIsExact, Disconnected
    <2>2. wire[s].inbox = <<>>
      BY <1>1 DEF IInv, Responses
    <2>3. \A u \in Tasks : ~Exchanging(u)
      BY <1>3, ActingFacts DEF IInv, Exchanging
    <2>4. QED
      BY <2>1, <2>2, <2>3 DEF IInv, Responses
  <1>5. r \in 1..requests /\ r \in 1..MaxRequests /\ r \in Nat
    <2>1. NumbersAreOwn(t) /\ me[t].op \in AllOperations \cup {"none"}
          /\ requests \in 0..MaxRequests
      BY DEF IInv, Control, Typed, Calls
    <2>2. r \in 1..requests
      BY <1>1, <1>3, <2>1 DEF NumbersAreOwn, AllOperations, Cost
    <2>3. QED
      BY <2>1, <2>2, ClientAssumption
  <1>6. /\ me'[t].at = label /\ me'[t].mine = s /\ me'[t].got = NoReply
        /\ me'[t].op = me[t].op /\ me'[t].outcome = "none" /\ me'[t].req = r
        /\ Exchanging(t)' /\ ~Disposing(t)' /\ InUse(t)' /\ ~Trying(t)' /\ ~Unsent(t)'
        /\ me'[t].at \in {"drain", "receive"}
    BY <1>1, <1>2, <1>3 DEF Exchanging, Disposing, InUse, Trying, Unsent, GoesOn, Keeps
  <1>7. /\ Onward(t) /\ SameNumbers /\ \A u \in Tasks : me'[u].op = me[u].op
        /\ \A u \in Tasks \ {t} : me'[u] = me[u]
        /\ UNCHANGED <<queue, owner, received, late, requests, repeats>>
    BY <1>1, <1>2, <1>6 DEF GoesOn, Keeps, Onward, SameNumbers, admission
  <1>8. /\ Rewires(s)
        /\ wire'[s].state = wire[s].state /\ wire'[s].inbox = wire[s].inbox
        /\ wire'[s].checked = r /\ wire'[s].reply = wire[s].reply
        /\ wire'[s].response = IF label = "drain" THEN wire[s].response ELSE "pending"
        /\ wire'[s].pending = wire[s].pending
        /\ wire'[s].flight = wire[s].flight \cup {r}
    BY <1>5, SendsWire DEF IInv
  <1>9. /\ Ordered' /\ Updates' /\ Unspoken(t) /\ InFlight'
        /\ \A n : Got(n)' <=> Got(n)
    <2>1. PICK q \in Nat : q = r
      BY <1>5
    <2>2. /\ wire'[s].flight = wire[s].flight \cup {q}
          /\ \A u \in Conns \ {s} : wire'[u].flight = wire[u].flight
          /\ q = me[t].req /\ q # 0 /\ q <= requests
      BY <1>5, <1>8, <2>1 DEF Rewires, IInv, Typed
    <2> HIDE DEF r
    <2>3. /\ owner = t /\ owner # NoTask /\ ~Sent(q)
          /\ \A n : Got(n)' <=> Got(n)
          /\ \A n : Sent(n)' <=> Sent(n) \/ n = q
          /\ \A n \in Nat : Sent(n) => n < q
      BY <1>3, <1>7, <2>2, SentFacts
    <2>4. Ordered'
      BY <1>3, <1>6, <1>7, <2>2, <2>3, SentOrdered
    <2>5. Updates' /\ Unspoken(t)
      BY <1>6, <1>7, <2>2, <2>3, SentUpdates
    <2>6. InFlight'
      BY <1>3, <1>6, <1>7, <2>2, <2>3, SentInFlight
    <2>7. QED
      BY <2>3, <2>4, <2>5, <2>6
  <1>10. client' \in Clients /\ Transport' = Transport /\ ~Adm!Invalidated'
    BY <1>1, <1>4 DEF Transport, IInv, Typed, admission, Adm!Invalidated
  <1>11. \A u \in Conns : wire'[u].state \in {"unused", "opening", "refused"} => Quiet(u)'
    BY <1>4, <1>8 DEF IInv, Connections, State, Quiet, Rewires
  <1>12. EnoughConnections'
    <2>1. Needing' \subseteq Needing
      BY <1>6, <1>7, <1>10 DEF Needing, Creates
    <2>2. Unused' = Unused
      BY <1>8 DEF Unused, State, Rewires
    <2>3. QED
      BY <2>1, <2>2, NeedingShrinks DEF IInv
  <1>13. ClientIsExact' /\ MonitorIsOfConnection'
    BY <1>1, <1>3, <1>4, <1>8, <1>10 DEF IInv, Connections, ClientIsExact,
       MonitorIsOfConnection, Transport, State
  <1>14. OpenConnectionsAreOwned'
    <2>1. ASSUME NEW u \in Conns, wire'[u].state \in {"opening", "open"}
          PROVE  u = client.conn
      <3>1. wire[u].state \in {"opening", "open"}
        BY <1>8, <2>1 DEF Rewires
      <3>2. QED
        BY <1>3, <3>1, OpenIsMine DEF IInv, Connections
    <2>2. QED
      BY <1>1, <2>1 DEF OpenConnectionsAreOwned, State
  <1>15. CallIsExact(t)' /\ CallHasConnection(t)'
    <2>1. pc'[t] = "inside" /\ running' # t
      BY <1>1, <1>3, ActingFacts, TurnAssumption DEF IInv, admission
    <2>2. CallIsExact(t)'
      BY <1>1, <1>3, <1>6, <1>10, <2>1 DEF CallIsExact
    <2>3. CallHasConnection(t)'
      BY <1>1, <1>3, <1>4, <1>6, <1>8 DEF CallHasConnection, State
    <2>4. QED
      BY <2>2, <2>3
  <1>16. AnswerIsOwn(t)'
    <2>1. /\ wire'[s].inbox = <<>> /\ DOMAIN wire'[s].inbox = {}
          /\ Transport = "udp" => wire'[s].response = "pending"
          /\ repeats = 0 => /\ wire'[s].pending = {} /\ wire'[s].flight \subseteq {r}
      BY <1>1, <1>4, <1>8
    <2>2. QED
      BY <1>6, <1>7, <1>8, <1>10, <2>1 DEF AnswerIsOwn
  <1>17. Responses'
    <2>1. ASSUME NEW u \in Tasks \ {t} PROVE AnswerIsOwn(u)'
      <3>1. me[u].at \in {"idle", "queued"} /\ me[u].got = NoReply
        BY <1>3, ActingFacts DEF IInv, Responses, AnswerIsOwn
      <3>2. QED
        BY <1>7, <3>1 DEF AnswerIsOwn, Exchanging
    <2>2. ASSUME NEW u \in Conns
          PROVE  /\ Transport' = "udp" => wire'[u].inbox = <<>>
                 /\ wire'[u].state = "open" => wire'[u].response # "cancelled"
      BY <1>8, <1>10 DEF IInv, Responses, State, Rewires
    <2>3. ASSUME NEW u \in Conns \ {s}, repeats = 0, wire'[u].state = "open"
          PROVE  wire'[u].pending = {} /\ wire'[u].inbox = <<>> /\ wire'[u].flight = {}
      <3>1. wire[u].state = "open" /\ wire'[u] = wire[u]
        BY <1>8, <2>3 DEF Rewires
      <3>2. \A v \in Tasks : ~Exchanging(v)
        BY <1>3, ActingFacts DEF IInv, Exchanging
      <3>3. QED
        BY <2>3, <3>1, <3>2 DEF IInv, Responses, State
    <2>4. QED
      BY <1>6, <1>7, <1>16, <2>1, <2>2, <2>3 DEF Responses, State
  <1>18. AnswersWereAsked'
    <2>1. ASSUME NEW u \in Conns
          PROVE  /\ \A n \in wire'[u].pending : Got(n)'
                 /\ \A i \in DOMAIN wire'[u].inbox : Got(wire[u].inbox[i].req)'
                 /\ wire'[u].response = "done" =>
                      Got(wire[u].reply.req)' /\ wire'[u].reply.kind \in Kinds
      <3>1. /\ \A n \in wire[u].pending : Got(n)
            /\ \A i \in DOMAIN wire[u].inbox : Got(wire[u].inbox[i].req)
            /\ wire[u].response = "done" =>
                 Got(wire[u].reply.req) /\ wire[u].reply.kind \in Kinds
        BY DEF IInv, AnswersWereAsked
      <3>2. /\ wire'[u].inbox = wire[u].inbox /\ wire'[u].reply = wire[u].reply
            /\ wire'[u].response = "done" => wire[u].response = "done"
            /\ wire'[u].pending = wire[u].pending
        BY <1>8 DEF Rewires
      <3>3. \A n \in wire'[u].pending : Got(n)'
        BY <1>9, <3>1, <3>2
      <3>4. ASSUME NEW i \in DOMAIN wire'[u].inbox PROVE Got(wire[u].inbox[i].req)'
        BY <1>9, <3>1, <3>2 DEF Got
      <3>5. wire'[u].response = "done" =>
              Got(wire[u].reply.req)' /\ wire'[u].reply.kind \in Kinds
        BY <1>9, <3>1, <3>2 DEF Got
      <3>6. QED
        BY <3>3, <3>4, <3>5
    <2>2. \A u \in Tasks : me'[u].at # "accept"
      BY <1>3, <1>6, <1>7, ActingFacts DEF IInv
    <2>3. \A n \in late' : Got(n)'
      BY <1>7, <1>9 DEF IInv, AnswersWereAsked
    <2>4. QED
      BY <2>1, <2>2, <2>3 DEF AnswersWereAsked
  <1>19. /\ running' \in {t, NoTask} /\ wire' \in [Conns -> Links]
         /\ me'[t].error = "cancelled" => me[t].asked
    BY <1>1, <1>2, <1>8 DEF GoesOn, IInv, Cancellations, Rewires
  <1>20. QED
    BY <1>3, <1>6, <1>7, <1>9, <1>10, <1>11, <1>12, <1>13, <1>14, <1>15, <1>17, <1>18,
       <1>19, OnwardIInv
(* The word of a bit goes back in the same turn.                           *)
LEMMA WriteBackIInv ==
    ASSUME IInv, NEW t \in Tasks, Accepts(t), WriteBack(t),
           me[t].op = "bit", ~Changing(t)
    PROVE  IInv'
  <1>0. PICK s : s = me[t].mine
    OBVIOUS
  <1>1. /\ me[t].at = "accept" /\ s \in Conns
        /\ client.conn = s /\ State(s) = "open"
        /\ client' \in Clients /\ client'.conn = client.conn
        /\ client'.transport = client.transport
        /\ client'.udpConnected = client.udpConnected
        /\ client'.monitor \in {client.monitor, client.conn}
        /\ Rewires(s)
        /\ wire'[s].state = wire[s].state /\ wire'[s].inbox = wire[s].inbox
        /\ wire'[s].pending = wire[s].pending /\ wire'[s].response = "none"
        /\ wire'[s].flight = wire[s].flight
    BY <1>0, AcceptsFacts
  <1>2. /\ ~Adm!Invalidated /\ UNCHANGED <<received, late, requests, repeats, cancels>>
    BY DEF Accepts, peer
  <1>3. /\ Keeps(t) /\ me'[t].at = "start" /\ me'[t].req = me[t].alters
        /\ me'[t].mine = NoConn /\ me'[t].got = NoReply
        /\ me'[t].error = me[t].error /\ me'[t].interrupted = FALSE
        /\ me'[t].outcome = me[t].outcome
        /\ running' = t /\ UNCHANGED admission
    BY WriteBackFacts DEF IInv
  <1>4. /\ me'[t].op = "bit" /\ me'[t].alters = me[t].alters
        /\ \A u \in Tasks \ {t} : me'[u] = me[u] /\ me[u].at \in {"idle", "queued"}
        /\ me[t].at \notin {"idle", "queued"} /\ owner = t /\ owner # NoTask
        /\ pc[t] = "inside"
    BY <1>1, <1>3, ActingFacts DEF IInv, Keeps
  <1>5. /\ ~Exchanging(t) /\ ~Exchanging(t)' /\ ~Trying(t) /\ ~Trying(t)' /\ ~InUse(t)'
        /\ ~Disposing(t)' /\ me[t].outcome = "none" /\ Changing(t)'
    BY <1>1, <1>3, <1>4 DEF Exchanging, Trying, InUse, Disposing, Changing, IInv,
       Control, CallIsExact
  <1>6. /\ me[t].alters \in 2..requests /\ me[t].req = me[t].alters - 1
        /\ requests \in Nat /\ me[t].alters \in Nat /\ me[t].req \in Nat
    <2>1. NumbersAreOwn(t) /\ requests \in Nat
      BY DEF IInv, Control, Typed
    <2>2. QED
      BY <2>1 DEF NumbersAreOwn, Changing
  <1>7. repeats = 0 => Got(me[t].alters - 1)
    BY <1>1, <1>6 DEF IInv, Responses, AnswerIsOwn, AnswersWereAsked
  <1>8. ~Sent(me[t].alters)
    BY <1>6 DEF IInv, Updates
  <1>9. Onward(t)
    BY <1>2, <1>3, <1>4 DEF Onward
  <1>10. Transport' = Transport /\ ~Adm!Invalidated' /\ Transport \in {"tcp", "udp"}
    BY <1>1, <1>2, <1>3, ClientAssumption DEF Transport, admission, Adm!Invalidated,
       IInv, Typed, Clients
  <1>11. \A u \in Conns : Dims(u)
    <2>1. Dims(s)
      BY <1>1 DEF Dims
    <2>2. ASSUME NEW u \in Conns \ {s} PROVE Dims(u)
      BY <1>1 DEF Dims, Rewires
    <2>3. QED
      BY <2>1, <2>2
  <1>12. \A u \in Conns : wire'[u].state \in {"unused", "opening", "refused"} => Quiet(u)'
    BY <1>1 DEF IInv, Connections, State, Quiet, Rewires
  <1>13. EnoughConnections'
    <2>1. Needing' \subseteq Needing
      BY <1>3, <1>4, <1>10 DEF Needing, Creates
    <2>2. Unused' = Unused
      BY <1>1 DEF Unused, State, Rewires
    <2>3. QED
      BY <2>1, <2>2, NeedingShrinks DEF IInv
  <1>14. ClientIsExact' /\ MonitorIsOfConnection'
    BY <1>1, <1>10 DEF IInv, Connections, ClientIsExact, MonitorIsOfConnection,
       State, Transport, Conns, NoConn
  <1>15. OpenConnectionsAreOwned'
    <2>1. ASSUME NEW u \in Conns, wire'[u].state \in {"opening", "open"}
          PROVE  u = client'.conn
      <3>1. wire[u].state \in {"opening", "open"}
        BY <1>1, <2>1 DEF Rewires
      <3>2. QED
        BY <1>1, <1>4, <1>5, <3>1, OpenIsMine DEF IInv, Connections
    <2>2. QED
      BY <2>1 DEF OpenConnectionsAreOwned, State
  <1>16. CallIsExact(t)' /\ CallHasConnection(t)' /\ AnswerIsOwn(t)'
    <2>1. pc'[t] = "inside"
      BY <1>3, <1>4 DEF admission
    <2>2. client.conn # NoConn
      BY <1>1 DEF Conns, NoConn
    <2>3. QED
      BY <1>1, <1>3, <1>4, <1>5, <2>1, <2>2 DEF CallIsExact, CallHasConnection,
         AnswerIsOwn
  <1>17. Responses' /\ AnswersWereAsked'
    <2>1. me'[t].at # "accept"
      BY <1>3
    <2>2. QED
      BY <1>2, <1>4, <1>5, <1>9, <1>10, <1>11, <1>16, <2>1, ResponsesStay, AsksStay
  <1>18. /\ SameRequests /\ Unspoken(t)
         /\ \A u \in Conns : wire'[u].flight = wire[u].flight
    BY <1>2, <1>11, RequestsStay DEF SameRequests, Unspoken, Dims
  <1>19. Ordered'
    <2>0. /\ queue \in Seq(Tasks) /\ \A i \in 1..Len(queue) : queue[i] \in Tasks
          /\ queue' = queue /\ owner' = owner /\ queue' \in Seq(Tasks)
      BY <1>3 DEF IInv, Admission, Adm!TypeOK, admission
    <2>1. ASSUME NEW u \in Tasks, NEW v \in Tasks, u # v, me'[u].alters # 0
          PROVE  me'[u].alters # me'[v].req /\ me'[u].alters # me'[v].alters
      <3>1. /\ me'[u].alters = me[u].alters /\ me'[v].alters = me[v].alters
            /\ me'[v].req \in {me[v].req, me[v].alters}
        BY <1>3, <1>4
      <3>2. QED
        BY <2>1, <3>1 DEF IInv, Ordered
    <2>2. \A i, j \in 1..Len(queue) : i < j => Before(queue[i], queue[j])'
      <3>1. \A j \in 1..Len(queue) : queue[j] # t
        BY <1>4 DEF IInv, Admission, Adm!QueueIsExact, Adm!Queued
      <3>2. \A j \in 1..Len(queue) : me'[queue[j]] = me[queue[j]]
        BY <1>4, <2>0, <3>1
      <3>3. QED
        BY <2>0, <3>2 DEF IInv, Ordered, Before
    <2>3. \A j \in 1..Len(queue) : Before(owner, queue[j])'
      <3>1. \A j \in 1..Len(queue) : queue[j] # t
        BY <1>4 DEF IInv, Admission, Adm!QueueIsExact, Adm!Queued
      <3>2. \A j \in 1..Len(queue) : me'[queue[j]] = me[queue[j]]
        BY <1>4, <2>0, <3>1
      <3>3. \A j \in 1..Len(queue) : Before(t, queue[j])
        BY <1>4 DEF IInv, Ordered
      <3>4. QED
        BY <1>3, <1>4, <2>0, <3>2, <3>3 DEF Before
    <2>4. ASSUME NEW u \in Tasks, NEW n \in Nat, InLine(u)', me'[u].req # 0, Sent(n)'
          PROVE  n <= me'[u].req /\ (Unsent(u)' => n < me'[u].req)
      <3>1. InLine(u) /\ Sent(n)
        BY <1>18, <2>0, <2>4 DEF InLine, Adm!Queued, SameRequests
      <3>2. CASE u = t
        <4>1. n <= me[t].req
          BY <1>6, <3>1, <3>2 DEF IInv, Ordered
        <4>2. QED
          BY <1>3, <1>6, <3>2, <4>1
      <3>3. CASE u # t
        <4>1. me'[u] = me[u] /\ (Unsent(u)' <=> Unsent(u))
          BY <1>4, <3>3 DEF Unsent
        <4>2. QED
          BY <2>4, <3>1, <4>1 DEF IInv, Ordered
      <3>4. QED
        BY <3>2, <3>3
    <2>5. \A n \in Nat : Sent(n)' => n <= requests'
      BY <1>2, <1>18 DEF IInv, Ordered, SameRequests
    <2>6. QED
      BY <2>0, <2>1, <2>2, <2>3, <2>4, <2>5 DEF Ordered
  <1>20. Updates'
    <2>1. ASSUME NEW u \in Tasks, me'[u].alters # 0
          PROVE  /\ Unsent(u)' \/ ~Changing(u)' => ~Sent(me[u].alters)'
                 /\ repeats' = 0 /\ me'[u].op = "bit" /\ Changing(u)' =>
                      Got(me[u].alters - 1)'
      <3>1. PICK a, b : a = me[u].alters /\ b = me[u].alters - 1
        OBVIOUS
      <3>2. me'[u].alters = a /\ me'[u].alters - 1 = b /\ a # 0
        BY <1>4, <2>1, <3>1
      <3>3. CASE u = t
        <4>1. ~Sent(a)' /\ (repeats' = 0 => Got(b)')
          BY <1>2, <1>7, <1>8, <1>18, <3>1, <3>3 DEF SameRequests
        <4>2. QED
          BY <3>2, <4>1 DEF Got, Sent
      <3>4. CASE u # t
        <4>1. me'[u] = me[u] /\ repeats' = repeats
          BY <1>2, <1>4, <3>4
        <4>2. /\ Unsent(u) \/ ~Changing(u) => ~Sent(a)
              /\ repeats = 0 /\ me[u].op = "bit" /\ Changing(u) => Got(b)
          BY <3>1, <3>2 DEF IInv, Updates
        <4>3. /\ Unsent(u)' \/ ~Changing(u)' => ~Sent(a)'
              /\ repeats' = 0 /\ me'[u].op = "bit" /\ Changing(u)' => Got(b)'
          BY <1>18, <4>1, <4>2 DEF SameRequests, Unsent, Changing
        <4>4. QED
          BY <3>2, <4>3 DEF Got, Sent
      <3>5. QED
        BY <3>3, <3>4
    <2>2. QED
      BY <2>1 DEF Updates
  <1>21. InFlight'
    <2>1. ~Flying(t)' /\ me[t].at # "idle"
      BY <1>1, <1>3 DEF Flying
    <2>2. \A u \in Tasks : Blameless(u)
      BY <1>1, <1>4, <2>1 DEF Blameless, IInv, Typed
    <2>3. repeats' \in Nat /\ repeats' >= repeats
      BY <1>2 DEF IInv, Typed
    <2>4. QED
      BY <1>2, <1>18, <2>2, <2>3, QuietInFlight DEF IInv
  <1>22. /\ running' \in {t, NoTask} /\ wire' \in [Conns -> Links]
         /\ me'[t].error = "cancelled" => me[t].asked
    BY <1>1, <1>3 DEF IInv, Cancellations, Rewires
  <1>23. QED
    BY <1>1, <1>4, <1>5, <1>9, <1>18, <1>10, <1>12, <1>13, <1>14, <1>15, <1>16, <1>17,
       <1>19, <1>20, <1>21, <1>22, OnwardIInv

(* What the event loop does for a call in its turn keeps the invariant.    *)
LEMMA MovesIInv ==
    ASSUME IInv, NEW t \in Tasks, Moves(t)
    PROVE  IInv'
  <1>1. CASE \E outcome \in Outcomes : Leaves(t, outcome) \/ GivesUp(t, outcome)
    BY <1>1, LeavesIInv, GivesUpIInv
  <1>2. CASE \E label \in Labels, error \in {"none", "timeout", "cancelled"} :
               Awaits(t, label, error)
    BY <1>2, AwaitsIInv
  <1>3. CASE \E outcome \in Outcomes, sent \in BOOLEAN : Retires(t, outcome, sent)
    BY <1>3, RetiresIInv
  <1>4. CASE \E label \in Labels : Opens(t, label)
    BY <1>4, OpensIInv
  <1>5. CASE \E label \in Labels, s \in Conns : Sends(t, label, s)
    BY <1>5, SendsIInv
  <1>6. CASE \E reply \in Replies : Takes(t, reply)
    BY <1>6, TakesIInv
  <1>7. CASE Accepts(t)
    BY <1>7, AcceptsEndIInv, WriteBackIInv DEF Accepts
  <1>8. QED
    BY <1>1, <1>2, <1>3, <1>4, <1>5, <1>6, <1>7, AdoptsIInv, BindsIInv, ReusesIInv,
       ContinuesIInv DEF Moves
-----------------------------------------------------------------------------
(* What happens outside the calls: the network, the peer, close().         *)

(* Where nothing arrives, what is known of the requests stays true.        *)
LEMMA NothingArrives ==
    ASSUME IInv, UNCHANGED <<me, received, late>>, repeats' \in Nat, repeats' >= repeats,
           \A s \in Conns : wire'[s].flight = wire[s].flight
    PROVE  /\ received' \in Seq(1..MaxRequests)
           /\ \A r \in Nat : Sent(r)' => Sent(r)
           /\ Updates' /\ InFlight' /\ OutcomeIsTrue'
  <1>1. repeats \in Nat /\ (repeats' = 0 => repeats = 0)
    BY DEF IInv, Typed
  <1>2. SameRequests
    BY RequestsStay
  <1>3. Updates'
    <2>1. ASSUME NEW u \in Tasks, me'[u].alters # 0
          PROVE  /\ Unsent(u)' \/ ~Changing(u)' => ~Sent(me[u].alters)'
                 /\ repeats' = 0 /\ me'[u].op = "bit" /\ Changing(u)' =>
                      Got(me[u].alters - 1)'
      <3>1. PICK a, b : a = me[u].alters /\ b = me[u].alters - 1
        OBVIOUS
      <3>2. /\ Unsent(u) \/ ~Changing(u) => ~Sent(a)'
            /\ repeats = 0 /\ me[u].op = "bit" /\ Changing(u) => Got(b)'
        BY <1>2, <2>1, <3>1 DEF IInv, Updates, SameRequests
      <3>3. /\ me'[u].alters = a /\ me'[u].alters - 1 = b /\ me'[u] = me[u]
            /\ (Unsent(u)' <=> Unsent(u)) /\ (Changing(u)' <=> Changing(u))
        BY <3>1 DEF Unsent, Changing
      <3>4. QED
        BY <1>1, <3>2, <3>3 DEF Got, Sent
    <2>2. QED
      BY <2>1 DEF Updates
  <1>4. InFlight'
    <2>1. \A u \in Tasks : Blameless(u)
      BY DEF Blameless
    <2>2. QED
      BY <2>1, QuietInFlight DEF IInv
  <1>5. OutcomeIsTrue'
    <2>1. ASSUME NEW u \in Tasks
          PROVE  /\ me'[u].outcome = "closed" => me'[u].retired
                 /\ me'[u].at = "idle" /\ me'[u].alters # 0 =>
                    /\ me'[u].outcome = "ok" /\ repeats' = 0 =>
                         Got(me[u].alters)' /\ me'[u].alters \notin late'
                    /\ me'[u].outcome = "plcError" /\ repeats' = 0 =>
                         Got(me[u].req)' /\ me'[u].req \notin late'
                    /\ me'[u].outcome = "unknown" => me'[u].sent
                    /\ me'[u].outcome \notin {"ok", "plcError", "unknown", "AttributeError"} =>
                         ~Sent(me[u].alters)'
      <3>1. PICK a, r : a = me[u].alters /\ r = me[u].req
        OBVIOUS
      <3>2. /\ me[u].outcome = "closed" => me[u].retired
            /\ me[u].at = "idle" /\ a # 0 =>
               /\ me[u].outcome = "ok" /\ repeats = 0 => Got(a)' /\ a \notin late
               /\ me[u].outcome = "plcError" /\ repeats = 0 => Got(r)' /\ r \notin late
               /\ me[u].outcome = "unknown" => me[u].sent
               /\ me[u].outcome \notin {"ok", "plcError", "unknown", "AttributeError"} =>
                    ~Sent(a)'
        BY <1>2, <3>1 DEF IInv, OutcomeIsTrue, SameRequests
      <3>3. me'[u].alters = a /\ me'[u].req = r /\ me'[u] = me[u] /\ late' = late
        BY <3>1
      <3>4. /\ Got(a)' => Got(me[u].alters)'
            /\ Got(r)' => Got(me[u].req)'
            /\ ~Sent(a)' => ~Sent(me[u].alters)'
        BY <3>3 DEF Got, Sent
      <3>5. QED
        BY <1>1, <3>2, <3>3, <3>4
    <2>2. QED
      BY <2>1 DEF OutcomeIsTrue
  <1>6. QED
    BY <1>2, <1>3, <1>4, <1>5 DEF IInv, Typed, SameRequests

(* The calls stay as they are, and no more than before is in line.         *)
LEMMA OutsideIInv ==
    ASSUME IInv, Admission', me' = me, running' = running, running = NoTask,
           UNCHANGED <<requests, cancels, owner, cancelled, pc>>,
           received' \in Seq(1..MaxRequests), \A r \in Nat : Sent(r)' => Sent(r),
           Updates', InFlight', OutcomeIsTrue',
           repeats' \in Nat, repeats' >= repeats,
           queue' = queue \/ queue' = <<>>,
           client' \in Clients, Transport' = Transport, wire' \in [Conns -> Links],
           Unused' = Unused, Connections', Responses', AnswersWereAsked'
    PROVE  IInv'
  <1>1. repeats \in Nat /\ (repeats' = 0 => repeats = 0)
    BY DEF IInv, Typed
  <1>2. SameNumbers /\ \A u \in Tasks : (Unsent(u)' <=> Unsent(u))
    BY DEF SameNumbers, Unsent
  <1>3. \A u \in Tasks : NumbersAreOwn(u)' /\ CallIsExact(u)'
    <2>1. ASSUME NEW u \in Tasks PROVE NumbersAreOwn(u)' /\ CallIsExact(u)'
      <3>1. NumbersAreOwn(u) /\ CallIsExact(u)
        BY DEF IInv, Control
      <3>2. NumbersAreOwn(u)'
        BY <3>1 DEF NumbersAreOwn
      <3>3. CallIsExact(u)'
        BY <3>1 DEF CallIsExact, Disposing, InUse
      <3>4. QED
        BY <3>2, <3>3
    <2>2. QED
      BY <2>1
  <1>4. EnoughConnections'
    <2>1. Needing' = Needing
      BY DEF Needing, Creates
    <2>2. QED
      BY <2>1, NeedingShrinks DEF IInv
  <1>5. Ordered'
    <2>1. CASE queue' = queue
      BY <1>2, <2>1, OrderedStays
    <2>2. CASE queue' = <<>>
      <3> DEFINE f == [i \in 1..0 |-> i]
      <3>1. Len(queue') = 0 /\ 1..Len(queue') = {}
        BY <2>2
      <3>2. f \in [1..Len(queue') -> 1..Len(queue)]
        BY <3>1
      <3>3. \A u \in Tasks : InLine(u)' => InLine(u)
        BY <3>1 DEF InLine, Adm!Queued
      <3>4. requests' \in Nat /\ requests' >= requests
        BY DEF IInv, Typed
      <3>5. /\ \A i, j \in 1..Len(queue') : i < j => f[i] < f[j]
            /\ \A i \in 1..Len(queue') : queue'[i] = queue[f[i]]
            /\ Len(queue') \in Nat
        BY <3>1
      <3>6. \A u \in Tasks : InLine(u)' /\ me[u].req # 0 =>
              InLine(u) /\ (Unsent(u)' => Unsent(u))
        BY <1>2, <3>3
      <3> HIDE DEF f
      <3>7. QED
        BY <1>2, <3>2, <3>4, <3>5, <3>6, OrderedShrinks
    <2>3. QED
      BY <2>1, <2>2
  <1>8. Cancellations' /\ CancelledOnlyIfAsked'
    BY DEF IInv, Cancellations, CancelledOnlyIfAsked, Disposing
  <1>9. Typed' /\ Control'
    BY <1>3 DEF IInv, Typed, Control
  <1>10. QED
    BY <1>4, <1>5, <1>8, <1>9 DEF IInv

(* Nothing but a connection changes.                                       *)
LEMMA WireIInv ==
    ASSUME IInv, running = NoTask,
           UNCHANGED <<admission, running, client, me, requests, cancels>>,
           received' \in Seq(1..MaxRequests), \A r \in Nat : Sent(r)' => Sent(r),
           Updates', InFlight', OutcomeIsTrue',
           repeats' \in Nat, repeats' >= repeats, wire' \in [Conns -> Links],
           Unused' = Unused,
           \A s \in Conns : State(s)' \in {"unused", "opening", "refused"} => Quiet(s)',
           \A s \in Conns : State(s) = "opening" \/ State(s)' = State(s),
           \A s \in Conns : State(s) = "opening" =>
             State(s)' \in {"opening", "refused", "open"} /\ Quiet(s)',
           \A s \in Conns : State(s) = "open" /\ Quiet(s) => Quiet(s)',
           Responses', AnswersWereAsked'
    PROVE  IInv'
  <1>1. Admission'
    BY TurnStep DEF IInv, Adm!vars, Adm!turn, Adm!waiters, admission
  <1>2. Transport' = Transport /\ (Adm!Invalidated' <=> Adm!Invalidated)
    BY DEF Transport, admission, Adm!Invalidated
  <1>3. ClientIsExact' /\ MonitorIsOfConnection'
    <2>1. client.conn # NoConn => client.conn \in Conns
      BY DEF IInv, Typed, Clients
    <2>2. client.conn # NoConn => State(client.conn)' = "open"
      BY <2>1 DEF IInv, Connections, ClientIsExact, State
    <2>3. QED
      BY <1>2, <2>2 DEF IInv, Connections, ClientIsExact, MonitorIsOfConnection,
         Transport, State
  <1>4. ASSUME NEW t \in Tasks PROVE CallHasConnection(t)'
    <2>1. CallHasConnection(t)
      BY DEF IInv, Connections
    <2>0. PICK s : s = me[t].mine
      OBVIOUS
    <2>2. Trying(t) => State(s)' \in {"opening", "refused", "open"} /\ Quiet(s)'
      <3>1. Trying(t) => /\ s \in Conns /\ State(s) \in {"opening", "refused", "open"}
                         /\ Quiet(s)
        BY <2>0, <2>1 DEF CallHasConnection
      <3>2. QED
        BY <3>1
    <2>3. InUse(t) => State(s)' = State(s)
      BY <2>0, <2>1 DEF CallHasConnection
    <2>4. me'[t].mine = s
      BY <2>0
    <2>5. QED
      BY <1>2, <2>0, <2>1, <2>2, <2>3, <2>4 DEF CallHasConnection, Trying, InUse, Changing
  <1>5. OpenConnectionsAreOwned'
    BY DEF IInv, Connections, OpenConnectionsAreOwned, State
  <1>6. Connections'
    BY <1>3, <1>4, <1>5 DEF Connections
  <1>7. QED
    BY <1>1, <1>2, <1>6, OutsideIInv DEF IInv, Typed, admission

(* The invariant after an attempt succeeded or failed.                     *)
LEMMA AttemptEndsIInv ==
    ASSUME IInv, NEW s \in Conns, AttemptEnds(s)
    PROVE  IInv'
  <1>1. /\ running = NoTask /\ State(s) = "opening"
        /\ UNCHANGED <<admission, running, client, me>> /\ UNCHANGED peer
    BY DEF AttemptEnds
  <1>2. PICK result \in {"open", "refused"} : wire' = [wire EXCEPT ![s].state = result]
    BY DEF AttemptEnds
  <1>3. Rewires(s) /\ wire'[s].state = result /\ SameButState(s)
    BY <1>2, StateFacts DEF IInv
  <1>4. Quiet(s) /\ wire'[s].inbox = <<>> /\ wire'[s].pending = {}
        /\ wire'[s].response = "none" /\ wire'[s].flight = {}
    BY <1>1, <1>3 DEF IInv, Connections, Quiet, SameButState
  <1>5. Unused' = Unused
    BY <1>1, <1>3 DEF Unused, State, Rewires
  <1>6. /\ \A u \in Conns : State(u)' \in {"unused", "opening", "refused"} => Quiet(u)'
        /\ \A u \in Conns : State(u) = "opening" \/ State(u)' = State(u)
        /\ \A u \in Conns : State(u) = "opening" =>
             State(u)' \in {"opening", "refused", "open"} /\ Quiet(u)'
        /\ \A u \in Conns : State(u) = "open" /\ Quiet(u) => Quiet(u)'
    <2>1. \A u \in Conns \ {s} :
            State(u)' = State(u) /\ (Quiet(u)' <=> Quiet(u))
      BY <1>3 DEF State, Quiet, Rewires
    <2>2. State(s)' \in {"open", "refused"} /\ Quiet(s)'
      BY <1>3, <1>4 DEF State, Quiet
    <2>3. QED
      BY <1>1, <2>1, <2>2 DEF IInv, Connections
  <1>7. Responses'
    <2>1. \A t \in Tasks : Exchanging(t) => me[t].mine # s /\ me[t].mine \in Conns
      BY <1>1 DEF IInv, Connections, CallHasConnection, Exchanging, InUse
    <2>2. \A t \in Tasks : AnswerIsOwn(t)'
      <3>1. ASSUME NEW t \in Tasks PROVE AnswerIsOwn(t)'
        <4>1. AnswerIsOwn(t) /\ repeats' = repeats
          BY <1>1 DEF IInv, Responses, peer
        <4>2. CASE Exchanging(t)
          <5>1. wire'[me[t].mine] = wire[me[t].mine]
            BY <1>3, <2>1, <4>2 DEF Rewires
          <5>2. QED
            BY <1>1, <4>1, <5>1 DEF AnswerIsOwn, Exchanging, Transport
        <4>3. CASE ~Exchanging(t)
          BY <1>1, <4>1, <4>3 DEF AnswerIsOwn, Exchanging
        <4>4. QED
          BY <4>2, <4>3
      <3>2. QED
        BY <3>1
    <2>3. ASSUME NEW u \in Conns \ {s}
          PROVE  /\ Transport' = "udp" => wire'[u].inbox = <<>>
                 /\ wire'[u].state = "open" => wire'[u].response # "cancelled"
                 /\ repeats' = 0 /\ wire'[u].state = "open" =>
                      \/ /\ wire'[u].pending = {} /\ wire'[u].inbox = <<>>
                         /\ wire'[u].flight = {}
                      \/ \E t \in Tasks : Exchanging(t)' /\ me'[t].mine = u
      BY <1>1, <1>3 DEF IInv, Responses, State, Rewires, Transport, Exchanging, peer
    <2>4. QED
      BY <1>4, <2>2, <2>3 DEF Responses, State
  <1>8. AnswersWereAsked'
    <2>1. ASSUME NEW u \in Conns
          PROVE  /\ wire'[u].pending = wire[u].pending /\ wire'[u].inbox = wire[u].inbox
                 /\ wire'[u].response = wire[u].response
                 /\ wire'[u].reply = wire[u].reply
      BY <1>3 DEF Rewires, SameButState
    <2>2. QED
      BY <1>1, <2>1 DEF IInv, AnswersWereAsked, Got, peer
  <1>9. repeats' \in Nat /\ repeats' >= repeats /\ wire' \in [Conns -> Links]
        /\ UNCHANGED <<received, late, requests, cancels>>
    BY <1>1, <1>3 DEF IInv, Typed, peer, Rewires
  <1>11. \A u \in Conns : wire'[u].flight = wire[u].flight
    BY <1>3 DEF Rewires, SameButState
  <1>12. /\ received' \in Seq(1..MaxRequests) /\ \A r \in Nat : Sent(r)' => Sent(r)
         /\ Updates' /\ InFlight' /\ OutcomeIsTrue'
    BY <1>1, <1>9, <1>11, NothingArrives
  <1>10. QED
    BY <1>1, <1>5, <1>6, <1>7, <1>8, <1>9, <1>12, WireIInv

(* The invariant after the peer closed its side.                           *)
LEMMA HangUpIInv ==
    ASSUME IInv, NEW s \in Conns, HangUp(s)
    PROVE  IInv'
  <1>1. /\ running = NoTask /\ State(s) = "open" /\ Transport = "tcp"
        /\ wire' = [wire EXCEPT ![s].eof = TRUE, ![s].pending = {}]
        /\ UNCHANGED <<admission, running, client, me>> /\ UNCHANGED peer
    BY DEF HangUp
  <1>2. /\ wire' \in [Conns -> Links] /\ \A u \in Conns \ {s} : wire'[u] = wire[u]
        /\ wire'[s].state = "open" /\ wire'[s].pending = {}
        /\ wire'[s].inbox = wire[s].inbox /\ wire'[s].checked = wire[s].checked
        /\ wire'[s].response = wire[s].response /\ wire'[s].reply = wire[s].reply
        /\ wire'[s].flight = wire[s].flight
    <2> DEFINE c == [wire[s] EXCEPT !.eof = TRUE, !.pending = {}]
    <2>1. wire[s] \in Links /\ wire[s].state = "open"
      BY <1>1 DEF IInv, Typed, State
    <2>2. /\ c \in Links /\ c.state = "open" /\ c.pending = {}
          /\ c.inbox = wire[s].inbox /\ c.checked = wire[s].checked
          /\ c.response = wire[s].response /\ c.reply = wire[s].reply
          /\ c.flight = wire[s].flight
      BY <2>1 DEF Links
    <2>3. wire' = [wire EXCEPT ![s] = c]
      BY <1>1 DEF IInv, Typed
    <2> HIDE DEF c
    <2>4. QED
      BY <2>2, <2>3 DEF IInv, Typed
  <1>3. Unused' = Unused
    BY <1>1, <1>2 DEF Unused, State
  <1>4. /\ \A u \in Conns : State(u)' \in {"unused", "opening", "refused"} => Quiet(u)'
        /\ \A u \in Conns : State(u)' = State(u)
        /\ \A u \in Conns : State(u) = "opening" => Quiet(u)'
        /\ \A u \in Conns : State(u) = "open" /\ Quiet(u) => Quiet(u)'
    BY <1>1, <1>2 DEF State, Quiet, IInv, Connections
  <1>5. Responses'
    <2>1. ASSUME NEW t \in Tasks PROVE AnswerIsOwn(t)'
      <3>1. AnswerIsOwn(t) /\ repeats' = repeats /\ Transport' = "tcp"
        BY <1>1 DEF IInv, Responses, peer, Transport
      <3>2. Exchanging(t) =>
              /\ wire'[me[t].mine].checked = wire[me[t].mine].checked
              /\ wire'[me[t].mine].inbox = wire[me[t].mine].inbox
              /\ wire'[me[t].mine].flight = wire[me[t].mine].flight
              /\ wire'[me[t].mine].pending \subseteq wire[me[t].mine].pending
              /\ wire[me[t].mine].pending = {} => wire'[me[t].mine].pending = {}
        <4>1. Exchanging(t) => me[t].mine \in Conns
          BY DEF IInv, Connections, CallHasConnection, Exchanging, InUse
        <4>2. QED
          BY <1>2, <4>1
      <3>3. QED
        BY <1>1, <3>1, <3>2 DEF AnswerIsOwn, Exchanging
    <2>2. ASSUME NEW u \in Conns
          PROVE  /\ Transport' = "udp" => wire'[u].inbox = <<>>
                 /\ wire'[u].state = "open" => wire'[u].response # "cancelled"
                 /\ repeats' = 0 /\ wire'[u].state = "open" =>
                      \/ /\ wire'[u].pending = {} /\ wire'[u].inbox = <<>>
                         /\ wire'[u].flight = {}
                      \/ \E t \in Tasks : Exchanging(t)' /\ me'[t].mine = u
      BY <1>1, <1>2 DEF IInv, Responses, State, Transport, Exchanging, peer
    <2>3. QED
      BY <2>1, <2>2 DEF Responses, State
  <1>6. AnswersWereAsked'
    <2>1. ASSUME NEW u \in Conns
          PROVE  /\ wire'[u].pending \subseteq wire[u].pending
                 /\ wire'[u].inbox = wire[u].inbox
                 /\ wire'[u].response = wire[u].response
                 /\ wire'[u].reply = wire[u].reply
      BY <1>2
    <2>2. \A n : Got(n)' <=> Got(n)
      BY <1>1 DEF Got, peer
    <2>3. ASSUME NEW u \in Conns
          PROVE  /\ \A r \in wire'[u].pending : Got(r)
                 /\ \A i \in DOMAIN wire'[u].inbox : Got(wire'[u].inbox[i].req)
                 /\ wire'[u].response = "done" =>
                      Got(wire'[u].reply.req) /\ wire'[u].reply.kind \in Kinds
      BY <2>1 DEF IInv, AnswersWereAsked
    <2>4. QED
      BY <1>1, <2>3 DEF IInv, AnswersWereAsked, Got, peer
  <1>7. /\ repeats' \in Nat /\ repeats' >= repeats
        /\ UNCHANGED <<received, late, requests, cancels>>
    BY <1>1 DEF IInv, Typed, peer
  <1>8. /\ received' \in Seq(1..MaxRequests) /\ \A r \in Nat : Sent(r)' => Sent(r)
        /\ Updates' /\ InFlight' /\ OutcomeIsTrue'
    BY <1>1, <1>2, <1>7, NothingArrives
  <1>9. QED
    BY <1>1, <1>2, <1>3, <1>4, <1>5, <1>6, <1>7, <1>8, WireIInv
(* What is added to the end of a sequence.                                 *)
LEMMA AppendElements ==
    ASSUME NEW S, NEW q \in Seq(S), NEW x \in S
    PROVE  /\ Append(q, x) \in Seq(S) /\ Append(q, x) # <<>>
           /\ Len(Append(q, x)) = Len(q) + 1 /\ Len(q) \in Nat
           /\ \A i \in DOMAIN Append(q, x) :
                \/ Append(q, x)[i] = x
                \/ i \in DOMAIN q /\ Append(q, x)[i] = q[i]
  OBVIOUS

(* An answer goes to the reader, to the future that waits, or to nobody.   *)
Brings(s, w, reply) ==
    wire' = [wire EXCEPT ![s] =
        IF Transport = "tcp" THEN [w EXCEPT !.inbox = Append(@, reply)]
        ELSE IF w.held /\ w.response = "pending"
        THEN [w EXCEPT !.response = "done", !.reply = reply]
        ELSE [w EXCEPT !.unowned = TRUE]]

(* What it does to its connection.                                         *)
Brought(s, pending, reply) ==
    /\ Rewires(s) /\ wire'[s].state = "open"
    /\ wire'[s].checked = wire[s].checked /\ wire'[s].pending = pending
    /\ wire'[s].flight = wire[s].flight
    /\ reply \in Answers
    /\ IF Transport = "tcp"
         THEN /\ wire'[s].inbox = Append(wire[s].inbox, reply)
              /\ wire'[s].response = wire[s].response
              /\ wire'[s].reply = wire[s].reply
         ELSE /\ wire'[s].inbox = wire[s].inbox
              /\ \/ /\ wire[s].response = "pending"
                    /\ wire'[s].response = "done" /\ wire'[s].reply = reply
                 \/ /\ wire'[s].response = wire[s].response
                    /\ wire'[s].reply = wire[s].reply

(* An answer changes its connection as Brought says.                       *)
LEMMA AnswersWire ==
    ASSUME IInv, NEW s \in Conns, State(s) = "open", NEW r \in wire[s].pending,
           NEW kind \in Kinds, NEW pending \in SUBSET wire[s].pending,
           NEW reply, reply = [req |-> r, kind |-> kind, since |-> wire[s].checked],
           NEW w, w = [wire[s] EXCEPT !.pending = pending],
           Brings(s, w, reply)
    PROVE  Brought(s, pending, reply)
  <1>1. /\ wire[s] \in Links /\ wire[s].state = "open" /\ wire \in [Conns -> Links]
        /\ pending \in SUBSET (1..MaxRequests)
    BY DEF IInv, Typed, State, Links
  <1>2. reply \in Answers /\ reply \in Replies
    <2>1. r \in Nat /\ wire[s].checked \in Nat
      BY <1>1, ClientAssumption DEF Links
    <2>2. QED
      BY <2>1 DEF Answers, Replies
  <1>3. /\ w \in Links /\ w.state = "open" /\ w.pending = pending
        /\ w.inbox = wire[s].inbox /\ w.checked = wire[s].checked
        /\ w.response = wire[s].response /\ w.reply = wire[s].reply
        /\ w.flight = wire[s].flight
    BY <1>1 DEF Links
  <1>4. CASE Transport = "tcp"
    <2> DEFINE lines == Append(w.inbox, reply)
               c == [w EXCEPT !.inbox = lines]
    <2>1. wire' = [wire EXCEPT ![s] = c]
      BY <1>4 DEF Brings
    <2>2. lines \in Seq(Answers)
      BY <1>2, <1>3, AppendElements DEF Links
    <2>3. lines = Append(wire[s].inbox, reply)
      BY <1>3
    <2> HIDE DEF lines
    <2>4. /\ c \in Links /\ c.state = "open" /\ c.pending = pending
          /\ c.inbox = lines /\ c.checked = w.checked
          /\ c.response = w.response /\ c.reply = w.reply /\ c.flight = w.flight
      BY <1>3, <2>2 DEF Links
    <2> HIDE DEF c
    <2>5. Rewires(s) /\ wire'[s] = c
      BY <1>1, <2>1, <2>4 DEF Rewires
    <2>6. QED
      BY <1>2, <1>3, <1>4, <2>3, <2>4, <2>5 DEF Brought
  <1>5. CASE Transport # "tcp" /\ w.held /\ w.response = "pending"
    <2> DEFINE c == [w EXCEPT !.response = "done", !.reply = reply]
    <2>1. wire' = [wire EXCEPT ![s] = c]
      BY <1>5 DEF Brings
    <2>2. /\ c \in Links /\ c.state = "open" /\ c.pending = pending
          /\ c.inbox = w.inbox /\ c.checked = w.checked
          /\ c.response = "done" /\ c.reply = reply /\ c.flight = w.flight
      BY <1>2, <1>3 DEF Links
    <2> HIDE DEF c
    <2>3. Rewires(s) /\ wire'[s] = c
      BY <1>1, <2>1, <2>2 DEF Rewires
    <2>4. QED
      BY <1>2, <1>3, <1>5, <2>2, <2>3 DEF Brought
  <1>6. CASE Transport # "tcp" /\ ~(w.held /\ w.response = "pending")
    <2> DEFINE c == [w EXCEPT !.unowned = TRUE]
    <2>1. wire' = [wire EXCEPT ![s] = c]
      BY <1>6 DEF Brings
    <2>2. /\ c \in Links /\ c.state = "open" /\ c.pending = pending
          /\ c.inbox = w.inbox /\ c.checked = w.checked
          /\ c.response = w.response /\ c.reply = w.reply /\ c.flight = w.flight
      BY <1>3 DEF Links
    <2> HIDE DEF c
    <2>3. Rewires(s) /\ wire'[s] = c
      BY <1>1, <2>1, <2>2 DEF Rewires
    <2>4. QED
      BY <1>2, <1>3, <1>6, <2>2, <2>3 DEF Brought
  <1>7. QED
    BY <1>4, <1>5, <1>6

(* The invariant after an answer, repeated or not.                         *)
LEMMA AnswerIInv ==
    ASSUME IInv, NEW s \in Conns, Answer(s)
    PROVE  IInv'
  <1>1. /\ running = NoTask /\ State(s) = "open"
        /\ UNCHANGED <<admission, running, client, me, received, late, requests, cancels>>
    BY DEF Answer
  <1>2. PICK r \in wire[s].pending, kind \in Kinds, repeat \in {0, 1} :
          LET reply == [req |-> r, kind |-> kind, since |-> wire[s].checked]
              w == [wire[s] EXCEPT !.pending = IF repeat = 1 THEN @ ELSE @ \ {r}]
          IN
          /\ repeats + cancels + repeat <= MaxMishaps
          /\ repeats' = repeats + repeat
          /\ wire' = [wire EXCEPT ![s] =
              IF Transport = "tcp" THEN [w EXCEPT !.inbox = Append(@, reply)]
              ELSE IF w.held /\ w.response = "pending"
              THEN [w EXCEPT !.response = "done", !.reply = reply]
              ELSE [w EXCEPT !.unowned = TRUE]]
    BY Zenon DEF Answer
  <1>3. PICK reply : reply = [req |-> r, kind |-> kind, since |-> wire[s].checked]
    OBVIOUS
  <1>4. PICK pending : pending = IF repeat = 1 THEN wire[s].pending
                                               ELSE wire[s].pending \ {r}
    OBVIOUS
  <1>5. PICK w : w = [wire[s] EXCEPT !.pending = pending]
    OBVIOUS
  <1>6. w = [wire[s] EXCEPT !.pending = IF repeat = 1 THEN @ ELSE @ \ {r}]
    BY <1>4, <1>5
  <1>7. repeats' = repeats + repeat /\ Brings(s, w, reply)
    BY <1>2, <1>3, <1>6 DEF Brings
  <1>8. pending \in SUBSET wire[s].pending
    BY <1>4
  <1>9. /\ Rewires(s) /\ wire'[s].state = "open"
        /\ wire'[s].checked = wire[s].checked /\ wire'[s].pending = pending
        /\ wire'[s].flight = wire[s].flight
        /\ reply \in Answers
        /\ IF Transport = "tcp"
                THEN /\ wire'[s].inbox = Append(wire[s].inbox, reply)
                     /\ wire'[s].response = wire[s].response
                     /\ wire'[s].reply = wire[s].reply
                ELSE /\ wire'[s].inbox = wire[s].inbox
                     /\ \/ /\ wire[s].response = "pending"
                           /\ wire'[s].response = "done" /\ wire'[s].reply = reply
                        \/ /\ wire'[s].response = wire[s].response
                           /\ wire'[s].reply = wire[s].reply
    <2>1. Brought(s, pending, reply)
      BY <1>1, <1>3, <1>5, <1>7, <1>8, AnswersWire
    <2>2. QED
      BY <2>1 DEF Brought
  <1>10. /\ repeats' \in Nat /\ repeats' >= repeats
         /\ repeats' = 0 => repeats = 0 /\ pending = wire[s].pending \ {r}
    BY <1>4, <1>7 DEF IInv, Typed
  <1>11. Unused' = Unused
    BY <1>1, <1>9 DEF Unused, State, Rewires
  <1>12. /\ \A u \in Conns : State(u)' \in {"unused", "opening", "refused"} => Quiet(u)'
         /\ \A u \in Conns : State(u)' = State(u)
         /\ \A u \in Conns : State(u) = "opening" => Quiet(u)'
         /\ \A u \in Conns : State(u) = "open" /\ Quiet(u) => Quiet(u)'
    <2>1. \A u \in Conns \ {s} : State(u)' = State(u) /\ (Quiet(u)' <=> Quiet(u))
      BY <1>9 DEF State, Quiet, Rewires
    <2>2. State(s)' = "open" /\ State(s) = "open" /\ ~Quiet(s)
      BY <1>1, <1>9 DEF State, Quiet
    <2>3. QED
      BY <2>1, <2>2 DEF IInv, Connections
  <1>13. /\ reply.req = r /\ reply.kind = kind /\ reply.since = wire[s].checked
         /\ wire[s].inbox \in Seq(Answers)
    BY <1>3 DEF IInv, Typed, Links
  <1>14. /\ \A i \in DOMAIN wire'[s].inbox :
              \/ wire'[s].inbox[i] = reply
              \/ i \in DOMAIN wire[s].inbox /\ wire'[s].inbox[i] = wire[s].inbox[i]
         /\ wire[s].inbox = <<>> => Len(wire'[s].inbox) = 1 \/ wire'[s].inbox = <<>>
    <2>1. CASE Transport = "tcp"
      <3>1. wire'[s].inbox = Append(wire[s].inbox, reply)
        BY <1>9, <2>1
      <3>2. Len(<<>>) = 0
        OBVIOUS
      <3>3. QED
        BY <1>9, <1>13, <3>1, <3>2, AppendElements
    <2>2. CASE Transport # "tcp"
      BY <1>9, <2>2
    <2>3. QED
      BY <2>1, <2>2
  <1>15. ASSUME NEW t \in Tasks PROVE AnswerIsOwn(t)'
    <2>1. AnswerIsOwn(t)
      BY DEF IInv, Responses
    <2>2. CASE ~Exchanging(t)
      BY <1>1, <1>10, <2>1, <2>2 DEF AnswerIsOwn, Exchanging
    <2>3. CASE Exchanging(t) /\ me[t].mine # s
      <3>1. me[t].mine \in Conns
        BY <2>3 DEF IInv, Connections, CallHasConnection, Exchanging, InUse
      <3>2. wire'[me[t].mine] = wire[me[t].mine]
        BY <1>9, <2>3, <3>1 DEF Rewires
      <3>3. QED
        BY <1>1, <1>10, <2>1, <3>2 DEF AnswerIsOwn, Exchanging, Transport
    <2>4. CASE Exchanging(t) /\ me[t].mine = s
      <3>1. /\ wire[s].checked = me[t].req
            /\ \A i \in DOMAIN wire[s].inbox : wire[s].inbox[i].since = me[t].req
            /\ Transport = "udp" /\ wire[s].response = "done" =>
                 wire[s].reply.since = me[t].req
        BY <2>1, <2>4 DEF AnswerIsOwn
      <3>2. /\ wire'[s].checked = me[t].req
            /\ \A i \in DOMAIN wire'[s].inbox : wire'[s].inbox[i].since = me[t].req
            /\ Transport = "udp" /\ wire'[s].response = "done" =>
                 wire'[s].reply.since = me[t].req
        BY <1>9, <1>13, <1>14, <3>1
      <3>3. ASSUME repeats' = 0
            PROVE  /\ wire'[s].pending \subseteq {me[t].req} /\ wire'[s].flight = {}
                   /\ \A i \in DOMAIN wire'[s].inbox : wire'[s].inbox[i].req = me[t].req
                   /\ wire'[s].inbox # <<>> =>
                        wire'[s].pending = {} /\ Len(wire'[s].inbox) = 1
                   /\ Transport = "udp" /\ wire'[s].response = "done" =>
                        wire'[s].pending = {} /\ wire'[s].reply.req = me[t].req
        <4>1. /\ wire[s].pending \subseteq {me[t].req}
              /\ wire[s].flight # {} => wire[s].pending = {}
              /\ \A i \in DOMAIN wire[s].inbox : wire[s].inbox[i].req = me[t].req
              /\ wire[s].inbox # <<>> => wire[s].pending = {}
              /\ Transport = "udp" /\ wire[s].response = "done" => wire[s].pending = {}
          BY <1>10, <2>1, <2>4, <3>3 DEF AnswerIsOwn
        <4>2. wire[s].inbox = <<>> /\ r = me[t].req /\ wire'[s].pending = {}
              /\ ~(Transport = "udp" /\ wire[s].response = "done")
              /\ wire'[s].flight = {}
          BY <1>9, <1>10, <3>3, <4>1
        <4>3. \A i \in DOMAIN wire'[s].inbox : wire'[s].inbox[i].req = me[t].req
          BY <1>13, <1>14, <4>1, <4>2
        <4>4. wire'[s].inbox # <<>> => Len(wire'[s].inbox) = 1
          BY <1>14, <4>2
        <4>5. Transport = "udp" /\ wire'[s].response = "done" =>
                wire'[s].reply.req = me[t].req
          BY <1>9, <1>13, <4>2
        <4>6. QED
          BY <4>2, <4>3, <4>4, <4>5
      <3>4. /\ me' = me /\ Transport' = Transport /\ me[t].at # "accept"
            /\ me[t].got = NoReply
        BY <1>1, <2>1, <2>4 DEF Transport, Exchanging, AnswerIsOwn
      <3>5. QED
        BY <2>4, <3>2, <3>3, <3>4 DEF AnswerIsOwn, Exchanging
    <2>5. QED
      BY <2>2, <2>3, <2>4
  <1>16. Responses'
    <2>1. ASSUME NEW u \in Conns \ {s}
          PROVE  /\ Transport' = "udp" => wire'[u].inbox = <<>>
                 /\ wire'[u].state = "open" => wire'[u].response # "cancelled"
                 /\ repeats' = 0 /\ wire'[u].state = "open" =>
                      \/ /\ wire'[u].pending = {} /\ wire'[u].inbox = <<>>
                         /\ wire'[u].flight = {}
                      \/ \E t \in Tasks : Exchanging(t)' /\ me'[t].mine = u
      BY <1>1, <1>9, <1>10 DEF IInv, Responses, State, Rewires, Transport, Exchanging
    <2>2. /\ Transport' = "udp" => wire'[s].inbox = <<>>
          /\ wire'[s].response # "cancelled"
      BY <1>1, <1>9 DEF IInv, Responses, State, Transport
    <2>3. repeats' = 0 => \E t \in Tasks : Exchanging(t)' /\ me'[t].mine = s
      <3>1. repeats' = 0 => \E t \in Tasks : Exchanging(t) /\ me[t].mine = s
        BY <1>1, <1>10 DEF IInv, Responses, State
      <3>2. QED
        BY <1>1, <3>1 DEF Exchanging
    <2>4. QED
      BY <1>15, <2>1, <2>2, <2>3 DEF Responses, State
  <1>17. AnswersWereAsked'
    <2>1. \A n : Got(n)' <=> Got(n)
      BY <1>1 DEF Got
    <2>2. ASSUME NEW u \in Conns
          PROVE  /\ \A n \in wire'[u].pending : Got(n)
                 /\ \A i \in DOMAIN wire'[u].inbox : Got(wire'[u].inbox[i].req)
                 /\ wire'[u].response = "done" =>
                      Got(wire'[u].reply.req) /\ wire'[u].reply.kind \in Kinds
      <3>1. /\ \A n \in wire[u].pending : Got(n)
            /\ \A i \in DOMAIN wire[u].inbox : Got(wire[u].inbox[i].req)
            /\ wire[u].response = "done" =>
                 Got(wire[u].reply.req) /\ wire[u].reply.kind \in Kinds
        BY DEF IInv, AnswersWereAsked
      <3>2. CASE u # s
        <4>1. wire'[u] = wire[u]
          BY <1>9, <3>2 DEF Rewires
        <4>2. QED
          BY <3>1, <4>1
      <3>3. CASE u = s
        <4>1. Got(reply.req) /\ reply.kind \in Kinds
          BY <1>13, <3>1, <3>3
        <4>2. \A n \in wire'[s].pending : Got(n)
          BY <1>8, <1>9, <3>1, <3>3
        <4>3. \A i \in DOMAIN wire'[s].inbox : Got(wire'[s].inbox[i].req)
          BY <1>14, <3>1, <3>3, <4>1
        <4>4. wire'[s].response = "done" =>
                Got(wire'[s].reply.req) /\ wire'[s].reply.kind \in Kinds
          BY <1>9, <3>1, <3>3, <4>1
        <4>5. QED
          BY <3>3, <4>2, <4>3, <4>4
      <3>4. QED
        BY <3>2, <3>3
    <2>3. QED
      BY <1>1, <2>2 DEF IInv, AnswersWereAsked, Got
  <1>18. wire' \in [Conns -> Links]
    BY <1>9 DEF Rewires
  <1>19. /\ received' \in Seq(1..MaxRequests) /\ \A n \in Nat : Sent(n)' => Sent(n)
         /\ Updates' /\ InFlight' /\ OutcomeIsTrue'
    <2>1. \A u \in Conns : wire'[u].flight = wire[u].flight
      BY <1>9 DEF Rewires
    <2>2. QED
      BY <1>1, <1>10, <2>1, NothingArrives
  <1>20. QED
    BY <1>1, <1>10, <1>11, <1>12, <1>16, <1>17, <1>18, <1>19, WireIInv
(* close() retires the call in its turn and everybody in line.             *)
LEMMA CloseIInv ==
    ASSUME IInv, NEW t \in Tasks, Close(t)
    PROVE  IInv'
  <1>0. PICK s : s = client.conn
    OBVIOUS
  <1>1. /\ running = NoTask /\ Adm!Invalidate
        /\ client' = Disconnected(Transport) /\ wire' = WithClosed(wire, {s})
        /\ running' = running /\ me' = me /\ UNCHANGED peer
    BY <1>0 DEF Close, At
  <1>2. Admission'
    BY <1>1, TurnStep DEF IInv, Adm!Next
  <1>3. /\ generation' = generation + 1 /\ queue' = <<>>
        /\ UNCHANGED <<owner, ownerGeneration, depth, waiterGeneration, cancelled, pc>>
    BY <1>1 DEF Adm!Invalidate, Adm!turn
  <1>4. owner # NoTask => Adm!Invalidated'
    <2>1. owner # NoTask =>
            /\ owner \in Tasks /\ ownerGeneration = waiterGeneration[owner]
            /\ waiterGeneration[owner] <= generation
            /\ generation \in Nat /\ ownerGeneration \in Nat
      BY DEF IInv, Admission, Adm!TypeOK, Adm!OwnerIsExact
    <2>2. QED
      BY <1>3, <2>1 DEF Adm!Invalidated
  <1>5. /\ client' \in Clients /\ client'.transport = Transport
        /\ client'.conn = NoConn /\ client'.monitor = NoConn /\ ~client'.udpConnected
        /\ client' = Disconnected(Transport') /\ Transport' = Transport
    BY <1>1 DEF Disconnected, IInv, Typed, Clients, Transport
  <1>6. /\ Rewires(s)
        /\ s \in Conns =>
             /\ wire'[s].state = "closed" /\ wire'[s].pending = {}
             /\ wire'[s].inbox = wire[s].inbox
             /\ wire'[s].checked = wire[s].checked
             /\ wire'[s].reply = wire[s].reply
             /\ wire'[s].flight = wire[s].flight
             /\ wire'[s].response = "done" => wire[s].response = "done"
    BY <1>1, ClosesWire DEF IInv
  <1>7. /\ NoConn \notin Conns /\ s \in Conns \cup {NoConn}
        /\ s \in Conns => wire[s].state = "open"
    BY <1>0 DEF IInv, Typed, Clients, Connections, ClientIsExact, State, Conns, NoConn
  <1>8. Unused' = Unused
    BY <1>6, <1>7 DEF Unused, State, Rewires
  <1>9. ASSUME NEW u \in Tasks PROVE CallHasConnection(u)'
    <2>1. CallHasConnection(u)
      BY DEF IInv, Connections
    <2>2. me[u].at \notin {"idle", "queued"} => Adm!Invalidated'
      BY <1>4, ActingFacts DEF IInv
    <2>3. me[u].at \notin {"send", "start"}
      BY <1>1, TurnAssumption DEF IInv, Control, CallIsExact
    <2>4. ASSUME Trying(u)
          PROVE  /\ me[u].mine \in Conns /\ wire'[me[u].mine] = wire[me[u].mine]
                 /\ State(me[u].mine) \in {"opening", "refused", "open"}
                 /\ Quiet(me[u].mine)
      <3>1. /\ me[u].mine \in Conns /\ s = NoConn
            /\ State(me[u].mine) \in {"opening", "refused", "open"}
            /\ Quiet(me[u].mine)
        BY <1>0, <2>1, <2>4 DEF CallHasConnection
      <3>2. QED
        BY <1>6, <1>7, <3>1 DEF Rewires
    <2>5. ASSUME InUse(u)
          PROVE  me[u].mine \in Conns /\ wire'[me[u].mine].state \in {"open", "closed"}
      <3>1. me[u].mine \in Conns /\ wire[me[u].mine].state \in {"open", "closed"}
        BY <2>1, <2>5 DEF CallHasConnection, State
      <3>2. QED
        BY <1>6, <3>1 DEF Rewires
    <2>6. Trying(u)' => Trying(u) /\ Adm!Invalidated'
      BY <1>1, <2>2 DEF Trying
    <2>7. InUse(u)' => InUse(u) /\ Adm!Invalidated'
      BY <1>1, <2>2 DEF InUse
    <2>8. QED
      BY <1>1, <1>5, <2>2, <2>3, <2>4, <2>5, <2>6, <2>7 DEF CallHasConnection, State, Quiet
  <1>10. ClientIsExact' /\ MonitorIsOfConnection'
    BY <1>5 DEF ClientIsExact, MonitorIsOfConnection
  <1>11. \A u \in Conns : State(u)' \in {"unused", "opening", "refused"} => Quiet(u)'
    BY <1>6, <1>7 DEF IInv, Connections, State, Quiet, Rewires
  <1>12. OpenConnectionsAreOwned'
    <2>1. ASSUME NEW u \in Conns, wire'[u].state \in {"opening", "open"}
          PROVE  \E v \in Tasks : me[v].mine = u /\ me[v].at \in {"connecting", "bind"}
      <3>1. u # client.conn /\ wire'[u] = wire[u]
        BY <1>0, <1>6, <2>1 DEF Rewires
      <3>2. QED
        BY <2>1, <3>1 DEF IInv, Connections, OpenConnectionsAreOwned, State
    <2>2. QED
      BY <1>1, <2>1 DEF OpenConnectionsAreOwned, State
  <1>13. Connections'
    BY <1>9, <1>10, <1>11, <1>12 DEF Connections
  <1>14. repeats' = repeats /\ UNCHANGED <<received, late, requests, cancels>>
    BY <1>1 DEF peer
  <1>15. ASSUME NEW u \in Tasks PROVE AnswerIsOwn(u)'
    <2>1. AnswerIsOwn(u)
      BY DEF IInv, Responses
    <2>2. CASE ~Exchanging(u)
      BY <1>1, <1>14, <2>1, <2>2 DEF AnswerIsOwn, Exchanging
    <2>3. CASE Exchanging(u)
      <3>1. me[u].mine \in Conns
        BY <2>3 DEF IInv, Connections, CallHasConnection, Exchanging, InUse
      <3>2. /\ wire'[me[u].mine].checked = wire[me[u].mine].checked
            /\ wire'[me[u].mine].inbox = wire[me[u].mine].inbox
            /\ wire'[me[u].mine].reply = wire[me[u].mine].reply
            /\ wire'[me[u].mine].flight = wire[me[u].mine].flight
            /\ wire'[me[u].mine].response = "done" => wire[me[u].mine].response = "done"
            /\ wire'[me[u].mine].pending \in {wire[me[u].mine].pending, {}}
        BY <1>6, <3>1 DEF Rewires
      <3>3. QED
        BY <1>1, <1>5, <1>14, <2>1, <3>2 DEF AnswerIsOwn, Exchanging
    <2>4. QED
      BY <2>2, <2>3
  <1>16. Responses'
    <2>1. ASSUME NEW u \in Conns
          PROVE  /\ Transport' = "udp" => wire'[u].inbox = <<>>
                 /\ wire'[u].state = "open" => wire'[u].response # "cancelled"
                 /\ repeats' = 0 /\ wire'[u].state = "open" =>
                      \/ /\ wire'[u].pending = {} /\ wire'[u].inbox = <<>>
                         /\ wire'[u].flight = {}
                      \/ \E v \in Tasks : Exchanging(v)' /\ me'[v].mine = u
      <3>1. /\ Transport = "udp" => wire[u].inbox = <<>>
            /\ wire[u].state = "open" => wire[u].response # "cancelled"
            /\ repeats = 0 /\ wire[u].state = "open" =>
                 \/ wire[u].pending = {} /\ wire[u].inbox = <<>> /\ wire[u].flight = {}
                 \/ \E v \in Tasks : Exchanging(v) /\ me[v].mine = u
        BY DEF IInv, Responses, State
      <3>2. CASE u = s
        BY <1>5, <1>6, <3>1, <3>2
      <3>3. CASE u # s
        BY <1>1, <1>5, <1>6, <1>14, <3>1, <3>3 DEF Rewires, Exchanging
      <3>4. QED
        BY <3>2, <3>3
    <2>2. QED
      BY <1>15, <2>1 DEF Responses, State
  <1>17. AnswersWereAsked'
    <2>1. ASSUME NEW u \in Conns
          PROVE  /\ wire'[u].pending \subseteq wire[u].pending
                 /\ wire'[u].inbox = wire[u].inbox
                 /\ wire'[u].reply = wire[u].reply
                 /\ wire'[u].response = "done" => wire[u].response = "done"
      BY <1>6 DEF Rewires
    <2>2. ASSUME NEW u \in Conns
          PROVE  /\ \A r \in wire'[u].pending : Got(r)
                 /\ \A i \in DOMAIN wire'[u].inbox : Got(wire'[u].inbox[i].req)
                 /\ wire'[u].response = "done" =>
                      Got(wire'[u].reply.req) /\ wire'[u].reply.kind \in Kinds
      BY <2>1 DEF IInv, AnswersWereAsked
    <2>3. QED
      BY <1>1, <1>14, <2>2 DEF IInv, AnswersWereAsked, Got
  <1>18. repeats' \in Nat /\ repeats' >= repeats /\ wire' \in [Conns -> Links]
    BY <1>6, <1>14 DEF IInv, Typed, Rewires
  <1>19. /\ received' \in Seq(1..MaxRequests) /\ \A r \in Nat : Sent(r)' => Sent(r)
         /\ Updates' /\ InFlight' /\ OutcomeIsTrue'
    <2>1. \A u \in Conns : wire'[u].flight = wire[u].flight
      BY <1>6 DEF Rewires
    <2>2. QED
      BY <1>1, <1>14, <1>18, <2>1, NothingArrives
  <1>20. QED
    BY <1>1, <1>2, <1>3, <1>5, <1>8, <1>13, <1>14, <1>16, <1>17, <1>18, <1>19, OutsideIInv
-----------------------------------------------------------------------------
(* What happens to a call before its turn.                                 *)

(* A call in no turn changes: it is out of the turn after the step too, or *)
(* begins with no connection.                                              *)
LEMMA InLineIInv ==
    ASSUME IInv, NEW t \in Tasks, me[t].at \in {"idle", "queued"},
           Admission', me' \in [Tasks -> Calls], running' \in {running, t},
           running = NoTask,
           \A u \in Tasks \ {t} : me'[u] = me[u] /\ pc'[u] = pc[u]
                                  /\ cancelled'[u] = cancelled[u],
           me'[t].at \in {"idle", "queued", "start"},
           CallIsExact(t)', NumbersAreOwn(t)',
           me'[t].got = NoReply,
           me'[t].at = "start" => ~(me'[t].op = "bit" /\ Changing(t)'),
           Adm!Invalidated' => Adm!Invalidated,
           \A u \in Tasks \ {t} : me[u].at \notin {"idle", "queued"} =>
             (Adm!Invalidated' <=> Adm!Invalidated),
           UNCHANGED <<client, wire, received, late, repeats>>, Blameless(t),
           requests' \in 0..MaxRequests, requests' >= requests, cancels' \in Nat,
           EnoughConnections', Ordered', Updates',
           me'[t].outcome = "closed" => me'[t].retired,
           me'[t].at = "idle" /\ me'[t].alters # 0 =>
             /\ me'[t].outcome \notin {"ok", "plcError", "unknown"}
             /\ \A a : a = me'[t].alters => ~Sent(a),
           cancelled'[t] => me'[t].at = "queued" /\ me'[t].asked,
           me'[t].interrupted => me'[t].asked,
           me'[t].error = "cancelled" => me'[t].asked,
           me'[t].outcome \in {"cancelled", "CancelledError"} => me'[t].asked
    PROVE  IInv'
  <1>1. /\ Transport' = Transport /\ SameRequests
        /\ \A n : Got(n)' <=> Got(n)
    BY RequestsStay DEF Transport, SameRequests
  <1>2. Typed'
    BY DEF IInv, Typed
  <1>3. Control'
    <2>1. ASSUME NEW u \in Tasks \ {t} PROVE CallIsExact(u)' /\ NumbersAreOwn(u)'
      <3>1. CallIsExact(u) /\ NumbersAreOwn(u) /\ running' # u /\ running # u
        BY TurnAssumption DEF IInv, Control
      <3>2. CallIsExact(u)'
        BY <1>1, <3>1 DEF CallIsExact, Disposing, InUse
      <3>3. requests \in Nat /\ requests' \in Nat
        BY ClientAssumption DEF IInv, Typed
      <3>4. NumbersAreOwn(u)'
        <4>1. me'[u] = me[u] /\ 1..requests \subseteq 1..requests'
              /\ 2..requests \subseteq 2..requests'
          BY <3>3
        <4>2. QED
          BY <3>1, <4>1 DEF NumbersAreOwn
      <3>5. QED
        BY <3>2, <3>4
    <2>2. QED
      BY <2>1 DEF Control
  <1>4. Connections'
    <2>1. ClientIsExact' /\ MonitorIsOfConnection'
      BY <1>1 DEF IInv, Connections, ClientIsExact, MonitorIsOfConnection, State
    <2>2. CallHasConnection(t)'
      BY DEF CallHasConnection, Trying, InUse
    <2>3. ASSUME NEW u \in Tasks \ {t} PROVE CallHasConnection(u)'
      <3>1. CallHasConnection(u) /\ me'[u] = me[u]
        BY DEF IInv, Connections
      <3>2. CASE me[u].at \in {"idle", "queued"}
        BY <3>1, <3>2 DEF CallHasConnection, Trying, InUse
      <3>3. CASE me[u].at \notin {"idle", "queued"}
        <4>1. Adm!Invalidated' <=> Adm!Invalidated
          BY <3>3
        <4>2. QED
          BY <1>1, <3>1, <4>1 DEF CallHasConnection, Trying, InUse, State, Quiet, Changing
      <3>4. QED
        BY <3>2, <3>3
    <2>4. OpenConnectionsAreOwned'
      <3>1. ASSUME NEW s \in Conns, wire[s].state \in {"opening", "open"}
            PROVE  \/ s = client.conn
                   \/ \E u \in Tasks : me'[u].mine = s /\ me'[u].at \in {"connecting", "bind"}
        BY <3>1 DEF IInv, Connections, OpenConnectionsAreOwned, State
      <3>2. QED
        BY <3>1 DEF OpenConnectionsAreOwned, State
    <2>5. \A s \in Conns : State(s)' \in {"unused", "opening", "refused"} => Quiet(s)'
      BY DEF IInv, Connections, State, Quiet
    <2>6. QED
      BY <2>1, <2>2, <2>3, <2>4, <2>5 DEF Connections
  <1>5. Responses'
    <2>1. ASSUME NEW u \in Tasks PROVE AnswerIsOwn(u)'
      <3>1. CASE u = t
        BY <3>1 DEF AnswerIsOwn, Exchanging
      <3>2. CASE u # t
        <4>1. AnswerIsOwn(u) /\ me'[u] = me[u]
          BY <3>2 DEF IInv, Responses
        <4>2. QED
          BY <1>1, <4>1 DEF AnswerIsOwn, Exchanging
      <3>3. QED
        BY <3>1, <3>2
    <2>2. \A u \in Tasks : Exchanging(u) => Exchanging(u)' /\ me'[u].mine = me[u].mine
      BY DEF Exchanging
    <2>3. QED
      BY <1>1, <2>1, <2>2 DEF IInv, Responses, State
  <1>6. AnswersWereAsked'
    <2>1. ASSUME NEW u \in Tasks, me'[u].at = "accept"
          PROVE  Got(me'[u].got.req) /\ me'[u].got.kind \in Kinds
      <3>1. u # t /\ me'[u] = me[u]
        BY <2>1
      <3>2. QED
        BY <2>1, <3>1 DEF IInv, AnswersWereAsked
    <2>2. QED
      BY <2>1 DEF IInv, AnswersWereAsked, Got
  <1>7. OutcomeIsTrue'
    <2>1. ASSUME NEW u \in Tasks
          PROVE  /\ me'[u].outcome = "closed" => me'[u].retired
                 /\ me'[u].at = "idle" /\ me'[u].alters # 0 =>
                    /\ me'[u].outcome = "ok" /\ repeats' = 0 =>
                         Got(me[u].alters)' /\ me'[u].alters \notin late'
                    /\ me'[u].outcome = "plcError" /\ repeats' = 0 =>
                         Got(me[u].req)' /\ me'[u].req \notin late'
                    /\ me'[u].outcome = "unknown" => me'[u].sent
                    /\ me'[u].outcome \notin {"ok", "plcError", "unknown", "AttributeError"} =>
                         ~Sent(me[u].alters)'
      <3>1. PICK a, r : a = me'[u].alters /\ r = me'[u].req
        OBVIOUS
      <3>2. /\ me'[u].outcome = "closed" => me'[u].retired
            /\ me'[u].at = "idle" /\ a # 0 =>
               /\ me'[u].outcome = "ok" /\ repeats' = 0 => Got(a)' /\ a \notin late'
               /\ me'[u].outcome = "plcError" /\ repeats' = 0 => Got(r)' /\ r \notin late'
               /\ me'[u].outcome = "unknown" => me'[u].sent
               /\ me'[u].outcome \notin {"ok", "plcError", "unknown", "AttributeError"} =>
                    ~Sent(a)'
        <4>1. CASE u = t
          BY <1>1, <3>1, <4>1 DEF SameRequests
        <4>2. CASE u # t
          <5>1. me'[u] = me[u] /\ a = me[u].alters /\ r = me[u].req
            BY <3>1, <4>2
          <5>2. QED
            BY <1>1, <5>1 DEF IInv, OutcomeIsTrue, SameRequests
        <4>3. QED
          BY <4>1, <4>2
      <3>3. /\ Got(a)' => Got(me[u].alters)'
            /\ Got(r)' => Got(me[u].req)'
            /\ ~Sent(a)' => ~Sent(me[u].alters)'
        BY <3>1 DEF Got, Sent
      <3>4. QED
        BY <3>1, <3>2, <3>3
    <2>2. QED
      BY <2>1 DEF OutcomeIsTrue
  <1>11. InFlight'
    <2>1. \A u \in Tasks : Blameless(u)
      BY DEF Blameless
    <2>2. repeats' \in Nat /\ repeats' >= repeats
      BY DEF IInv, Typed
    <2>3. QED
      BY <2>1, <2>2, QuietInFlight DEF IInv
  <1>8. Cancellations'
    BY DEF IInv, Cancellations, Disposing
  <1>9. CancelledOnlyIfAsked'
    BY DEF IInv, CancelledOnlyIfAsked
  <1>10. QED
    BY <1>2, <1>3, <1>4, <1>5, <1>6, <1>7, <1>8, <1>9,
       <1>11 DEF IInv
(* The call that begins, with the numbers of its requests.                 *)
Begins(t, o, label) ==
    /\ me' \in [Tasks -> Calls]
    /\ \A u \in Tasks \ {t} : me'[u] = me[u]
    /\ me'[t].at = label /\ me'[t].op = o /\ me'[t].mine = NoConn
    /\ me'[t].req = (IF Cost(o) = 0 THEN 0 ELSE requests + 1)
    /\ me'[t].alters = (IF o \in {"write", "register", "bit"}
                          THEN requests + Cost(o) ELSE 0)
    /\ me'[t].got = NoReply /\ me'[t].error = "none" /\ me'[t].outcome = "none"
    /\ ~me'[t].interrupted

(* The call that begins has the fields that Begin gives it.                *)
LEMMA BeginsFacts ==
    ASSUME Typed, NEW t \in Tasks, NEW o \in Operations, NEW label \in {"start", "queued"},
           NEW call, call = [Idle EXCEPT !.op = o,
                      !.req = IF Cost(o) = 0 THEN 0 ELSE requests + 1,
                      !.alters = IF o \in {"write", "register", "bit"}
                                   THEN requests + Cost(o) ELSE 0],
           me' = [me EXCEPT ![t] = [call EXCEPT !.at = label]]
    PROVE  Begins(t, o, label)
  <1> DEFINE req == IF Cost(o) = 0 THEN 0 ELSE requests + 1
             alters == IF o \in {"write", "register", "bit"}
                         THEN requests + Cost(o) ELSE 0
             c == [call EXCEPT !.at = label]
  <1>1. req \in Nat /\ alters \in Nat /\ o \in AllOperations
    BY ClientAssumption DEF Typed, Cost
  <1>2. /\ Idle \in Calls /\ Idle.mine = NoConn /\ Idle.got = NoReply
        /\ Idle.error = "none" /\ Idle.outcome = "none" /\ Idle.interrupted = FALSE
    BY FreshFacts DEF Idle, Calls, Labels, Outcomes
  <1>3. call = [Idle EXCEPT !.op = o, !.req = req, !.alters = alters]
    OBVIOUS
  <1> HIDE DEF req, alters
  <1>4. /\ call \in Calls /\ call.op = o /\ call.req = req /\ call.alters = alters
        /\ call.mine = NoConn /\ call.got = NoReply /\ call.error = "none"
        /\ call.outcome = "none" /\ call.interrupted = FALSE
    BY <1>1, <1>2, <1>3 DEF Calls
  <1>5. /\ c \in Calls /\ c.at = label /\ c.op = o /\ c.req = req /\ c.alters = alters
        /\ c.mine = NoConn /\ c.got = NoReply /\ c.error = "none"
        /\ c.outcome = "none" /\ c.interrupted = FALSE
    <2>1. PICK b : b = call
      OBVIOUS
    <2>2. b \in Calls /\ label \in Labels
      BY <1>4, <2>1 DEF Labels
    <2>3. PICK d : d = [b EXCEPT !.at = label]
      OBVIOUS
    <2>4. /\ d \in Calls /\ d.at = label /\ d.op = b.op /\ d.req = b.req
          /\ d.alters = b.alters /\ d.mine = b.mine /\ d.got = b.got
          /\ d.error = b.error /\ d.outcome = b.outcome
          /\ d.interrupted = b.interrupted
      BY <2>2, <2>3 DEF Calls
    <2>5. c = d
      BY <2>1, <2>3
    <2> HIDE DEF c
    <2>6. QED
      BY <1>4, <2>1, <2>4, <2>5
  <1>6. me' = [me EXCEPT ![t] = c]
    OBVIOUS
  <1> HIDE DEF c
  <1>7. QED
    BY <1>5, <1>6 DEF Typed, Begins, req, alters

(* The numbers of the call that begins are new.                            *)
LEMMA NewNumbers ==
    ASSUME IInv, NEW t \in Tasks, NEW o \in Operations \ {"close"},
           NEW label \in {"start", "queued"},
           Begins(t, o, label), me[t].at = "idle",
           requests' = requests + Cost(o), requests' <= MaxRequests
    PROVE  /\ requests' \in 0..MaxRequests /\ requests' >= requests
           /\ NumbersAreOwn(t)'
           /\ me'[t].op = "bit" => me'[t].req # me'[t].alters
           /\ me'[t].req # 0 => me'[t].req > requests
           /\ me'[t].alters # 0 => me'[t].alters > requests
           /\ \A u \in Tasks : /\ me[u].req \in Nat /\ me[u].req <= requests
                               /\ me[u].alters \in Nat /\ me[u].alters <= requests
           /\ me'[t].req \in Nat /\ me'[t].alters \in Nat /\ requests \in Nat
  <1>1. /\ o \in {"connect", "read", "write", "register", "bit"}
        /\ requests \in 0..MaxRequests /\ requests \in Nat /\ MaxRequests \in Nat
    BY ClientAssumption DEF IInv, Typed, AllOperations
  <1>2. /\ me'[t].req = (IF Cost(o) = 0 THEN 0 ELSE requests + 1)
        /\ me'[t].alters = (IF o \in {"write", "register", "bit"}
                              THEN requests + Cost(o) ELSE 0)
        /\ me'[t].op = o
    BY DEF Begins
  <1>3. ASSUME NEW u \in Tasks
        PROVE  /\ me[u].req \in Nat /\ me[u].req <= requests
               /\ me[u].alters \in Nat /\ me[u].alters <= requests
    <2>1. NumbersAreOwn(u) /\ me[u].op \in AllOperations \cup {"none"}
          /\ me[u].req \in Nat /\ me[u].alters \in Nat
      BY DEF IInv, Control, Typed, Calls
    <2>2. QED
      BY <1>1, <2>1 DEF NumbersAreOwn, AllOperations
  <1>4. CASE o = "connect"
    BY <1>1, <1>2, <1>3, <1>4 DEF NumbersAreOwn, Cost
  <1>5. CASE o = "read"
    BY <1>1, <1>2, <1>3, <1>5 DEF NumbersAreOwn, Cost
  <1>6. CASE o \in {"write", "register"}
    BY <1>1, <1>2, <1>3, <1>6 DEF NumbersAreOwn, Cost
  <1>7. CASE o = "bit"
    BY <1>1, <1>2, <1>3, <1>7 DEF NumbersAreOwn, Cost
  <1>8. QED
    BY <1>1, <1>4, <1>5, <1>6, <1>7

(* A call that may make a connection finds one that nobody else may use.   *)
LEMMA BeginsEnough ==
    ASSUME IInv, NEW t \in Tasks, NEW o \in Operations, NEW label \in {"start", "queued"},
           Begins(t, o, label), me[t].at = "idle", running = NoTask,
           Creates(o) => Cardinality(Unused) > Cardinality(Claims),
           UNCHANGED <<client, wire>>
    PROVE  EnoughConnections'
  <1>1. \A u \in Tasks : me[u].at # "start"
    BY TurnAssumption DEF IInv, Control, CallIsExact
  <1>2. Claims = Needing
    BY <1>1 DEF Claims, Needing
  <1>3. Unused' = Unused /\ \A p : Creates(p)' <=> Creates(p)
    BY DEF Unused, State, Creates, Transport
  <1>4. t \notin Needing
    BY DEF Needing
  <1>5. Needing' \subseteq (IF Creates(o) THEN Needing \cup {t} ELSE Needing)
    BY <1>3 DEF Needing, Creates, Begins
  <1>6. CASE ~Creates(o)
    BY <1>3, <1>5, <1>6, NeedingShrinks DEF IInv
  <1>7. CASE Creates(o)
    <2>1. IsFiniteSet(Needing) /\ Cardinality(Needing) \in Nat
      BY FS_CardinalityType DEF IInv, EnoughConnections
    <2>2. /\ IsFiniteSet(Needing \cup {t})
          /\ Cardinality(Needing \cup {t}) = Cardinality(Needing) + 1
      BY <1>4, <2>1, FS_AddElement
    <2>3. /\ IsFiniteSet(Needing') /\ Cardinality(Needing') \in Nat
          /\ Cardinality(Needing') <= Cardinality(Needing) + 1
      BY <1>5, <1>7, <2>2, FS_Subset, FS_CardinalityType
    <2>4. Cardinality(Unused) \in Nat
      <3>1. IsFiniteSet(Conns)
        BY FS_Interval, ClientAssumption DEF Conns
      <3>2. QED
        BY <3>1, FS_Subset, FS_CardinalityType DEF Unused
    <2>5. Cardinality(Unused)' = Cardinality(Unused)
      BY <1>3
    <2>6. QED
      BY <1>2, <1>7, <2>1, <2>3, <2>4, <2>5 DEF EnoughConnections
  <1>8. QED
    BY <1>6, <1>7

(* The call that begins is the last in line.                               *)
LEMMA BeginsOrdered ==
    ASSUME IInv, NEW t \in Tasks, NEW o \in Operations \ {"close"},
           NEW label \in {"start", "queued"}, Begins(t, o, label), me[t].at = "idle",
           requests' = requests + Cost(o), requests' <= MaxRequests,
           SameRequests, UNCHANGED <<received, repeats>>,
           \/ owner' = t /\ queue' = <<>> /\ owner = NoTask /\ queue = <<>>
           \/ owner' = owner /\ queue' = Append(queue, t)
    PROVE  Ordered' /\ Updates' /\ Blameless(t)
  <1>1. /\ requests' \in 0..MaxRequests /\ requests' >= requests
        /\ me'[t].op = "bit" => me'[t].req # me'[t].alters
        /\ me'[t].req # 0 => me'[t].req > requests
        /\ me'[t].alters # 0 => me'[t].alters > requests
        /\ \A u \in Tasks : /\ me[u].req \in Nat /\ me[u].req <= requests
                            /\ me[u].alters \in Nat /\ me[u].alters <= requests
        /\ me'[t].req \in Nat /\ me'[t].alters \in Nat /\ requests \in Nat
    BY NewNumbers
  <1>2. \A u \in Tasks \ {t} : me'[u] = me[u]
    BY DEF Begins
  <1>3. \A n \in Nat : (Sent(n)' <=> Sent(n)) /\ (Sent(n)' => n <= requests)
    BY DEF IInv, Ordered, SameRequests
  <1>4. /\ queue \in Seq(Tasks) /\ \A i \in 1..Len(queue) : queue[i] \in Tasks
        /\ \A i \in 1..Len(queue) : queue[i] # t
        /\ owner # t /\ owner \in Tasks \cup {NoTask}
    <2>1. pc[t] = "outside"
      BY DEF IInv, Control, CallIsExact
    <2>2. /\ queue \in Seq(Tasks) /\ \A i \in 1..Len(queue) : queue[i] \in Tasks
          /\ owner \in Tasks \cup {NoTask}
      BY DEF IInv, Admission, Adm!TypeOK
    <2>3. \A i \in 1..Len(queue) : queue[i] # t
      BY <2>1 DEF IInv, Admission, Adm!QueueIsExact, Adm!Queued
    <2>4. owner # t
      BY <2>1 DEF IInv, Admission, Adm!OwnerIsExact
    <2>5. QED
      BY <2>2, <2>3, <2>4
  <1>5. \A u \in Tasks : Before(u, t)' \/ u = t
    BY <1>1, <1>2 DEF Before
  <1>6. /\ \A i \in 1..Len(queue') :
             \/ i \in 1..Len(queue) /\ queue'[i] = queue[i]
             \/ i = Len(queue) + 1 /\ queue'[i] = t /\ owner' = owner
        /\ Len(queue) \in Nat
    BY <1>4
  <1>7. \A u, v \in Tasks : u # v /\ me'[u].alters # 0 =>
          me'[u].alters # me'[v].req /\ me'[u].alters # me'[v].alters
    <2>1. ASSUME NEW u \in Tasks, NEW v \in Tasks, u # v, me'[u].alters # 0
          PROVE  me'[u].alters # me'[v].req /\ me'[u].alters # me'[v].alters
      <3>1. CASE u = t
        BY <1>1, <1>2, <2>1, <3>1
      <3>2. CASE v = t
        BY <1>1, <1>2, <2>1, <3>2
      <3>3. CASE u # t /\ v # t
        BY <1>2, <2>1, <3>3 DEF IInv, Ordered
      <3>4. QED
        BY <3>1, <3>2, <3>3
    <2>2. QED
      BY <2>1
  <1>8. ASSUME NEW i \in 1..Len(queue'), NEW j \in 1..Len(queue'), i < j
        PROVE  Before(queue[i], queue[j])'
    <2>1. i \in 1..Len(queue) /\ queue'[i] = queue[i] /\ queue[i] \in Tasks \ {t}
      BY <1>4, <1>6, <1>8
    <2>2. CASE j \in 1..Len(queue) /\ queue'[j] = queue[j]
      <3>1. Before(queue[i], queue[j]) /\ queue[j] \in Tasks \ {t}
        BY <1>4, <1>8, <2>1, <2>2 DEF IInv, Ordered
      <3>2. QED
        BY <1>2, <2>1, <2>2, <3>1 DEF Before
    <2>3. CASE queue'[j] = t
      <3>1. PICK u \in Tasks \ {t} : u = queue[i]
        BY <2>1
      <3>2. Before(u, t)'
        BY <1>1, <1>2 DEF Before
      <3>3. QED
        BY <2>1, <2>3, <3>1, <3>2 DEF Before
    <2>4. QED
      BY <1>6, <2>2, <2>3
  <1>9. ASSUME owner' # NoTask, NEW j \in 1..Len(queue') PROVE Before(owner, queue[j])'
    <2>1. owner' = owner /\ owner \in Tasks \ {t}
      BY <1>4, <1>9
    <2>2. CASE j \in 1..Len(queue) /\ queue'[j] = queue[j]
      <3>1. Before(owner, queue[j]) /\ queue[j] \in Tasks \ {t}
        BY <1>4, <1>9, <2>1, <2>2 DEF IInv, Ordered
      <3>2. QED
        BY <1>2, <2>1, <2>2, <3>1 DEF Before
    <2>3. CASE queue'[j] = t
      BY <1>1, <1>2, <2>1, <2>3 DEF Before
    <2>4. QED
      BY <1>6, <2>2, <2>3
  <1>10. ASSUME NEW u \in Tasks, NEW n \in Nat, InLine(u)', me'[u].req # 0, Sent(n)'
         PROVE  n <= me'[u].req /\ (Unsent(u)' => n < me'[u].req)
    <2>1. CASE u = t
      BY <1>1, <1>3, <1>10, <2>1
    <2>2. CASE u # t
      <3>1. InLine(u)
        <4>1. CASE owner' = u
          BY <2>2, <4>1 DEF InLine
        <4>2. CASE Adm!Queued(u)'
          BY <1>6, <2>2, <4>2 DEF InLine, Adm!Queued
        <4>3. QED
          BY <1>10, <4>1, <4>2 DEF InLine
      <3>2. QED
        BY <1>2, <1>3, <1>10, <2>2, <3>1 DEF IInv, Ordered, Unsent
    <2>3. QED
      BY <2>1, <2>2
  <1>11. \A n \in Nat : Sent(n)' => n <= requests'
    <2>1. \A n \in Nat : n <= requests => n <= requests'
      BY <1>1
    <2>2. QED
      BY <1>3, <2>1
  <1>12. Ordered'
    BY <1>7, <1>8, <1>9, <1>10, <1>11 DEF Ordered
  <1>13. Updates'
    <2>1. ASSUME NEW u \in Tasks, me'[u].alters # 0
          PROVE  /\ Unsent(u)' \/ ~Changing(u)' => ~Sent(me[u].alters)'
                 /\ repeats' = 0 /\ me'[u].op = "bit" /\ Changing(u)' =>
                      Got(me[u].alters - 1)'
      <3>1. PICK a, b : a = me'[u].alters /\ b = me'[u].alters - 1
        OBVIOUS
      <3>2. /\ Unsent(u)' \/ ~Changing(u)' => ~Sent(a)'
            /\ repeats' = 0 /\ me'[u].op = "bit" /\ Changing(u)' => Got(b)'
        <4>1. CASE u = t
          <5>1. a \in Nat /\ a > requests /\ requests \in Nat
            BY <1>1, <2>1, <3>1, <4>1
          <5>2. ~Sent(a)'
            BY <1>3, <5>1
          <5>3. ~(me'[u].op = "bit" /\ Changing(u)')
            BY <1>1, <4>1 DEF Changing
          <5>4. QED
            BY <5>2, <5>3
        <4>2. CASE u # t
          <5>1. me'[u] = me[u]
            BY <1>2, <4>2
          <5>2. /\ Unsent(u) \/ ~Changing(u) => ~Sent(a)
                /\ repeats = 0 /\ me[u].op = "bit" /\ Changing(u) => Got(b)
            BY <2>1, <3>1, <5>1 DEF IInv, Updates
          <5>3. (Unsent(u)' <=> Unsent(u)) /\ (Changing(u)' <=> Changing(u))
            BY <5>1 DEF Unsent, Changing
          <5>4. QED
            BY <5>1, <5>2, <5>3 DEF SameRequests
        <4>3. QED
          BY <4>1, <4>2
      <3>3. QED
        BY <3>1, <3>2 DEF Got, Sent
    <2>2. QED
      BY <2>1 DEF Updates
  <1>14. Blameless(t)
    <2>1. ASSUME NEW a, a = me'[t].alters PROVE ~Got(a)
      <3>1. CASE a = 0
        BY <3>1, ReceivedFacts DEF IInv, Got
      <3>2. CASE a # 0
        <4>1. a \in Nat /\ a > requests /\ requests \in Nat
          BY <1>1, <2>1, <3>2
        <4>2. ~Sent(a)
          BY <1>3, <4>1
        <4>3. QED
          BY <4>2 DEF Sent
      <3>3. QED
        BY <3>1, <3>2
    <2>2. ~Flying(t)'
      BY DEF Flying, Begins
    <2>3. QED
      BY <2>1, <2>2 DEF Blameless
  <1>15. QED
    BY <1>12, <1>13, <1>14

(* The invariant after a call began, in its turn or in the queue.          *)
LEMMA BeginIInv ==
    ASSUME IInv, NEW t \in Tasks, NEW o \in Operations, Begin(t, o)
    PROVE  IInv'
  <1>1. /\ running = NoTask /\ me[t].at = "idle" /\ o \in Operations \ {"close"}
        /\ Creates(o) => Cardinality(Unused) > Cardinality(Claims)
        /\ requests' = requests + Cost(o) /\ requests' <= MaxRequests
        /\ UNCHANGED <<client, wire, received, late, repeats, cancels>>
    BY DEF Begin, At
  <1>2. PICK label \in {"start", "queued"} :
          /\ \/ Adm!EnterFree(t) /\ label = "start" /\ running' = t
             \/ Adm!EnterBusy(t) /\ label = "queued" /\ running' = running
          /\ Begins(t, o, label)
    <2> DEFINE call == [Idle EXCEPT !.op = o,
                      !.req = IF Cost(o) = 0 THEN 0 ELSE requests + 1,
                      !.alters = IF o \in {"write", "register", "bit"}
                                   THEN requests + Cost(o) ELSE 0]
    <2>1. \/ /\ Adm!EnterFree(t) /\ running' = t
             /\ me' = [me EXCEPT ![t] = [call EXCEPT !.at = "start"]]
          \/ /\ Adm!EnterBusy(t) /\ running' = running
             /\ me' = [me EXCEPT ![t] = [call EXCEPT !.at = "queued"]]
      BY DEF Begin
    <2>2. PICK c : c = call
      OBVIOUS
    <2>3. QED
      BY <2>1, <2>2, BeginsFacts DEF IInv
  <1>3. Admission'
    BY <1>2, TurnStep DEF IInv, Adm!Next, Adm!Step
  <1>4. /\ requests' \in 0..MaxRequests /\ requests' >= requests /\ NumbersAreOwn(t)'
        /\ me'[t].op = "bit" => me'[t].req # me'[t].alters
    BY <1>1, <1>2, NewNumbers
  <1>5. EnoughConnections'
    BY <1>1, <1>2, BeginsEnough
  <1>6. /\ pc' \in [Tasks -> {"outside", "waiting", "inside"}]
        /\ pc'[t] = (IF label = "start" THEN "inside" ELSE "waiting")
        /\ \A u \in Tasks \ {t} : pc'[u] = pc[u]
        /\ cancelled' = cancelled
        /\ \/ /\ label = "start" /\ owner = NoTask /\ queue = <<>>
              /\ owner' = t /\ queue' = <<>> /\ ~Adm!Invalidated'
           \/ /\ label = "queued" /\ owner' = owner /\ queue' = Append(queue, t)
              /\ (Adm!Invalidated' <=> Adm!Invalidated)
    BY <1>2 DEF IInv, Admission, Adm!TypeOK, Adm!EnterFree, Adm!EnterBusy, Adm!turn,
       Adm!Invalidated
  <1>7. Ordered' /\ Updates' /\ Blameless(t)
    <2>1. SameRequests
      BY <1>1, RequestsStay
    <2>2. QED
      BY <1>1, <1>2, <1>6, <2>1, BeginsOrdered
  <1>8. /\ me' \in [Tasks -> Calls] /\ \A u \in Tasks \ {t} : me'[u] = me[u]
        /\ me'[t].at = label /\ me'[t].op = o /\ me'[t].mine = NoConn
        /\ me'[t].got = NoReply /\ me'[t].error = "none" /\ me'[t].outcome = "none"
        /\ ~me'[t].interrupted
    BY <1>2 DEF Begins
  <1>9. CallIsExact(t)'
    <2>1. running' = t <=> label = "start"
      BY <1>1, <1>2, TurnAssumption
    <2>2. o # "none"
      BY ClientAssumption DEF AllOperations
    <2>3. QED
      BY <1>4, <1>6, <1>8, <2>1, <2>2 DEF CallIsExact, Disposing, InUse
  <1>10. \A u \in Tasks \ {t} : me[u].at \notin {"idle", "queued"} =>
           (Adm!Invalidated' <=> Adm!Invalidated)
    BY <1>6, ActingFacts DEF IInv
  <1>11. ~cancelled'[t]
    BY <1>1, <1>6 DEF IInv, Cancellations
  <1>12. me'[t].at = "start" => ~(me'[t].op = "bit" /\ Changing(t)')
    BY <1>4 DEF Changing
  <1>13. cancels' \in Nat /\ running' \in {running, t}
    BY <1>1, <1>2 DEF IInv, Typed
  <1>14. QED
    BY <1>1, <1>3, <1>4, <1>5, <1>6, <1>7, <1>8, <1>9, <1>10, <1>11, <1>12, <1>13,
       InLineIInv

(* A call that is still in the queue leaves it, or is told to leave.       *)
Turns(t, label, outcome, retired, asked) ==
    /\ me' \in [Tasks -> Calls]
    /\ \A u \in Tasks \ {t} : me'[u] = me[u]
    /\ me'[t].at = label /\ me'[t].outcome = outcome
    /\ me'[t].retired = retired /\ me'[t].asked = asked
    /\ me'[t].op = me[t].op /\ me'[t].mine = me[t].mine
    /\ me'[t].req = me[t].req /\ me'[t].alters = me[t].alters
    /\ me'[t].got = me[t].got /\ me'[t].error = me[t].error
    /\ me'[t].interrupted = me[t].interrupted

(* The call has the fields it is given.                                    *)
LEMMA TurnsFacts ==
    ASSUME Typed, NEW t \in Tasks, NEW label \in Labels, NEW outcome \in Outcomes,
           NEW retired \in BOOLEAN, NEW asked \in BOOLEAN,
           me' = [me EXCEPT ![t] = [me[t] EXCEPT
                    !.at = label, !.outcome = outcome, !.retired = retired,
                    !.asked = asked]]
    PROVE  Turns(t, label, outcome, retired, asked)
  <1> DEFINE c == [me[t] EXCEPT !.at = label, !.outcome = outcome,
                                !.retired = retired, !.asked = asked]
  <1>1. me[t] \in Calls
    BY DEF Typed
  <1>2. /\ c \in Calls /\ c.at = label /\ c.outcome = outcome
        /\ c.retired = retired /\ c.asked = asked
        /\ c.op = me[t].op /\ c.mine = me[t].mine
        /\ c.req = me[t].req /\ c.alters = me[t].alters
        /\ c.got = me[t].got /\ c.error = me[t].error
        /\ c.interrupted = me[t].interrupted
    BY <1>1 DEF Calls
  <1>3. me' = [me EXCEPT ![t] = c]
    OBVIOUS
  <1> HIDE DEF c
  <1>4. QED
    BY <1>2, <1>3 DEF Typed, Turns

(* Whose ticket is withdrawn leaves the others in their order.             *)
LEMMA OrderedWithdrawal ==
    ASSUME IInv, NEW t \in Tasks, SameNumbers, queue' = Adm!Without(queue, t),
           UNCHANGED <<requests, owner>>, \A r \in Nat : Sent(r)' => Sent(r),
           \A u \in Tasks : me[u].req # 0 => (Unsent(u)' => Unsent(u))
    PROVE  Ordered'
  <1>1. queue \in Seq(Tasks) /\ Len(queue) \in Nat
    BY DEF IInv, Admission, Adm!TypeOK
  <1>2. CASE {i \in 1..Len(queue) : queue[i] = t} = {}
    <2>1. queue' = queue
      BY <1>2 DEF Adm!Without
    <2>2. QED
      BY <2>1, OrderedStays
  <1>3. CASE {i \in 1..Len(queue) : queue[i] = t} # {}
    <2>1. PICK k \in 1..Len(queue) :
            queue' = [i \in 1..(Len(queue) - 1) |->
                        IF i < k THEN queue[i] ELSE queue[i + 1]]
      BY <1>3 DEF Adm!Without
    <2> DEFINE f == [i \in 1..(Len(queue) - 1) |-> IF i < k THEN i ELSE i + 1]
    <2>2. Len(queue) - 1 \in Nat /\ k \in Nat /\ k <= Len(queue)
      BY <1>1
    <2>3. Len(queue') = Len(queue) - 1
      <3>1. DOMAIN queue' = 1..(Len(queue) - 1)
        BY <2>1
      <3>2. \A i \in 1..(Len(queue) - 1) :
              (IF i < k THEN queue[i] ELSE queue[i + 1]) \in Tasks
        BY <1>1, <2>2
      <3>3. queue' \in [1..(Len(queue) - 1) -> Tasks]
        BY <2>1, <3>2
      <3>4. \A n \in Nat : [1..n -> Tasks] \subseteq Seq(Tasks)
        OBVIOUS
      <3>5. queue' \in Seq(Tasks)
        BY <2>2, <3>3, <3>4
      <3>6. QED
        BY <2>2, <3>1, <3>5
    <2>4. /\ \A i \in 1..Len(queue') : f[i] = IF i < k THEN i ELSE i + 1
          /\ f \in [1..Len(queue') -> 1..Len(queue)]
      BY <2>2, <2>3
    <2>5. /\ \A i, j \in 1..Len(queue') : i < j => f[i] < f[j]
          /\ \A i \in 1..Len(queue') : queue'[i] = queue[f[i]]
      BY <2>1, <2>2, <2>3, <2>4
    <2> HIDE DEF f
    <2>6. \A u \in Tasks : InLine(u)' => InLine(u)
      BY <2>4, <2>5 DEF InLine, Adm!Queued
    <2>7. requests' \in Nat /\ requests' >= requests /\ Len(queue') \in Nat
      BY <2>2, <2>3 DEF IInv, Typed
    <2>8. QED
      BY <2>4, <2>5, <2>6, <2>7, OrderedShrinks
  <1>4. QED
    BY <1>2, <1>3

(* What a call in the queue is before it moves.                            *)
LEMMA QueuedFacts ==
    ASSUME IInv, NEW t \in Tasks, me[t].at = "queued"
    PROVE  /\ pc[t] = "waiting" /\ me[t].mine = NoConn /\ me[t].got = NoReply
           /\ me[t].outcome = "none" /\ me[t].op # "none" /\ me[t].outcome \in Outcomes
           /\ me[t].op = "bit" => me[t].req # me[t].alters
           /\ me[t].retired \in BOOLEAN /\ me[t].asked \in BOOLEAN
           /\ NumbersAreOwn(t) /\ running # t
           /\ me[t].alters # 0 => ~Sent(me[t].alters)
           /\ me[t].interrupted => me[t].asked
           /\ me[t].error = "cancelled" => me[t].asked
           /\ cancelled[t] => me[t].asked
           /\ cancelled[t] \in BOOLEAN
           /\ Creates(me[t].op) => t \in Needing
  <1>1. CallIsExact(t) /\ NumbersAreOwn(t) /\ me[t] \in Calls
    BY DEF IInv, Control, Typed
  <1>2. me[t].got = NoReply
    BY DEF IInv, Responses, AnswerIsOwn
  <1>3. me[t].alters # 0 => ~Sent(me[t].alters)
    BY DEF IInv, Updates, Unsent
  <1>4. QED
    BY <1>1, <1>2, <1>3 DEF CallIsExact, Calls, IInv, Cancellations, Admission,
       Adm!TypeOK, Needing

(* A call leaves the queue, or is told to, in one of four ways.            *)
LEMMA TurnsIInv ==
    ASSUME IInv, NEW t \in Tasks, me[t].at = "queued", running = NoTask,
           NEW label \in {"idle", "queued", "start"}, NEW outcome \in Outcomes,
           NEW retired \in BOOLEAN, NEW asked \in BOOLEAN,
           Turns(t, label, outcome, retired, asked), Admission', Ordered',
           label = "start" => pc' = [pc EXCEPT ![t] = "inside"] /\ running' = t,
           label = "idle" => pc' = [pc EXCEPT ![t] = "outside"] /\ running' = running,
           label = "queued" => pc' = pc /\ running' = running,
           \A u \in Tasks \ {t} : cancelled'[u] = cancelled[u],
           cancelled'[t] => label = "queued" /\ asked,
           Adm!Invalidated' => Adm!Invalidated,
           (Adm!Invalidated' <=> Adm!Invalidated) \/ owner = t,
           UNCHANGED <<client, wire, received, late, repeats, requests>>, cancels' \in Nat,
           label # "idle" => outcome = "none",
           outcome \in {"none", "closed", "cancelled"},
           outcome = "closed" => retired,
           outcome = "cancelled" => asked,
           me[t].asked => asked
    PROVE  IInv'
  <1>1. /\ pc[t] = "waiting" /\ me[t].mine = NoConn /\ me[t].got = NoReply
        /\ me[t].op # "none"
        /\ me[t].op = "bit" => me[t].req # me[t].alters
        /\ NumbersAreOwn(t) /\ running # t
        /\ me[t].alters # 0 => ~Sent(me[t].alters)
        /\ me[t].interrupted => me[t].asked
        /\ me[t].error = "cancelled" => me[t].asked
        /\ Creates(me[t].op) => t \in Needing
    BY QueuedFacts
  <1>2. /\ me' \in [Tasks -> Calls]
        /\ \A u \in Tasks \ {t} : me'[u] = me[u]
        /\ me'[t].at = label /\ me'[t].outcome = outcome
        /\ me'[t].retired = retired /\ me'[t].asked = asked
        /\ me'[t].op = me[t].op /\ me'[t].mine = me[t].mine
        /\ me'[t].req = me[t].req /\ me'[t].alters = me[t].alters
        /\ me'[t].got = me[t].got /\ me'[t].error = me[t].error
        /\ me'[t].interrupted = me[t].interrupted
    BY DEF Turns
  <1>3. /\ pc'[t] = (IF label = "start" THEN "inside"
                     ELSE IF label = "idle" THEN "outside" ELSE "waiting")
        /\ \A u \in Tasks \ {t} : pc'[u] = pc[u]
    BY <1>1 DEF IInv, Admission, Adm!TypeOK
  <1>4. CallIsExact(t)'
    <2>1. running' = t <=> label = "start"
      BY <1>1
    <2>2. QED
      BY <1>1, <1>2, <1>3, <2>1 DEF CallIsExact, Disposing, InUse
  <1>5. NumbersAreOwn(t)'
    BY <1>1, <1>2 DEF NumbersAreOwn
  <1>6. SameNumbers /\ \A u \in Tasks : me'[u].op = me[u].op
    BY <1>2 DEF SameNumbers
  <1>7. \A u \in Tasks : Unsent(u)' => Unsent(u)
    BY <1>2 DEF Unsent
  <1>8. Updates' /\ Blameless(t)
    <2>1. SameRequests
      BY RequestsStay
    <2>2. Updates'
      BY <1>6, <1>7, <2>1, UpdatesStay DEF IInv
    <2>3. ~Flying(t)'
      BY <1>2 DEF Flying
    <2>4. QED
      BY <1>2, <2>2, <2>3 DEF Blameless
  <1>15. me'[t].alters # 0 => \A a : a = me'[t].alters => ~Sent(a)
    BY <1>1, <1>2
  <1>9. EnoughConnections'
    <2>1. Needing' \subseteq Needing
      <3>1. ASSUME NEW u \in Tasks, u \in Needing' PROVE u \in Needing
        <4>1. Creates(me[u].op)
          BY <1>6, <3>1 DEF Needing, Creates, Transport
        <4>2. CASE u = t
          BY <1>1, <4>1, <4>2
        <4>3. CASE u # t
          BY <1>2, <3>1, <4>1, <4>3 DEF Needing
        <4>4. QED
          BY <4>2, <4>3
      <3>2. QED
        BY <3>1 DEF Needing
    <2>2. Unused' = Unused
      BY DEF Unused, State
    <2>3. QED
      BY <2>1, <2>2, NeedingShrinks DEF IInv
  <1>10. \A u \in Tasks \ {t} : me[u].at \notin {"idle", "queued"} =>
           (Adm!Invalidated' <=> Adm!Invalidated)
    BY ActingFacts DEF IInv
  <1>11. ~(me'[t].op = "bit" /\ Changing(t)')
    BY <1>1, <1>2 DEF Changing
  <1>12. requests' \in 0..MaxRequests /\ requests' >= requests
    <2>1. requests \in 0..MaxRequests /\ MaxRequests \in Nat
      BY ClientAssumption DEF IInv, Typed
    <2>2. QED
      BY <2>1
  <1>13. running' \in {running, t}
    OBVIOUS
  <1>14. QED
    BY <1>1, <1>2, <1>3, <1>4, <1>5, <1>8, <1>9, <1>10, <1>11, <1>12, <1>13, <1>15,
       InLineIInv

(* The suspended __aenter__ goes on.                                       *)
LEMMA ResumedIInv ==
    ASSUME IInv, NEW t \in Tasks, Resumed(t)
    PROVE  IInv'
  <1>1. /\ running = NoTask /\ me[t].at = "queued"
        /\ UNCHANGED <<client, wire>> /\ UNCHANGED <<received, late, requests, repeats, cancels>>
    BY DEF Resumed, At, peer
  <1>8. \A r \in Nat : Sent(r)' => Sent(r)
    BY <1>1, RequestsStay DEF SameRequests
  <1>2. /\ pc[t] = "waiting" /\ me[t].outcome = "none" /\ me[t].outcome \in Outcomes
        /\ me[t].retired \in BOOLEAN /\ me[t].asked \in BOOLEAN
        /\ cancelled[t] => me[t].asked
        /\ me[t] \in Calls
    BY <1>1, QueuedFacts DEF IInv, Typed
  <1>3. /\ pc \in [Tasks -> {"outside", "waiting", "inside"}]
        /\ cancelled \in [Tasks -> BOOLEAN] /\ cancels \in Nat
        /\ me \in [Tasks -> Calls]
    BY DEF IInv, Admission, Adm!TypeOK, Typed
  <1>4. CASE Adm!Admitted(t) /\ running' = t /\ me' = [me EXCEPT ![t].at = "start"]
    <2>1. /\ Admission'
          /\ pc' = [pc EXCEPT ![t] = "inside"] /\ ~cancelled[t]
          /\ UNCHANGED <<owner, ownerGeneration, queue, generation, cancelled>>
      BY <1>4, TurnStep DEF IInv, Adm!Next, Adm!Step, Adm!Resume, Adm!Admitted, Adm!turn
    <2>2. Turns(t, "start", me[t].outcome, me[t].retired, me[t].asked)
      <3>1. me' = [me EXCEPT ![t] = [me[t] EXCEPT
                    !.at = "start", !.outcome = me[t].outcome,
                    !.retired = me[t].retired, !.asked = me[t].asked]]
        BY <1>2, <1>3, <1>4 DEF Calls
      <3>2. "start" \in Labels
        BY DEF Labels
      <3>3. QED
        BY <1>2, <3>1, <3>2, TurnsFacts DEF IInv
    <2>3. Ordered'
      BY <1>1, <1>8, <2>1, <2>2, OrderedStays DEF Turns, SameNumbers, Unsent
    <2>4. Adm!Invalidated' <=> Adm!Invalidated
      BY <2>1 DEF Adm!Invalidated
    <2>5. QED
      BY <1>1, <1>2, <1>3, <1>4, <2>1, <2>2, <2>3, <2>4, TurnsIInv
  <1>5. CASE /\ Adm!Rejected(t) /\ running' = running
             /\ me' = [me EXCEPT ![t].at = "idle", ![t].outcome = "closed",
                                 ![t].retired = TRUE]
    <2>1. /\ Admission'
          /\ pc' = [pc EXCEPT ![t] = "outside"] /\ ~cancelled[t]
          /\ UNCHANGED <<owner, ownerGeneration, queue, generation, cancelled>>
      BY <1>5, TurnStep DEF IInv, Adm!Next, Adm!Step, Adm!Resume, Adm!Rejected, Adm!turn
    <2>2. Turns(t, "idle", "closed", TRUE, me[t].asked)
      <3>1. me' = [me EXCEPT ![t] = [me[t] EXCEPT
                    !.at = "idle", !.outcome = "closed",
                    !.retired = TRUE, !.asked = me[t].asked]]
        BY <1>2, <1>3, <1>5 DEF Calls
      <3>2. "idle" \in Labels /\ "closed" \in Outcomes
        BY DEF Labels, Outcomes
      <3>3. QED
        BY <1>2, <3>1, <3>2, TurnsFacts DEF IInv
    <2>3. Ordered'
      BY <1>1, <1>8, <2>1, <2>2, OrderedStays DEF Turns, SameNumbers, Unsent
    <2>4. Adm!Invalidated' <=> Adm!Invalidated
      BY <2>1 DEF Adm!Invalidated
    <2>5. "closed" \in Outcomes
      BY DEF Outcomes
    <2>6. PICK label \in {"idle", "queued", "start"}, outcome \in Outcomes,
               retired \in BOOLEAN :
            label = "idle" /\ outcome = "closed" /\ retired = TRUE
      BY <1>2, <2>5
    <2>7. Turns(t, label, outcome, retired, me[t].asked)
      BY <2>2, <2>6
    <2>8. /\ \A u \in Tasks \ {t} : cancelled'[u] = cancelled[u]
          /\ cancelled'[t] => label = "queued" /\ me[t].asked
          /\ cancels' \in Nat
      BY <1>1, <1>2, <1>3, <1>5, <2>1, <2>6
    <2>9. /\ label = "start" => pc' = [pc EXCEPT ![t] = "inside"] /\ running' = t
          /\ label = "idle" => pc' = [pc EXCEPT ![t] = "outside"] /\ running' = running
          /\ label = "queued" => pc' = pc /\ running' = running
      BY <1>5, <2>1, <2>6
    <2>10. /\ label # "idle" => outcome = "none"
           /\ outcome \in {"none", "closed", "cancelled"}
           /\ outcome = "closed" => retired
           /\ outcome = "cancelled" => me[t].asked
      BY <2>6
    <2>11. me[t].asked \in BOOLEAN /\ Admission'
           /\ UNCHANGED <<client, wire, received, late, repeats, requests>>
      BY <1>1, <1>2, <2>1
    <2>12. QED
      BY <1>1, <2>3, <2>4, <2>7, <2>8, <2>9, <2>10, <2>11, TurnsIInv
  <1>6. CASE /\ Adm!CancelledInQueue(t) /\ running' = running
             /\ me' = [me EXCEPT ![t].at = "idle", ![t].outcome = "cancelled"]
    <2>1. /\ Admission'
          /\ pc' = [pc EXCEPT ![t] = "outside"] /\ cancelled[t]
          /\ cancelled' = [cancelled EXCEPT ![t] = FALSE]
          /\ UNCHANGED <<generation, waiterGeneration>>
      BY <1>6, TurnStep DEF IInv, Adm!Next, Adm!Step, Adm!Resume, Adm!CancelledInQueue
    <2>2. Turns(t, "idle", "cancelled", me[t].retired, me[t].asked)
      <3>1. me' = [me EXCEPT ![t] = [me[t] EXCEPT
                    !.at = "idle", !.outcome = "cancelled",
                    !.retired = me[t].retired, !.asked = me[t].asked]]
        BY <1>2, <1>3, <1>6 DEF Calls
      <3>2. "idle" \in Labels /\ "cancelled" \in Outcomes
        BY DEF Labels, Outcomes
      <3>3. QED
        BY <1>2, <3>1, <3>2, TurnsFacts DEF IInv
    <2>3. SameNumbers /\ \A u \in Tasks \ {t} : me'[u] = me[u]
      BY <2>2 DEF Turns, SameNumbers
    <2>4. /\ Ordered' /\ (Adm!Invalidated' => Adm!Invalidated)
          /\ (Adm!Invalidated' <=> Adm!Invalidated) \/ owner = t
      <3>1. CASE ~Adm!Queued(t) /\ owner = t
        <4>1. Adm!HandOver(queue)
          BY <1>6, <3>1 DEF Adm!CancelledInQueue
        <4>2. /\ ~Adm!Invalidated' /\ owner' # t
              /\ \/ queue = <<>> /\ queue' = <<>> /\ owner' = NoTask
                 \/ queue # <<>> /\ queue' = Tail(queue) /\ owner' = Head(queue)
          BY <2>1, <3>1, <4>1, HandOverFacts DEF IInv
        <4>3. Ordered'
          BY <1>1, <1>8, <2>1, <2>3, <3>1, <4>2, OrderedHandOver
        <4>4. QED
          BY <3>1, <4>2, <4>3
      <3>2. CASE ~(~Adm!Queued(t) /\ owner = t)
        <4>1. /\ queue' = Adm!Without(queue, t)
              /\ UNCHANGED <<owner, ownerGeneration>>
          BY <1>6, <3>2 DEF Adm!CancelledInQueue, Adm!turn
        <4>2. \A u \in Tasks : Unsent(u)' => Unsent(u)
          BY <2>2 DEF Turns, Unsent
        <4>3. Ordered'
          BY <1>1, <1>8, <2>3, <4>1, <4>2, OrderedWithdrawal
        <4>4. Adm!Invalidated' <=> Adm!Invalidated
          BY <2>1, <4>1 DEF Adm!Invalidated
        <4>5. QED
          BY <4>3, <4>4
      <3>3. QED
        BY <3>1, <3>2
    <2>5. ~cancelled'[t] /\ \A u \in Tasks \ {t} : cancelled'[u] = cancelled[u]
      BY <1>3, <2>1
    <2>6. "cancelled" \in Outcomes
      BY DEF Outcomes
    <2>7. PICK label \in {"idle", "queued", "start"}, outcome \in Outcomes,
               retired \in BOOLEAN :
            label = "idle" /\ outcome = "cancelled" /\ retired = me[t].retired
      BY <1>2, <2>6
    <2>8. Turns(t, label, outcome, retired, me[t].asked)
      BY <2>2, <2>7
    <2>9. /\ cancelled'[t] => label = "queued" /\ me[t].asked
          /\ cancels' \in Nat
      BY <1>1, <1>3, <2>5
    <2>10. /\ label = "start" => pc' = [pc EXCEPT ![t] = "inside"] /\ running' = t
           /\ label = "idle" => pc' = [pc EXCEPT ![t] = "outside"] /\ running' = running
           /\ label = "queued" => pc' = pc /\ running' = running
      BY <1>6, <2>1, <2>7
    <2>11. /\ label # "idle" => outcome = "none"
           /\ outcome \in {"none", "closed", "cancelled"}
           /\ outcome = "closed" => retired
           /\ outcome = "cancelled" => me[t].asked
      BY <1>2, <2>1, <2>7
    <2>12. me[t].asked \in BOOLEAN /\ Admission'
           /\ UNCHANGED <<client, wire, received, late, repeats, requests>>
      BY <1>1, <1>2, <2>1
    <2>13. QED
      BY <1>1, <2>4, <2>5, <2>8, <2>9, <2>10, <2>11, <2>12, TurnsIInv
  <1>7. QED
    BY <1>4, <1>5, <1>6 DEF Resumed

(* task.cancel() takes effect only when the task resumes.                  *)
LEMMA CancelIInv ==
    ASSUME IInv, NEW t \in Tasks, Cancel(t)
    PROVE  IInv'
  <1>1. /\ running = NoTask /\ cancels' = cancels + 1
        /\ UNCHANGED <<running, client, wire, received, late, requests, repeats>>
    BY DEF Cancel
  <1>6. SameRequests /\ \A r \in Nat : Sent(r)' => Sent(r)
    BY <1>1, RequestsStay DEF SameRequests
  <1>2. cancels' \in Nat /\ me[t] \in Calls /\ me \in [Tasks -> Calls]
    BY <1>1 DEF IInv, Typed
  <1>3. CASE /\ me[t].at = "queued" /\ Adm!Cancel(t)
             /\ me' = [me EXCEPT ![t].asked = TRUE]
    <2>1. /\ Admission'
          /\ cancelled' = [cancelled EXCEPT ![t] = TRUE]
          /\ UNCHANGED <<owner, ownerGeneration, queue, generation, pc>>
      BY <1>3, TurnStep DEF IInv, Adm!Next, Adm!Step, Adm!Cancel, Adm!turn
    <2>2. /\ pc[t] = "waiting" /\ me[t].outcome = "none" /\ me[t].outcome \in Outcomes
          /\ me[t].retired \in BOOLEAN
      BY <1>3, QueuedFacts
    <2>3. Turns(t, "queued", me[t].outcome, me[t].retired, TRUE)
      <3>1. me' = [me EXCEPT ![t] = [me[t] EXCEPT
                    !.at = "queued", !.outcome = me[t].outcome,
                    !.retired = me[t].retired, !.asked = TRUE]]
        BY <1>2, <1>3 DEF Calls
      <3>2. "queued" \in Labels
        BY DEF Labels
      <3>3. QED
        BY <2>2, <3>1, <3>2, TurnsFacts DEF IInv
    <2>4. Ordered'
      BY <1>1, <1>3, <1>6, <2>1, <2>3, OrderedStays DEF Turns, SameNumbers, Unsent
    <2>5. Adm!Invalidated' <=> Adm!Invalidated
      BY <2>1 DEF Adm!Invalidated
    <2>6. \A u \in Tasks \ {t} : cancelled'[u] = cancelled[u]
      BY <2>1 DEF IInv, Admission, Adm!TypeOK
    <2>7. QED
      BY <1>1, <1>2, <1>3, <2>1, <2>2, <2>3, <2>4, <2>5, <2>6, TurnsIInv
  <1>4. CASE /\ me[t].at \in Suspended
             /\ me' = [me EXCEPT ![t].asked = TRUE, ![t].interrupted = TRUE]
             /\ UNCHANGED admission
    <2>1. /\ me' \in [Tasks -> Calls] /\ \A u \in Tasks \ {t} : me'[u] = me[u]
          /\ me'[t].asked = TRUE
          /\ \A u \in Tasks :
               /\ me'[u].at = me[u].at /\ me'[u].op = me[u].op
               /\ me'[u].mine = me[u].mine /\ me'[u].req = me[u].req
               /\ me'[u].alters = me[u].alters /\ me'[u].got = me[u].got
               /\ me'[u].error = me[u].error /\ me'[u].outcome = me[u].outcome
               /\ me'[u].sent = me[u].sent /\ me'[u].retired = me[u].retired
               /\ me[u].asked => me'[u].asked
      <3> DEFINE c == [me[t] EXCEPT !.asked = TRUE, !.interrupted = TRUE]
      <3>1. me' = [me EXCEPT ![t] = c]
        BY <1>2, <1>4
      <3>2. /\ c \in Calls /\ c.asked = TRUE
            /\ c.at = me[t].at /\ c.op = me[t].op
            /\ c.mine = me[t].mine /\ c.req = me[t].req
            /\ c.alters = me[t].alters /\ c.got = me[t].got
            /\ c.error = me[t].error /\ c.outcome = me[t].outcome
            /\ c.sent = me[t].sent /\ c.retired = me[t].retired
        BY <1>2 DEF Calls
      <3> HIDE DEF c
      <3>3. QED
        BY <1>2, <3>1, <3>2
    <2>2. /\ UNCHANGED <<owner, queue, cancelled, pc>>
          /\ Adm!Invalidated' <=> Adm!Invalidated
      BY <1>4 DEF admission, Adm!Invalidated
    <2>3. Admission'
      BY <1>4, TurnStep DEF IInv, Adm!vars, Adm!turn, Adm!waiters, admission
    <2>4. Typed'
      BY <1>1, <1>2, <2>1 DEF IInv, Typed
    <2>5. Control'
      BY <1>1, <2>1, <2>2 DEF IInv, Control, CallIsExact, NumbersAreOwn, Transport,
         Disposing, InUse
    <2>6. Connections'
      <3>1. ClientIsExact' /\ MonitorIsOfConnection'
        BY <1>1, <2>2 DEF IInv, Connections, ClientIsExact, MonitorIsOfConnection,
           Transport, State
      <3>2. \A u \in Tasks : CallHasConnection(u)'
        BY <1>1, <2>1, <2>2 DEF IInv, Connections, CallHasConnection, Trying, InUse,
           Transport, State, Quiet, Changing
      <3>3. OpenConnectionsAreOwned'
        BY <1>1, <2>1 DEF IInv, Connections, OpenConnectionsAreOwned, State
      <3>4. QED
        BY <1>1, <3>1, <3>2, <3>3 DEF IInv, Connections, State, Quiet
    <2>7. EnoughConnections'
      <3>1. Needing' = Needing /\ Unused' = Unused
        BY <1>1, <2>1 DEF Needing, Unused, State, Creates, Transport
      <3>2. QED
        BY <3>1, NeedingShrinks DEF IInv
    <2>8. Responses'
      <3>1. \A u \in Tasks : AnswerIsOwn(u)'
        <4>1. ASSUME NEW u \in Tasks PROVE AnswerIsOwn(u)'
          <5>1. AnswerIsOwn(u) /\ (Exchanging(u)' <=> Exchanging(u))
            BY <2>1 DEF IInv, Responses, Exchanging
          <5>2. QED
            BY <1>1, <2>1, <5>1 DEF AnswerIsOwn, Transport
        <4>2. QED
          BY <4>1
      <3>2. \A u \in Tasks : Exchanging(u)' <=> Exchanging(u)
        BY <2>1 DEF Exchanging
      <3>3. QED
        BY <1>1, <2>1, <3>1, <3>2 DEF IInv, Responses, State, Transport
    <2>9. AnswersWereAsked'
      BY <1>1, <2>1 DEF IInv, AnswersWereAsked, Got
    <2>10. Ordered'
      BY <1>1, <1>6, <2>1, <2>2, OrderedStays DEF SameNumbers, Unsent
    <2>11. Updates'
      BY <1>1, <1>6, <2>1, UpdatesStay DEF IInv, SameNumbers, Unsent
    <2>12. OutcomeIsTrue'
      <3>1. ASSUME NEW u \in Tasks
            PROVE  /\ me'[u].outcome = "closed" => me'[u].retired
                   /\ me'[u].at = "idle" /\ me'[u].alters # 0 =>
                      /\ me'[u].outcome = "ok" /\ repeats' = 0 =>
                           Got(me[u].alters)' /\ me'[u].alters \notin late'
                      /\ me'[u].outcome = "plcError" /\ repeats' = 0 =>
                           Got(me[u].req)' /\ me'[u].req \notin late'
                      /\ me'[u].outcome = "unknown" => me'[u].sent
                      /\ me'[u].outcome \notin
                            {"ok", "plcError", "unknown", "AttributeError"} =>
                           ~Sent(me[u].alters)'
        <4>1. PICK a, r : a = me[u].alters /\ r = me[u].req
          OBVIOUS
        <4>2. /\ me[u].outcome = "closed" => me[u].retired
              /\ me[u].at = "idle" /\ a # 0 =>
                 /\ me[u].outcome = "ok" /\ repeats = 0 => Got(a)' /\ a \notin late
                 /\ me[u].outcome = "plcError" /\ repeats = 0 => Got(r)' /\ r \notin late
                 /\ me[u].outcome = "unknown" => me[u].sent
                 /\ me[u].outcome \notin {"ok", "plcError", "unknown", "AttributeError"} =>
                      ~Sent(a)'
          BY <1>6, <4>1 DEF IInv, OutcomeIsTrue, SameRequests
        <4>3. /\ me'[u].alters = a /\ me'[u].req = r
              /\ me'[u].outcome = me[u].outcome /\ me'[u].at = me[u].at
              /\ me'[u].retired = me[u].retired /\ me'[u].sent = me[u].sent
              /\ late' = late /\ repeats' = repeats
          BY <1>1, <2>1, <4>1
        <4>4. /\ Got(a)' => Got(me[u].alters)'
              /\ Got(r)' => Got(me[u].req)'
              /\ ~Sent(a)' => ~Sent(me[u].alters)'
          BY <4>3 DEF Got, Sent
        <4>5. QED
          BY <4>2, <4>3, <4>4
      <3>2. QED
        BY <3>1 DEF OutcomeIsTrue
    <2>16. InFlight'
      <3>1. \A u \in Tasks : Blameless(u)
        <4>1. me[t].at # "idle" /\ (Flying(t)' => Flying(t))
          BY <1>4, <2>1 DEF Suspended, Flying
        <4>2. QED
          BY <2>1, <4>1 DEF Blameless
      <3>2. repeats' \in Nat /\ repeats' >= repeats
        BY <1>1 DEF IInv, Typed
      <3>3. QED
        BY <1>1, <3>1, <3>2, QuietInFlight DEF IInv
    <2>13. Cancellations'
      BY <2>1, <2>2 DEF IInv, Cancellations, Disposing
    <2>14. CancelledOnlyIfAsked'
      BY <2>1 DEF IInv, CancelledOnlyIfAsked
    <2>15. QED
      BY <2>3, <2>4, <2>5, <2>6, <2>7, <2>8, <2>9, <2>10, <2>11, <2>12, <2>13, <2>14,
         <2>16 DEF IInv
  <1>5. QED
    BY <1>3, <1>4 DEF Cancel
-----------------------------------------------------------------------------
(* A request arrives: its call waits for it, or it is late.                *)
Awaited(r) == \E t \in Tasks : Exchanging(t) /\ me[t].req = r

Comes(s, r) ==
    /\ r \in wire[s].flight
    /\ Transport = "tcp" => \A q \in wire[s].flight : r <= q
    /\ received' = Append(received, r)
    /\ late' = IF Awaited(r) THEN late ELSE late \cup {r}
    /\ Rewires(s)
    /\ wire'[s].flight = wire[s].flight \ {r}
    /\ wire'[s].pending \subseteq wire[s].pending \cup {r}
    /\ wire'[s].state = wire[s].state /\ wire'[s].inbox = wire[s].inbox
    /\ wire'[s].checked = wire[s].checked
    /\ wire'[s].response = wire[s].response /\ wire'[s].reply = wire[s].reply

(* Arrive does what Comes says, and no more.                               *)
LEMMA ArrivesComes ==
    ASSUME IInv, NEW s \in Conns, Arrive(s)
    PROVE  /\ \E r \in 1..MaxRequests : Comes(s, r)
           /\ running = NoTask
           /\ UNCHANGED <<admission, running, client, me, requests, repeats, cancels>>
  <1>1. /\ running = NoTask
        /\ UNCHANGED <<admission, running, client, me, requests, repeats, cancels>>
    BY DEF Arrive
  <1>2. PICK r \in wire[s].flight :
          /\ Transport = "tcp" => \A q \in wire[s].flight : r <= q
          /\ received' = Append(received, r)
          /\ late' = IF \E t \in Tasks : /\ me[t].at \in {"drain", "receive"}
                                         /\ me[t].req = r
                       THEN late ELSE late \cup {r}
          /\ wire' = [wire EXCEPT
                        ![s].flight = @ \ {r},
                        ![s].pending = IF State(s) # "open" \/ wire[s].eof
                                         THEN @ ELSE @ \cup {r}]
    BY DEF Arrive
  <1>3. /\ wire \in [Conns -> Links] /\ wire[s] \in Links
        /\ wire[s].flight \subseteq 1..MaxRequests
        /\ wire[s].pending \subseteq 1..MaxRequests
    BY DEF IInv, Typed, Links
  <1>4. r \in 1..MaxRequests
    BY <1>2, <1>3
  <1>5. PICK p : p = IF State(s) # "open" \/ wire[s].eof
                       THEN wire[s].pending ELSE wire[s].pending \cup {r}
    OBVIOUS
  <1>6. p \subseteq wire[s].pending \cup {r} /\ p \in SUBSET (1..MaxRequests)
    BY <1>3, <1>4, <1>5
  <1>7. PICK b \in Links : b = wire[s]
    BY <1>3
  <1>8. PICK f \in SUBSET (1..MaxRequests) : f = wire[s].flight \ {r}
    BY <1>3
  <1>9. PICK c : c = [b EXCEPT !.flight = f, !.pending = p]
    OBVIOUS
  <1>10. wire' = [wire EXCEPT ![s] = c]
    BY <1>2, <1>3, <1>5, <1>7, <1>8, <1>9
  <1>11. /\ c \in Links /\ c.flight = f /\ c.pending = p
         /\ c.state = b.state /\ c.inbox = b.inbox /\ c.checked = b.checked
         /\ c.response = b.response /\ c.reply = b.reply
    BY <1>6, <1>9 DEF Links
  <1>12. /\ wire' \in [Conns -> Links] /\ wire'[s] = c
         /\ \A u \in Conns \ {s} : wire'[u] = wire[u]
    BY <1>3, <1>10, <1>11
  <1>13. Comes(s, r)
    BY <1>2, <1>6, <1>7, <1>8, <1>11, <1>12 DEF Comes, Rewires, Awaited, Exchanging
  <1>14. QED
    BY <1>1, <1>4, <1>13

(* A request that arrives is one the PLC may get, and leaves the others as *)
(* they are.                                                               *)
LEMMA ComingFacts ==
    ASSUME Typed, NEW s \in Conns, NEW r \in 1..MaxRequests, Comes(s, r)
    PROVE  /\ \A q : Got(q)' <=> Got(q) \/ q = r
           /\ Sent(r) /\ \A q : Sent(q)' <=> Sent(q)
           /\ \A q : q \in late' => q \in late \/ (q = r /\ ~Awaited(r))
           /\ late \subseteq late' /\ (Awaited(r) => late' = late)
           /\ \A k \in DOMAIN received' :
                \/ k \in DOMAIN received /\ received'[k] = received[k]
                \/ k = Len(received) + 1 /\ received'[k] = r
           /\ DOMAIN received = 1..Len(received) /\ Len(received) \in Nat
           /\ \A k \in DOMAIN received :
                k \in DOMAIN received' /\ received'[k] = received[k]
           /\ received' \in Seq(1..MaxRequests)
  <1>1. /\ r \in wire[s].flight /\ received' = Append(received, r)
        /\ late' = IF Awaited(r) THEN late ELSE late \cup {r}
        /\ wire'[s].flight = wire[s].flight \ {r}
        /\ \A u \in Conns \ {s} : wire'[u] = wire[u]
    BY DEF Comes, Rewires
  <1>3. PICK S : S = 1..MaxRequests
    OBVIOUS
  <1>4. PICK q \in Seq(S) : q = received
    BY <1>3 DEF Typed
  <1>5. /\ DOMAIN q = 1..Len(q) /\ Len(q) \in Nat
        /\ DOMAIN Append(q, r) = 1..(Len(q) + 1)
        /\ Append(q, r)[Len(q) + 1] = r
        /\ \A k \in 1..Len(q) : Append(q, r)[k] = q[k]
        /\ Append(q, r) \in Seq(S)
    BY <1>3, <1>4
  <1>6. /\ \A k \in DOMAIN received' :
             \/ k \in DOMAIN received /\ received'[k] = received[k]
             \/ k = Len(received) + 1 /\ received'[k] = r
        /\ DOMAIN received = 1..Len(received) /\ Len(received) \in Nat
        /\ \A k \in DOMAIN received :
             k \in DOMAIN received' /\ received'[k] = received[k]
        /\ Len(received) + 1 \in DOMAIN received' /\ received'[Len(received) + 1] = r
    BY <1>1, <1>4, <1>5
  <1>7. \A n : Got(n)' <=> Got(n) \/ n = r
    BY <1>6 DEF Got
  <1>8. Sent(r) /\ \A n : Sent(n)' <=> Sent(n)
    <2>1. Sent(r)
      BY <1>1 DEF Sent
    <2>2. ASSUME NEW n, Sent(n)' PROVE Sent(n)
      <3>1. CASE Got(n)'
        BY <1>7, <2>1, <3>1 DEF Sent
      <3>2. CASE \E u \in Conns : n \in wire'[u].flight
        BY <1>1, <3>2 DEF Sent
      <3>3. QED
        BY <2>2, <3>1, <3>2 DEF Sent
    <2>3. ASSUME NEW n, Sent(n) PROVE Sent(n)'
      <3>1. CASE Got(n) \/ n = r
        BY <1>7, <3>1 DEF Sent
      <3>2. CASE n # r /\ \E u \in Conns : n \in wire[u].flight
        <4>1. PICK u \in Conns : n \in wire[u].flight
          BY <3>2
        <4>2. n \in wire'[u].flight
          BY <1>1, <3>2, <4>1
        <4>3. QED
          BY <4>2 DEF Sent
      <3>3. QED
        BY <2>3, <3>1, <3>2 DEF Sent
    <2>4. QED
      BY <2>1, <2>2, <2>3
  <1>9. QED
    BY <1>1, <1>3, <1>4, <1>5, <1>6, <1>7, <1>8

(* A request arrives that nobody waits for: its call ended without knowing *)
(* what became of it, or has not got so far.                               *)
LEMMA UnawaitedFacts ==
    ASSUME IInv, repeats = 0, NEW r, Sent(r), ~Got(r), ~Awaited(r), NEW t \in Tasks
    PROVE  /\ me[t].req = r => ~Flying(t)
           /\ me[t].alters = r /\ r # 0 => LateIsUnknown(t)
  <1>1. AnswerIsOwn(t) /\ CallIsExact(t) /\ NumbersAreOwn(t) /\ me[t] \in Calls
    BY DEF IInv, Responses, Control, Typed
  <1>2. ASSUME me[t].req = r PROVE ~Flying(t)
    <2>1. ~Exchanging(t)
      BY <1>2 DEF Awaited
    <2>2. ASSUME me[t].at = "accept" PROVE FALSE
      <3>1. me[t].got.req = r
        BY <1>1, <1>2, <2>2 DEF AnswerIsOwn
      <3>2. Got(me[t].got.req)
        BY <2>2 DEF IInv, AnswersWereAsked
      <3>3. QED
        BY <3>1, <3>2
    <2>3. QED
      BY <2>1, <2>2 DEF Flying, Exchanging
  <1>3. ASSUME me[t].alters = r, r # 0 PROVE LateIsUnknown(t)
    <2>1. Sent(me[t].alters) /\ ~Got(me[t].alters)
      BY <1>3 DEF Sent, Got
    <2>2. ~Unsent(t) /\ Changing(t)
      BY <1>3, <2>1 DEF IInv, Updates
    <2>3. me[t].req = r /\ ~Flying(t)
      BY <1>2, <1>3, <2>2 DEF Changing
    <2>4. me[t].op \notin {"connect", "none"} /\ me[t].at \in Labels
      BY <1>1, <1>3 DEF NumbersAreOwn, Calls
    <2>5. me[t].at = "idle"
      BY <1>1, <2>2, <2>3, <2>4 DEF CallIsExact, Disposing, Unsent, Flying, Labels,
         Suspended
    <2>6. me[t].outcome \in {"unknown", "AttributeError"}
      BY <1>3, <2>1, <2>3, <2>5 DEF IInv, OutcomeIsTrue
    <2>7. QED
      BY <2>5, <2>6 DEF LateIsUnknown
  <1>4. QED
    BY <1>2, <1>3

(* What is known of the requests stays true as one of them arrives.        *)
LEMMA ArriveTruth ==
    ASSUME IInv, NEW s \in Conns, NEW r \in 1..MaxRequests, Comes(s, r),
           UNCHANGED <<me, requests, repeats>>
    PROVE  AnswersWereAsked' /\ Updates' /\ OutcomeIsTrue'
  <1>1. /\ \A q : Got(q)' <=> Got(q) \/ q = r
        /\ \A q : Sent(q)' <=> Sent(q)
        /\ \A q : q \in late' => q \in late \/ q = r
    BY ComingFacts DEF IInv
  <1>2. /\ Rewires(s) /\ r \in wire[s].flight
        /\ wire'[s].pending \subseteq wire[s].pending \cup {r}
        /\ wire'[s].inbox = wire[s].inbox
        /\ wire'[s].response = wire[s].response /\ wire'[s].reply = wire[s].reply
    BY DEF Comes
  <1>3. AnswersWereAsked'
    <2>1. ASSUME NEW u \in Conns
          PROVE  /\ \A q \in wire'[u].pending : Got(q)'
                 /\ \A i \in DOMAIN wire'[u].inbox : Got(wire[u].inbox[i].req)'
                 /\ wire'[u].response = "done" =>
                      Got(wire[u].reply.req)' /\ wire'[u].reply.kind \in Kinds
      <3>1. /\ \A q \in wire[u].pending : Got(q)
            /\ \A i \in DOMAIN wire[u].inbox : Got(wire[u].inbox[i].req)
            /\ wire[u].response = "done" =>
                 Got(wire[u].reply.req) /\ wire[u].reply.kind \in Kinds
        BY DEF IInv, AnswersWereAsked
      <3>2. /\ wire'[u].inbox = wire[u].inbox
            /\ wire'[u].response = wire[u].response /\ wire'[u].reply = wire[u].reply
            /\ wire'[u].pending \subseteq wire[u].pending \cup {r}
        BY <1>2 DEF Rewires
      <3>3. \A q \in wire'[u].pending : Got(q)'
        BY <1>1, <3>1, <3>2
      <3>4. ASSUME NEW i \in DOMAIN wire'[u].inbox PROVE Got(wire[u].inbox[i].req)'
        <4>1. PICK q : q = wire[u].inbox[i].req
          OBVIOUS
        <4>2. Got(q)
          BY <3>1, <3>2, <3>4, <4>1
        <4>3. Got(q)' /\ wire'[u].inbox[i].req = q
          BY <1>1, <3>2, <4>1, <4>2
        <4>4. QED
          BY <4>3 DEF Got
      <3>5. ASSUME wire'[u].response = "done"
            PROVE  Got(wire[u].reply.req)' /\ wire'[u].reply.kind \in Kinds
        <4>1. PICK q : q = wire[u].reply.req
          OBVIOUS
        <4>2. Got(q)' /\ wire'[u].reply.req = q /\ wire'[u].reply.kind \in Kinds
          BY <1>1, <3>1, <3>2, <3>5, <4>1
        <4>3. QED
          BY <4>2 DEF Got
      <3>6. QED
        BY <3>3, <3>4, <3>5
    <2>2. ASSUME NEW u \in Tasks, me'[u].at = "accept"
          PROVE  Got(me[u].got.req)' /\ me'[u].got.kind \in Kinds
      <3>1. PICK q : q = me[u].got.req
        OBVIOUS
      <3>2. Got(q) /\ me[u].got.kind \in Kinds
        BY <2>2, <3>1 DEF IInv, AnswersWereAsked
      <3>3. Got(q)' /\ me'[u].got.req = q
        BY <1>1, <3>1, <3>2
      <3>4. QED
        BY <3>2, <3>3 DEF Got
    <2>3. \A q \in late' : Got(q)'
      BY <1>1 DEF IInv, AnswersWereAsked
    <2>4. QED
      BY <2>1, <2>2, <2>3 DEF AnswersWereAsked
  <1>4. ASSUME NEW u \in Tasks, me'[u].alters # 0
        PROVE  /\ Unsent(u)' \/ ~Changing(u)' => ~Sent(me[u].alters)'
               /\ repeats' = 0 /\ me'[u].op = "bit" /\ Changing(u)' =>
                    Got(me[u].alters - 1)'
    <2>1. /\ me'[u] = me[u] /\ me[u].alters # 0
          /\ (Unsent(u)' <=> Unsent(u)) /\ (Changing(u)' <=> Changing(u))
      BY <1>4 DEF Unsent, Changing
    <2>2. PICK a, b : a = me[u].alters /\ b = me[u].alters - 1
      OBVIOUS
    <2>3. /\ Unsent(u)' \/ ~Changing(u)' => ~Sent(a)'
          /\ repeats' = 0 /\ me'[u].op = "bit" /\ Changing(u)' => Got(b)'
      BY <1>1, <2>1, <2>2 DEF IInv, Updates
    <2>4. me'[u].alters = a /\ me'[u].alters - 1 = b
      BY <2>1, <2>2
    <2>5. QED
      BY <2>3, <2>4 DEF Got, Sent
  <1>5. Updates'
    BY <1>4 DEF Updates
  <1>6. repeats = 0 => ~Got(r)
    BY <1>2 DEF IInv, InFlight
  <1>7. ASSUME NEW u \in Tasks
        PROVE  /\ me'[u].outcome = "closed" => me'[u].retired
               /\ me'[u].at = "idle" /\ me'[u].alters # 0 =>
                  /\ me'[u].outcome = "ok" /\ repeats' = 0 =>
                       Got(me[u].alters)' /\ me'[u].alters \notin late'
                  /\ me'[u].outcome = "plcError" /\ repeats' = 0 =>
                       Got(me[u].req)' /\ me'[u].req \notin late'
                  /\ me'[u].outcome = "unknown" => me'[u].sent
                  /\ me'[u].outcome \notin {"ok", "plcError", "unknown", "AttributeError"} =>
                       ~Sent(me[u].alters)'
    <2>1. PICK a, q : a = me[u].alters /\ q = me[u].req
      OBVIOUS
    <2>2. /\ me[u].outcome = "closed" => me[u].retired
          /\ me[u].at = "idle" /\ a # 0 =>
             /\ me[u].outcome = "ok" /\ repeats = 0 => Got(a) /\ a \notin late
             /\ me[u].outcome = "plcError" /\ repeats = 0 => Got(q) /\ q \notin late
             /\ me[u].outcome = "unknown" => me[u].sent
             /\ me[u].outcome \notin {"ok", "plcError", "unknown", "AttributeError"} =>
                  ~Sent(a)
      BY <2>1 DEF IInv, OutcomeIsTrue
    <2>3. /\ \A n : Got(n) => Got(n)'
          /\ \A n : repeats = 0 /\ Got(n) /\ n \notin late => n \notin late'
          /\ \A n : ~Sent(n) => ~Sent(n)'
      BY <1>1, <1>6
    <2>4. me'[u] = me[u] /\ me'[u].alters = a /\ me'[u].req = q /\ repeats' = repeats
      BY <2>1
    <2>5. /\ Got(a)' => Got(me[u].alters)'
          /\ Got(q)' => Got(me[u].req)'
          /\ ~Sent(a)' => ~Sent(me[u].alters)'
      BY <2>4 DEF Got, Sent
    <2>6. QED
      BY <2>2, <2>3, <2>4, <2>5
  <1>8. QED
    BY <1>3, <1>5, <1>7 DEF OutcomeIsTrue

(* A request arrives, in its turn or late.                                 *)
LEMMA ArriveInFlight ==
    ASSUME IInv, NEW s \in Conns, NEW r \in 1..MaxRequests, Comes(s, r),
           UNCHANGED <<me, requests, repeats>>
    PROVE  InFlight'
  <1> SUFFICES ASSUME repeats' = 0
               PROVE  (/\ \A u \in Conns : \A q \in wire[u].flight :
                            ~Got(q) /\ \A v \in Conns : q \in wire[v].flight => v = u
                       /\ \A i, j \in DOMAIN received :
                            i < j => received[i] < received[j] \/ received[j] \in late
                       /\ \A i, j \in DOMAIN received : i # j => received[i] # received[j]
                       /\ \A t \in Tasks :
                            /\ me[t].op = "bit" => ReadBefore(me[t].alters)
                            /\ me[t].alters \in late => LateIsUnknown(t)
                            /\ Flying(t) => me[t].req \notin late)'
    BY DEF InFlight
  <1>3. /\ \A q : Got(q)' <=> Got(q) \/ q = r
        /\ Sent(r) /\ \A q : q \in late' => q \in late \/ (q = r /\ ~Awaited(r))
        /\ late \subseteq late'
        /\ \A k \in DOMAIN received' :
             \/ k \in DOMAIN received /\ received'[k] = received[k]
             \/ k = Len(received) + 1 /\ received'[k] = r
        /\ DOMAIN received = 1..Len(received) /\ Len(received) \in Nat
        /\ \A k \in DOMAIN received :
             k \in DOMAIN received' /\ received'[k] = received[k]
    BY ComingFacts DEF IInv
  <1>4. /\ r \in wire[s].flight
        /\ late' = IF Awaited(r) THEN late ELSE late \cup {r}
        /\ wire'[s].flight = wire[s].flight \ {r}
        /\ \A u \in Conns \ {s} : wire'[u] = wire[u]
    BY DEF Comes, Rewires
  <1>5. repeats = 0 /\ me' = me /\ r \in Nat /\ r # 0
    BY ClientAssumption
  <1>6. /\ \A u \in Conns : \A q \in wire[u].flight :
             ~Got(q) /\ \A v \in Conns : q \in wire[v].flight => v = u
        /\ \A i, j \in DOMAIN received :
             i < j => received[i] < received[j] \/ received[j] \in late
        /\ \A i, j \in DOMAIN received : i # j => received[i] # received[j]
    BY <1>5 DEF IInv, InFlight
  <1>7. ~Got(r)
    BY <1>4, <1>6
  <1>8. ASSUME NEW u \in Conns, NEW q \in wire'[u].flight
        PROVE  ~Got(q)' /\ \A v \in Conns : q \in wire'[v].flight => v = u
    <2>1. q \in wire[u].flight /\ \A v \in Conns : q \in wire'[v].flight => q \in wire[v].flight
      BY <1>4, <1>8
    <2>2. q # r
      BY <1>4, <1>6, <1>8, <2>1
    <2>3. QED
      BY <1>3, <1>6, <2>1, <2>2
  <1>9. \A k \in DOMAIN received : received[k] # r
    BY <1>7 DEF Got
  <1>10. ASSUME NEW i \in DOMAIN received', NEW j \in DOMAIN received', i < j
         PROVE  received'[i] < received'[j] \/ received'[j] \in late'
    <2>1. CASE j \in DOMAIN received /\ received'[j] = received[j]
      <3>1. i \in DOMAIN received /\ received'[i] = received[i]
        BY <1>3, <1>10, <2>1
      <3>2. QED
        BY <1>3, <1>6, <1>10, <2>1, <3>1
    <2>2. CASE j = Len(received) + 1 /\ received'[j] = r
      <3>1. i \in DOMAIN received /\ received'[i] = received[i]
        BY <1>3, <1>10, <2>2
      <3>2. CASE Awaited(r)
        <4>1. PICK t \in Tasks : Exchanging(t) /\ me[t].req = r
          BY <3>2 DEF Awaited
        <4>2. InLine(t)
          BY <4>1, ActingFacts DEF IInv, InLine, Exchanging
        <4>3. received[i] \in Nat /\ Sent(received[i])
          BY <3>1, ReceivedFacts DEF IInv, Sent, Got
        <4>4. received[i] <= r
          BY <1>5, <4>1, <4>2, <4>3 DEF IInv, Ordered
        <4>5. received[i] # r
          BY <1>9, <3>1
        <4>6. received[i] < r
          BY <1>5, <4>3, <4>4, <4>5
        <4>7. QED
          BY <2>2, <3>1, <4>6
      <3>3. CASE ~Awaited(r)
        BY <1>4, <2>2, <3>3
      <3>4. QED
        BY <3>2, <3>3
    <2>3. QED
      BY <1>3, <2>1, <2>2
  <1>11. ASSUME NEW i \in DOMAIN received', NEW j \in DOMAIN received', i # j
         PROVE  received'[i] # received'[j]
    BY <1>3, <1>6, <1>9, <1>11
  <1>12. ASSUME NEW t \in Tasks
         PROVE  /\ me'[t].op = "bit" => ReadBefore(me[t].alters)'
                /\ me'[t].alters \in late' => LateIsUnknown(t)'
                /\ Flying(t)' => me'[t].req \notin late'
    <2>1. /\ me[t].op = "bit" => ReadBefore(me[t].alters)
          /\ me[t].alters \in late => LateIsUnknown(t)
          /\ Flying(t) => me[t].req \notin late
      BY <1>5 DEF IInv, InFlight
    <2>2. ASSUME ~Awaited(r)
          PROVE  /\ me[t].req = r => ~Flying(t)
                 /\ me[t].alters = r => LateIsUnknown(t)
      BY <1>3, <1>5, <1>7, <2>2, UnawaitedFacts
    <2>3. /\ me[t].alters \in late' => LateIsUnknown(t)
          /\ Flying(t) => me[t].req \notin late'
      BY <1>3, <2>1, <2>2
    <2>4. PICK a : a = me[t].alters
      OBVIOUS
    <2>5. ASSUME me[t].op = "bit", NEW j \in DOMAIN received', received'[j] = a
          PROVE  \E i \in 1..(j - 1) : received'[i] = a - 1
      <3>1. CASE j \in DOMAIN received /\ received'[j] = received[j]
        <4>1. PICK i \in 1..(j - 1) : received[i] = a - 1
          BY <2>1, <2>4, <2>5, <3>1 DEF ReadBefore
        <4>2. i \in DOMAIN received
          BY <1>3, <3>1, <4>1
        <4>3. QED
          BY <1>3, <4>1, <4>2
      <3>2. CASE j = Len(received) + 1 /\ received'[j] = r
        <4>1. Sent(me[t].alters) /\ me[t].alters # 0
          BY <1>3, <1>5, <2>4, <2>5, <3>2 DEF Sent, Got
        <4>2. Changing(t)
          BY <4>1 DEF IInv, Updates
        <4>3. Got(me[t].alters - 1)
          BY <1>5, <2>5, <4>1, <4>2 DEF IInv, Updates
        <4>4. PICK i \in DOMAIN received : received[i] = a - 1
          BY <2>4, <4>3 DEF Got
        <4>5. i \in 1..(j - 1) /\ received'[i] = a - 1
          BY <1>3, <3>2, <4>4
        <4>6. QED
          BY <4>5
      <3>3. QED
        BY <1>3, <3>1, <3>2
    <2>6. me'[t].alters = a /\ me'[t].op = me[t].op
      BY <1>5, <2>4
    <2>7. me'[t].op = "bit" => ReadBefore(me[t].alters)'
      BY <2>5, <2>6 DEF ReadBefore
    <2>8. QED
      BY <1>5, <2>3, <2>7 DEF LateIsUnknown, Flying
  <1>13. QED
    BY <1>8, <1>10, <1>11, <1>12 DEF Got

(* The responses under way are still the caller's own.                     *)
LEMMA ArriveResponses ==
    ASSUME IInv, NEW s \in Conns, NEW r \in 1..MaxRequests, Comes(s, r),
           UNCHANGED <<me, repeats, client>>
    PROVE  Responses'
  <1>1. /\ Rewires(s) /\ r \in wire[s].flight
        /\ wire'[s].flight = wire[s].flight \ {r}
        /\ wire'[s].pending \subseteq wire[s].pending \cup {r}
        /\ wire'[s].state = wire[s].state /\ wire'[s].inbox = wire[s].inbox
        /\ wire'[s].checked = wire[s].checked
        /\ wire'[s].response = wire[s].response /\ wire'[s].reply = wire[s].reply
    BY DEF Comes
  <1>2. Transport' = Transport /\ \A t \in Tasks : Exchanging(t)' <=> Exchanging(t)
    BY DEF Transport, Exchanging
  <1>3. ASSUME NEW t \in Tasks PROVE AnswerIsOwn(t)'
    <2>1. AnswerIsOwn(t) /\ me'[t] = me[t]
      BY DEF IInv, Responses
    <2>2. CASE ~Exchanging(t)
      BY <1>2, <2>1, <2>2 DEF AnswerIsOwn
    <2>3. CASE Exchanging(t) /\ me[t].mine # s
      <3>1. me[t].mine \in Conns
        BY <2>3 DEF IInv, Connections, CallHasConnection, Exchanging, InUse
      <3>2. wire'[me[t].mine] = wire[me[t].mine]
        BY <1>1, <2>3, <3>1 DEF Rewires
      <3>3. QED
        BY <1>2, <2>1, <3>2 DEF AnswerIsOwn
    <2>4. CASE Exchanging(t) /\ me[t].mine = s
      <3>1. PICK n : n = me[t].req
        OBVIOUS
      <3>2. /\ wire[s].checked = n
            /\ \A i \in DOMAIN wire[s].inbox : wire[s].inbox[i].since = n
            /\ Transport = "udp" /\ wire[s].response = "done" => wire[s].reply.since = n
        BY <2>1, <2>4, <3>1 DEF AnswerIsOwn
      <3>3. ASSUME repeats = 0
            PROVE  /\ wire'[s].pending \subseteq {n} /\ wire'[s].flight = {}
                   /\ wire'[s].inbox = <<>>
                   /\ ~(Transport = "udp" /\ wire[s].response = "done")
        <4>1. /\ wire[s].pending \subseteq {n} /\ wire[s].flight \subseteq {n}
              /\ wire[s].flight # {} =>
                   /\ wire[s].pending = {} /\ wire[s].inbox = <<>>
                   /\ Transport = "udp" => wire[s].response # "done"
          BY <2>1, <2>4, <3>1, <3>3 DEF AnswerIsOwn
        <4>2. QED
          BY <1>1, <4>1
      <3>4. me[t].at # "accept" /\ me[t].got = NoReply
        BY <2>1, <2>4 DEF Exchanging, AnswerIsOwn
      <3>5. DOMAIN <<>> = {}
        OBVIOUS
      <3>6. QED
        BY <1>1, <1>2, <2>1, <2>4, <3>1, <3>2, <3>3, <3>4, <3>5 DEF AnswerIsOwn
    <2>5. QED
      BY <2>2, <2>3, <2>4
  <1>4. ASSUME NEW u \in Conns
        PROVE  /\ Transport' = "udp" => wire'[u].inbox = <<>>
               /\ wire'[u].state = "open" => wire'[u].response # "cancelled"
               /\ repeats' = 0 /\ wire'[u].state = "open" =>
                    \/ /\ wire'[u].pending = {} /\ wire'[u].inbox = <<>>
                       /\ wire'[u].flight = {}
                    \/ \E t \in Tasks : Exchanging(t)' /\ me'[t].mine = u
    <2>1. /\ Transport = "udp" => wire[u].inbox = <<>>
          /\ wire[u].state = "open" => wire[u].response # "cancelled"
          /\ repeats = 0 /\ wire[u].state = "open" =>
               \/ wire[u].pending = {} /\ wire[u].inbox = <<>> /\ wire[u].flight = {}
               \/ \E t \in Tasks : Exchanging(t) /\ me[t].mine = u
      BY DEF IInv, Responses, State
    <2>2. CASE u # s
      <3>1. wire'[u] = wire[u]
        BY <1>1, <2>2 DEF Rewires
      <3>2. QED
        BY <1>2, <2>1, <3>1
    <2>3. CASE u = s
      BY <1>1, <1>2, <2>1, <2>3
    <2>4. QED
      BY <2>2, <2>3
  <1>5. QED
    BY <1>3, <1>4 DEF Responses, State

(* The invariant after a request arrived.                                  *)
LEMMA ArriveIInv ==
    ASSUME IInv, NEW s \in Conns, Arrive(s)
    PROVE  IInv'
  <1>1. /\ running = NoTask
        /\ UNCHANGED <<admission, running, client, me, requests, repeats, cancels>>
    BY ArrivesComes
  <1>2. PICK r \in 1..MaxRequests : Comes(s, r)
    BY ArrivesComes
  <1>3. /\ Rewires(s) /\ wire' \in [Conns -> Links] /\ r \in wire[s].flight
        /\ wire'[s].state = wire[s].state
    BY <1>2 DEF Comes, Rewires
  <1>4. Unused' = Unused
    BY <1>3 DEF Unused, State, Rewires
  <1>5. /\ \A u \in Conns : State(u)' \in {"unused", "opening", "refused"} => Quiet(u)'
        /\ \A u \in Conns : State(u)' = State(u)
        /\ \A u \in Conns : State(u) = "opening" => Quiet(u)'
        /\ \A u \in Conns : State(u) = "open" /\ Quiet(u) => Quiet(u)'
    <2>1. \A u \in Conns \ {s} : State(u)' = State(u) /\ (Quiet(u)' <=> Quiet(u))
      BY <1>3 DEF State, Quiet, Rewires
    <2>2. State(s)' = State(s) /\ ~Quiet(s)
      BY <1>3 DEF State, Quiet
    <2>3. QED
      BY <2>1, <2>2 DEF IInv, Connections
  <1>6. /\ received' \in Seq(1..MaxRequests) /\ \A n : Sent(n)' <=> Sent(n)
    BY <1>2, ComingFacts DEF IInv
  <1>7. AnswersWereAsked' /\ Updates' /\ OutcomeIsTrue'
    BY <1>1, <1>2, ArriveTruth
  <1>8. InFlight'
    BY <1>1, <1>2, ArriveInFlight
  <1>9. Responses'
    BY <1>1, <1>2, ArriveResponses
  <1>10. repeats' \in Nat /\ repeats' >= repeats
    BY <1>1 DEF IInv, Typed
  <1>11. QED
    BY <1>1, <1>3, <1>4, <1>5, <1>6, <1>7, <1>8, <1>9, <1>10, WireIInv
-----------------------------------------------------------------------------
(* A client that was just made has no connection and no call.              *)
LEMMA InitIInv == Init => IInv
  <1> SUFFICES ASSUME Init PROVE IInv
    OBVIOUS
  <1>1. Adm!Init /\ running = NoTask /\ received = <<>> /\ late = {}
        /\ requests = 0 /\ repeats = 0 /\ cancels = 0
    BY DEF Init
  <1>2. Admission
    <2>1. Turn!IInv
      <3>1. Turn!Init
        BY <1>1 DEF Adm!Init, Turn!Init
      <3>2. QED
        BY <3>1, Turn!InitIInv, TurnAssumption DEF Turn!InitIInv, Turn!TasksAssumption
    <2>2. QED
      BY <2>1
      DEF Admission, Turn!IInv, Adm!TypeOK, Turn!TypeOK, Adm!OwnerIsExact,
          Turn!OwnerIsExact, Adm!QueueIsExact, Turn!QueueIsExact,
          Turn!NoneIsAhead, Adm!Queued, Turn!Queued
  <1>3. PICK transport \in Transports : client = Disconnected(transport)
    BY DEF Init
  <1>4. /\ client \in Clients /\ client.conn = NoConn /\ client.monitor = NoConn
        /\ client.udpConnected = FALSE /\ client.transport = transport
        /\ client = Disconnected(Transport)
    BY <1>3 DEF Disconnected, Clients, Transport
  <1>5. /\ Idle \in Calls /\ Idle.at = "idle" /\ Idle.op = "none"
        /\ Idle.mine = NoConn /\ Idle.req = 0 /\ Idle.alters = 0
        /\ Idle.got = NoReply /\ Idle.error = "none" /\ Idle.outcome = "none"
        /\ Idle.interrupted = FALSE
    BY FreshFacts DEF Idle, Calls, Labels, Outcomes
  <1>6. \A t \in Tasks : me[t] = Idle
    BY DEF Init
  <1>7. \A s \in Conns : wire[s] = Fresh
    BY DEF Init
  <1>8. Typed
    <2>1. me \in [Tasks -> Calls] /\ wire \in [Conns -> Links]
      BY <1>5, FreshFacts DEF Init
    <2>2. received \in Seq(1..MaxRequests) /\ requests \in 0..MaxRequests
      BY <1>1, ClientAssumption
    <2>3. QED
      BY <1>1, <1>4, <2>1, <2>2 DEF Typed
  <1>9. /\ \A t \in Tasks : pc[t] = "outside" /\ cancelled[t] = FALSE
        /\ ~Adm!Invalidated /\ queue = <<>> /\ owner = NoTask
    BY <1>1 DEF Adm!Init, Adm!Invalidated
  <1>10. Control
    BY <1>1, <1>5, <1>6, <1>9, TurnAssumption
    DEF Control, CallIsExact, NumbersAreOwn, Disposing, InUse
  <1>11. Connections
    <2>1. \A s \in Conns : State(s) = "unused" /\ Quiet(s)
      BY <1>7, FreshFacts DEF State, Quiet
    <2>2. \A t \in Tasks : CallHasConnection(t)
      BY <1>5, <1>6 DEF CallHasConnection, Trying, InUse
    <2>3. QED
      BY <1>4, <1>9, <2>1, <2>2 DEF Connections, ClientIsExact, OpenConnectionsAreOwned,
         MonitorIsOfConnection
  <1>12. EnoughConnections
    <2>1. Needing = {}
      BY <1>5, <1>6 DEF Needing
    <2>2. IsFiniteSet(Needing) /\ Cardinality(Needing) = 0
      BY <2>1, FS_EmptySet
    <2>3. Cardinality(Unused) \in Nat
      <3>1. IsFiniteSet(Conns)
        BY FS_Interval, ClientAssumption DEF Conns
      <3>2. QED
        BY <3>1, FS_Subset, FS_CardinalityType DEF Unused
    <2>4. QED
      BY <2>2, <2>3 DEF EnoughConnections
  <1>13. Responses
    BY <1>5, <1>6, <1>7, FreshFacts DEF Responses, AnswerIsOwn, Exchanging, State
  <1>14. AnswersWereAsked
    <2>1. DOMAIN <<>> = {}
      OBVIOUS
    <2>2. QED
      BY <1>1, <1>5, <1>6, <1>7, <2>1, FreshFacts DEF AnswersWereAsked
  <1>15. DOMAIN received = {} /\ Len(queue) = 0 /\ \A n : ~Got(n) /\ ~Sent(n)
    BY <1>1, <1>7, <1>9, FreshFacts DEF Got, Sent
  <1>16. Ordered
    BY <1>5, <1>6, <1>9, <1>15 DEF Ordered, InLine, Adm!Queued
  <1>17. Updates /\ OutcomeIsTrue /\ Cancellations /\ CancelledOnlyIfAsked
    BY <1>5, <1>6, <1>9, <1>15
    DEF Updates, OutcomeIsTrue, Cancellations, CancelledOnlyIfAsked, Disposing
  <1>18. InFlight
    BY <1>1, <1>5, <1>6, <1>7, <1>15, FreshFacts DEF InFlight, ReadBefore, Flying
  <1>19. QED
    BY <1>2, <1>8, <1>10, <1>11, <1>12, <1>13, <1>14, <1>16, <1>17, <1>18 DEF IInv

(* Where nothing changes, the invariant stays.                             *)
LEMMA StutterIInv ==
    ASSUME IInv, UNCHANGED vars
    PROVE  IInv'
  <1>1. /\ UNCHANGED <<owner, ownerGeneration, depth, queue, generation,
                       waiterGeneration, future, cancelled, pc>>
        /\ UNCHANGED <<running, client, me, wire>>
        /\ UNCHANGED <<received, late, requests, repeats, cancels>>
    BY DEF vars, admission, peer
  <1>2. Admission' /\ Typed' /\ Control'
    BY <1>1 DEF IInv, Admission, Adm!TypeOK, Adm!OwnerIsExact, Adm!QueueIsExact,
       Adm!Queued, Typed, Control, CallIsExact, NumbersAreOwn, Disposing, InUse,
       Transport
  <1>3. Connections'
    BY <1>1 DEF IInv, Connections, ClientIsExact, CallHasConnection, Trying, InUse,
       OpenConnectionsAreOwned, MonitorIsOfConnection, Quiet, State, Changing,
       Adm!Invalidated, Transport
  <1>4. EnoughConnections'
    <2>1. Needing' = Needing /\ Unused' = Unused
      BY <1>1 DEF Needing, Unused, Creates, State, Transport
    <2>2. QED
      BY <2>1, NeedingShrinks DEF IInv
  <1>5. Responses' /\ AnswersWereAsked'
    BY <1>1 DEF IInv, Responses, AnswerIsOwn, Exchanging, AnswersWereAsked, Got,
       State, Transport
  <1>6. Ordered' /\ Updates' /\ InFlight' /\ OutcomeIsTrue'
    <2>1. repeats' \in Nat /\ repeats' >= repeats
      BY <1>1 DEF IInv, Typed
    <2>2. \A r \in Nat : Sent(r)' => Sent(r)
      BY <1>1, <2>1, NothingArrives
    <2>3. Updates' /\ InFlight' /\ OutcomeIsTrue'
      BY <1>1, <2>1, NothingArrives
    <2>4. SameNumbers /\ \A u \in Tasks : Unsent(u)' => Unsent(u)
      BY <1>1 DEF SameNumbers, Unsent
    <2>5. Ordered'
      BY <1>1, <2>2, <2>4, OrderedStays
    <2>6. QED
      BY <2>3, <2>5
  <1>7. Cancellations' /\ CancelledOnlyIfAsked'
    BY <1>1 DEF IInv, Cancellations, CancelledOnlyIfAsked, Disposing
  <1>8. QED
    BY <1>2, <1>3, <1>4, <1>5, <1>6, <1>7 DEF IInv

(* The invariant is inductive.                                             *)
LEMMA StepIInv == IInv /\ [Next]_vars => IInv'
  <1> SUFFICES ASSUME IInv, [Next]_vars PROVE IInv'
    OBVIOUS
  <1>1. CASE UNCHANGED vars
    BY <1>1, StutterIInv
  <1>2. ASSUME NEW t \in Tasks, Proceed(t) PROVE IInv'
    BY <1>2, ProceedMoves, MovesIInv, ResumedIInv
  <1>3. ASSUME NEW t \in Tasks, Cancel(t) \/ Close(t) PROVE IInv'
    BY <1>3, CancelIInv, CloseIInv
  <1>4. ASSUME NEW t \in Tasks, NEW o \in Operations, Begin(t, o) PROVE IInv'
    BY <1>4, BeginIInv
  <1>5. ASSUME NEW s \in Conns,
               AttemptEnds(s) \/ Arrive(s) \/ Answer(s) \/ HangUp(s)
        PROVE  IInv'
    BY <1>5, AttemptEndsIInv, ArriveIInv, AnswerIInv, HangUpIInv
  <1>6. CASE Done
    BY <1>1, <1>6 DEF Done
  <1>7. QED
    BY <1>1, <1>2, <1>3, <1>4, <1>5, <1>6 DEF Next

(* The invariant holds of every behaviour of the client.                   *)
THEOREM Invariance == Spec => []IInv
  BY InitIInv, StepIInv, PTL DEF Spec
-----------------------------------------------------------------------------
(* A function on 1..n is a sequence.                                       *)
LEMMA FunctionIsSequence ==
    ASSUME NEW S, NEW n \in Nat, NEW f \in [1..n -> S]
    PROVE  f \in Seq(S)
  OBVIOUS

(* The state of AsyncClient stays within its types; the task the event     *)
(* loop runs in a turn is the one _owner names, and the owner is in a call. *)
THEOREM TypeCorrect == Spec => []TypeOK
  <1>1. IInv => TypeOK
    <2> SUFFICES ASSUME IInv PROVE TypeOK
      OBVIOUS
    <2>1. Adm!TypeOK /\ Typed
      BY DEF IInv, Admission
    <2>2. running # NoTask => owner = running
      <3>1. running # NoTask => running \in Tasks /\ me[running].at \in {"start", "send"}
        BY <2>1 DEF IInv, Control, CallIsExact, Typed
      <3>2. QED
        BY <3>1, ActingFacts DEF IInv
    <2>3. owner # NoTask => me[owner].at # "idle"
      BY <2>1 DEF IInv, Admission, Adm!OwnerIsExact, Adm!TypeOK, Control, CallIsExact
    <2>4. ASSUME NEW t \in Tasks
          PROVE  /\ me[t].at \in Labels
                 /\ me[t].at \notin {"idle", "queued"} <=> pc[t] = "inside"
                 /\ me[t].mine \in Conns \cup {NoConn}
                 /\ me[t].req \in 0..MaxRequests /\ me[t].alters \in 0..MaxRequests
                 /\ me[t].outcome \in Outcomes
      <3>1. me[t] \in Calls /\ CallIsExact(t) /\ NumbersAreOwn(t)
        BY DEF IInv, Typed, Control
      <3>2. pc[t] \in {"outside", "waiting", "inside"}
        BY <2>1 DEF Adm!TypeOK
      <3>3. requests \in 0..MaxRequests /\ MaxRequests \in Nat
        BY <2>1, ClientAssumption DEF Typed
      <3>4. me[t].req \in 0..MaxRequests /\ me[t].alters \in 0..MaxRequests
        BY <3>1, <3>3 DEF NumbersAreOwn, Calls, AllOperations
      <3>5. QED
        BY <3>1, <3>2, <3>4 DEF CallIsExact, Calls
    <2>5. ASSUME NEW s \in Conns
          PROVE  /\ State(s) \in {"unused", "opening", "refused", "open", "closed"}
                 /\ wire[s].pending \subseteq 1..MaxRequests
                 /\ wire[s].flight \subseteq 1..MaxRequests
                 /\ wire[s].response \in {"none", "pending", "done", "cancelled"}
      BY <2>1 DEF Typed, Links, State
    <2>6. received \in Seq(1..requests) /\ late \subseteq 1..requests
      <3>1. /\ received \in Seq(1..MaxRequests)
            /\ DOMAIN received = 1..Len(received) /\ Len(received) \in Nat
        BY <2>1 DEF Typed
      <3>2. ASSUME NEW r, Got(r) PROVE r \in 1..MaxRequests /\ r <= requests
        <4>1. r \in 1..MaxRequests /\ r \in Nat
          BY <2>1, <3>2, ReceivedFacts DEF Got
        <4>2. r <= requests
          BY <3>2, <4>1 DEF IInv, Ordered, Sent
        <4>3. QED
          BY <4>1, <4>2
      <3>3. \A r : Got(r) => r \in 1..requests
        BY <2>1, <3>2, ClientAssumption DEF Typed
      <3>4. \A k \in 1..Len(received) : received[k] \in 1..requests
        BY <3>1, <3>3 DEF Got
      <3>5. received \in [1..Len(received) -> 1..requests]
        BY <3>1, <3>4
      <3>6. late \subseteq 1..requests
        BY <3>3 DEF IInv, AnswersWereAsked
      <3>7. QED
        BY <3>1, <3>5, <3>6, FunctionIsSequence
    <2>7. QED
      BY <2>1, <2>2, <2>3, <2>4, <2>5, <2>6 DEF TypeOK, Typed, Clients
  <1>2. QED
    BY <1>1, Invariance, PTL

(* No transport leaks: every connection that is open, or may still become   *)
(* so, is the client's or that of an attempt a call still awaits.          *)
THEOREM OpenConnectionsStayOwned == Spec => []OpenConnectionsAreOwned
  <1>1. IInv => OpenConnectionsAreOwned
    BY DEF IInv, Connections
  <1>2. QED
    BY <1>1, Invariance, PTL

(* Monitor metadata never outlives the connection it was registered on,    *)
(* also when close() meets a registration that is in progress.             *)
THEOREM MonitorStaysOfConnection == Spec => []MonitorIsOfConnection
  <1>1. IInv => MonitorIsOfConnection
    BY DEF IInv, Connections
  <1>2. QED
    BY <1>1, Invariance, PTL

(* A call is given the response to its own request unless the network      *)
(* repeats responses, and never one that came before its input check.      *)
THEOREM AcceptedStaysOwn == Spec => []AcceptedIsOwn
  <1>1. IInv => AcceptedIsOwn
    <2> SUFFICES ASSUME IInv, NEW t \in Tasks, me[t].got.req # 0
                 PROVE  /\ me[t].got.since = me[t].req
                        /\ repeats = 0 => me[t].got.req = me[t].req
      BY DEF AcceptedIsOwn
    <2>1. AnswerIsOwn(t)
      BY DEF IInv, Responses
    <2>2. me[t].at = "accept"
      BY <2>1, FreshFacts DEF AnswerIsOwn
    <2>3. QED
      BY <2>1, <2>2 DEF AnswerIsOwn
  <1>2. QED
    BY <1>1, Invariance, PTL

(* What a call reports is true, and stays so however late a request comes: *)
(* of what the PLC has got, and of a close() that retired it.              *)
THEOREM OutcomeStaysTrue == Spec => []OutcomeIsTrue
  <1>1. IInv => OutcomeIsTrue
    BY DEF IInv
  <1>2. QED
    BY <1>1, Invariance, PTL

(* Only a call that was cancelled ends with the cancellation error.        *)
THEOREM CancellationIsAsked == Spec => []CancelledOnlyIfAsked
  <1>1. IInv => CancelledOnlyIfAsked
    BY DEF IInv
  <1>2. QED
    BY <1>1, Invariance, PTL

(* Requests reach the PLC in the order of the calls but for late ones, a   *)
(* bit is written in the word its own call read with none but late         *)
(* requests between the two unless the write is late itself, and the call  *)
(* of a late write was told neither a success nor a definitive failure.    *)
THEOREM UpdatesStayWhole == Spec => []UpdatesAreWhole
  <1>1. IInv => UpdatesAreWhole
    <2> SUFFICES ASSUME IInv, repeats = 0
                 PROVE  /\ \A i, j \in DOMAIN received :
                             i < j => received[i] < received[j] \/ received[j] \in late
                        /\ \A t \in Tasks, j \in DOMAIN received :
                             me[t].op = "bit" /\ received[j] = me[t].alters =>
                               \E i \in 1..(j - 1) :
                                 /\ received[i] = me[t].alters - 1
                                 /\ \A k \in (i + 1)..(j - 1) :
                                      received[k] \in late \/ me[t].alters \in late
                        /\ \A t \in Tasks : me[t].alters # 0 /\ me[t].alters \in late =>
                             me[t].at = "idle" /\ me[t].outcome \in {"unknown", "AttributeError"}
      BY DEF UpdatesAreWhole
    <2>1. /\ \A i, j \in DOMAIN received :
               i < j => received[i] < received[j] \/ received[j] \in late
          /\ \A i, j \in DOMAIN received : i # j => received[i] # received[j]
          /\ \A t \in Tasks :
               /\ me[t].op = "bit" => ReadBefore(me[t].alters)
               /\ me[t].alters \in late => LateIsUnknown(t)
      BY DEF IInv, InFlight
    <2>2. ASSUME NEW t \in Tasks, NEW j \in DOMAIN received,
                 me[t].op = "bit", received[j] = me[t].alters
          PROVE  \E i \in 1..(j - 1) :
                   /\ received[i] = me[t].alters - 1
                   /\ \A k \in (i + 1)..(j - 1) :
                        received[k] \in late \/ me[t].alters \in late
      <3>1. PICK i \in 1..(j - 1) : received[i] = me[t].alters - 1
        BY <2>1, <2>2 DEF ReadBefore
      <3>2. /\ DOMAIN received = 1..Len(received) /\ Len(received) \in Nat
            /\ \A k \in DOMAIN received : received[k] \in Nat
        <4>1. received \in Seq(1..MaxRequests)
          BY DEF IInv, Typed
        <4>2. DOMAIN received = 1..Len(received) /\ Len(received) \in Nat
          BY <4>1
        <4>3. QED
          BY <4>2, ReceivedFacts DEF IInv
      <3>3. ASSUME NEW k \in (i + 1)..(j - 1), me[t].alters \notin late,
                   received[k] \notin late
            PROVE  FALSE
        <4>1. i \in DOMAIN received /\ k \in DOMAIN received /\ i < k /\ k < j
          BY <3>1, <3>2, <3>3
        <4>2. received[i] < received[k] /\ received[k] < received[j]
          BY <2>1, <2>2, <3>3, <4>1
        <4>3. QED
          BY <2>2, <3>1, <3>2, <4>1, <4>2
      <3>4. QED
        BY <3>1, <3>3
    <2>3. \A t \in Tasks : me[t].alters \in late =>
            me[t].at = "idle" /\ me[t].outcome \in {"unknown", "AttributeError"}
      BY <2>1 DEF LateIsUnknown
    <2>4. QED
      BY <2>1, <2>2, <2>3
  <1>2. QED
    BY <1>1, Invariance, PTL
-----------------------------------------------------------------------------
(* A move publishes a connection only in a turn no close() has retired.    *)
LEMMA MovesPublish ==
    ASSUME IInv, NEW t \in Tasks, Moves(t),
           client'.conn # NoConn, client'.conn # client.conn
    PROVE  me[t].at \notin {"idle", "queued"} /\ ~Adm!Invalidated
  <1>1. client \in Clients
    BY DEF IInv, Typed
  <1>2. client' # client
    OBVIOUS
  <1>3. CASE Adopts(t)
    BY <1>3 DEF Adopts
  <1>4. CASE Binds(t)
    BY <1>4 DEF Binds
  <1>5. CASE Accepts(t)
    BY <1>5 DEF Accepts
  <1>6. ASSUME NEW outcome, NEW sent, Retires(t, outcome, sent) PROVE FALSE
    <2>1. client' = Retired
      BY <1>6 DEF Retires
    <2>2. client'.conn = NoConn
      BY <1>1, <2>1 DEF Retired, Disconnected, Clients
    <2>3. QED
      BY <2>2
  <1>7. QED
    BY <1>2, <1>3, <1>4, <1>5, <1>6
    DEF Moves, Leaves, GivesUp, Awaits, Opens, Reuses, Sends, Continues, Takes

(* A connection becomes the client's only in a turn of the current         *)
(* generation: what connects too late never undoes a close().              *)
THEOREM OnlyTheCurrentPublishes == Spec => OnlyCurrentPublishes
  <1>1. IInv /\ [Next]_vars =>
          [client'.conn \notin {NoConn, client.conn} =>
             owner # NoTask /\ ownerGeneration = generation]_vars
    <2> SUFFICES ASSUME IInv, Next, client'.conn # NoConn, client'.conn # client.conn
                 PROVE  owner # NoTask /\ ownerGeneration = generation
      OBVIOUS
    <2>1. client' # client
      OBVIOUS
    <2>2. ASSUME NEW t \in Tasks, Proceed(t)
          PROVE  owner # NoTask /\ ownerGeneration = generation
      <3>1. Moves(t)
        BY <2>1, <2>2, ProceedMoves DEF Resumed
      <3>2. QED
        BY <3>1, MovesPublish, ActingFacts DEF IInv, Adm!Invalidated
    <2>3. ASSUME NEW t \in Tasks, Close(t) PROVE FALSE
      BY <2>3 DEF Close, Disconnected
    <2>4. ASSUME NEW t \in Tasks, NEW o \in Operations, Begin(t, o) PROVE FALSE
      BY <2>1, <2>4 DEF Begin
    <2>5. QED
      BY <2>1, <2>2, <2>3, <2>4
      DEF Next, Cancel, AttemptEnds, Arrive, Answer, HangUp, Done, vars
  <1>2. QED
    BY <1>1, Invariance, PTL DEF Spec, OnlyCurrentPublishes
-----------------------------------------------------------------------------
(* Every step of the client is one of the admission, or leaves it alone.   *)
LEMMA ClientStepIsTurnStep == IInv /\ [Next]_vars => [Adm!Next]_(Adm!vars)
  <1> SUFFICES ASSUME IInv, [Next]_vars PROVE [Adm!Next]_(Adm!vars)
    OBVIOUS
  <1>1. ASSUME UNCHANGED admission PROVE UNCHANGED Adm!vars
    BY <1>1 DEF admission, Adm!vars
  <1>2. ASSUME NEW t \in Tasks, Moves(t) PROVE Adm!Exit(t) \/ UNCHANGED admission
    BY <1>2 DEF Moves, Leaves, GivesUp, Awaits, Adopts, Retires, Opens, Binds, Reuses,
       Sends, Continues, Takes, Accepts, Finish, WriteBack
  <1>3. ASSUME NEW t \in Tasks, Resumed(t) PROVE Adm!Resume(t)
    BY <1>3 DEF Resumed, Adm!Resume
  <1>4. ASSUME NEW t \in Tasks, Proceed(t)
        PROVE  Adm!Resume(t) \/ Adm!Exit(t) \/ UNCHANGED admission
    BY <1>2, <1>3, <1>4, ProceedMoves
  <1>5. ASSUME NEW t \in Tasks, Cancel(t) PROVE Adm!Cancel(t) \/ UNCHANGED admission
    BY <1>5 DEF Cancel
  <1>6. ASSUME NEW t \in Tasks, Close(t) PROVE Adm!Invalidate
    BY <1>6 DEF Close
  <1>7. ASSUME NEW t \in Tasks, NEW o \in Operations, Begin(t, o)
        PROVE  Adm!EnterFree(t) \/ Adm!EnterBusy(t)
    BY <1>7 DEF Begin
  <1>8. ASSUME NEW s \in Conns,
               AttemptEnds(s) \/ Arrive(s) \/ Answer(s) \/ HangUp(s)
        PROVE  UNCHANGED admission
    BY <1>8 DEF AttemptEnds, Arrive, Answer, HangUp
  <1>9. CASE Done \/ UNCHANGED vars
    BY <1>1, <1>9 DEF Done, vars
  <1>10. QED
    BY <1>1, <1>4, <1>5, <1>6, <1>7, <1>8, <1>9 DEF Next, Adm!Next, Adm!Step

(* The client uses the turn as AsyncAdmission says it may be used: so all   *)
(* that is proved of the admission alone is true within the client.        *)
THEOREM ClientKeepsTheTurn == Spec => Adm!Spec
  <1>1. Init => Adm!Init
    BY DEF Init
  <1>2. QED
    BY <1>1, ClientStepIsTurnStep, Invariance, PTL DEF Spec, Adm!Spec
=============================================================================
