------------------------------ MODULE FifoTurn ------------------------------
(***************************************************************************)
(* What both admission classes of client.py promise: one turn, handed out  *)
(* in arrival order, and retired as a whole by close().  Nothing is said   *)
(* here of locks, events, futures, tickets or thread locals.               *)
(***************************************************************************)
EXTENDS Naturals, Sequences

CONSTANT Clients          \* the threads, or tasks, that ask for the turn

VARIABLES
    phase,                \* phase[c]: where client c stands
    line,                 \* the clients that wait, the earliest arrival first
    stale                 \* the owners whose generation close() has retired

turnVars == <<phase, line, stale>>

TurnInit ==
    /\ phase = [c \in Clients |-> "out"]
    /\ line = <<>>
    /\ stale = {}

Free == \A c \in Clients : phase[c] # "turn"

(* A client that arrives at a free turn with nobody waiting takes it.      *)
Arrive(c) ==
    /\ phase[c] = "out"
    /\ IF Free /\ line = <<>>
         THEN /\ phase' = [phase EXCEPT ![c] = "turn"]
              /\ UNCHANGED line
         ELSE /\ phase' = [phase EXCEPT ![c] = "waiting"]
              /\ line' = Append(line, c)
    /\ UNCHANGED stale

(* The owner leaves, and the turn passes to the earliest arrival.          *)
Leave(c) ==
    /\ phase[c] = "turn"
    /\ stale' = stale \ {c}
    /\ IF line = <<>>
         THEN /\ phase' = [phase EXCEPT ![c] = "out"]
              /\ UNCHANGED line
         ELSE /\ phase' = [phase EXCEPT ![c] = "out", ![Head(line)] = "turn"]
              /\ line' = Tail(line)

(* close(): everybody who waits is rejected; an owner keeps the turn but   *)
(* is marked, so that nothing it does afterwards is taken for current.     *)
Retire ==
    /\ phase' = [c \in Clients |->
                   IF phase[c] = "waiting" THEN "rejected" ELSE phase[c]]
    /\ line' = <<>>
    /\ stale' = {c \in Clients : phase[c] = "turn"}

(* A rejected client learns that it was rejected.                          *)
Report(c) ==
    /\ phase[c] = "rejected"
    /\ phase' = [phase EXCEPT ![c] = "out"]
    /\ UNCHANGED <<line, stale>>

(* A client gives up while it waits; the others keep their order.          *)
Withdraw(c) ==
    /\ phase[c] = "waiting"
    /\ phase' = [phase EXCEPT ![c] = "out"]
    /\ \E i \in 1..Len(line) :
         /\ line[i] = c
         /\ line' = [j \in 1..(Len(line) - 1) |->
                       IF j < i THEN line[j] ELSE line[j + 1]]
    /\ UNCHANGED stale

TurnNext ==
    \/ \E c \in Clients :
         Arrive(c) \/ Leave(c) \/ Report(c) \/ Withdraw(c)
    \/ Retire

TurnSpec == TurnInit /\ [][TurnNext]_turnVars
=============================================================================
