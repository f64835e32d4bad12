--------------------------- MODULE AsyncAdmission ---------------------------
(***************************************************************************)
(* _AsyncFifoAdmission of client.py: the turn of AsyncHostLinkClient.  The *)
(* event loop runs one task at a time, so everything between two awaits is *)
(* one step; what can interleave is a task suspended on its waiter.future  *)
(* with another task's release, cancellation or close().                   *)
(***************************************************************************)
EXTENDS Naturals, Sequences

CONSTANTS
    Tasks,                \* the asyncio tasks that share one client
    NoTask,               \* the value None of _owner
    MaxGeneration,        \* bound: invalidate() runs at most this often
    MaxDepth              \* bound: nested `async with self._lock`

ASSUME TasksAssumption ==
    /\ NoTask \notin Tasks
    /\ MaxGeneration \in Nat
    /\ MaxDepth \in Nat \ {0}

VARIABLES
    owner,                \* _owner
    ownerGeneration,      \* _owner_generation
    depth,                \* _depth
    queue,                \* _queue, in ticket order; a waiter is its task
    generation,           \* _generation
    waiterGeneration,     \* waiter.generation of the task's last waiter
    future,               \* waiter.future: "pending", "result" or "closed"
    cancelled,            \* task.cancel() was called while it was suspended
    pc                    \* outside, waiting on the shielded future, inside

turn == <<owner, ownerGeneration, depth>>
waiters == <<waiterGeneration, future>>
vars == <<owner, ownerGeneration, depth, queue, generation,
          waiterGeneration, future, cancelled, pc>>

Queued(t) == \E i \in 1..Len(queue) : queue[i] = t

\* Mutant: the ticket stays behind.
WithTicket(q, t) == q

(* _queue.pop(ticket, None): the others keep their order.                  *)
Without(q, t) ==
    LET Places == {i \in 1..Len(q) : q[i] = t}
        k == CHOOSE i \in Places : TRUE
    IN IF Places = {} THEN q
       ELSE [i \in 1..(Len(q) - 1) |-> IF i < k THEN q[i] ELSE q[i + 1]]

Init ==
    /\ owner = NoTask
    /\ ownerGeneration = 0
    /\ depth = 0
    /\ queue = <<>>
    /\ generation = 0
    /\ waiterGeneration = [t \in Tasks |-> 0]
    /\ future = [t \in Tasks |-> "result"]
    /\ cancelled = [t \in Tasks |-> FALSE]
    /\ pc = [t \in Tasks |-> "outside"]

(* __aenter__ of a free turn: the future is already done, so that awaiting *)
(* it does not suspend, and the body of the turn follows at once.          *)
EnterFree(t) ==
    /\ pc[t] = "outside"
    /\ owner = NoTask /\ queue = <<>>
    /\ owner' = t
    /\ ownerGeneration' = generation
    /\ depth' = 1
    /\ waiterGeneration' = [waiterGeneration EXCEPT ![t] = generation]
    /\ future' = [future EXCEPT ![t] = "result"]
    /\ pc' = [pc EXCEPT ![t] = "inside"]
    /\ UNCHANGED <<queue, generation, cancelled>>

(* __aenter__ of a busy turn: the task suspends on its future.             *)
EnterBusy(t) ==
    /\ pc[t] = "outside"
    /\ ~(owner = NoTask /\ queue = <<>>)
    /\ queue' = Append(queue, t)
    /\ waiterGeneration' = [waiterGeneration EXCEPT ![t] = generation]
    /\ future' = [future EXCEPT ![t] = "pending"]
    /\ pc' = [pc EXCEPT ![t] = "waiting"]
    /\ UNCHANGED <<turn, generation, cancelled>>

EnterNested(t) ==
    /\ pc[t] = "inside"
    /\ owner = t
    /\ depth < MaxDepth
    /\ depth' = depth + 1
    /\ UNCHANGED <<owner, ownerGeneration, queue, generation, waiters,
                   cancelled, pc>>

(* task.cancel() while the task is suspended in __aenter__, at any moment   *)
(* up to its resumption.                                                   *)
Cancel(t) ==
    /\ pc[t] = "waiting"
    /\ ~cancelled[t]
    /\ cancelled' = [cancelled EXCEPT ![t] = TRUE]
    /\ UNCHANGED <<turn, queue, generation, waiters, pc>>

\* Nobody is waiting: the turn is free.
FreeTurn(q) ==
    /\ owner' = NoTask
    /\ depth' = 0
    /\ queue' = q
    /\ UNCHANGED <<ownerGeneration, future>>

\* Mutant: popitem(last=True).
HandToLatest(q) ==
    IF q = <<>>
      THEN FreeTurn(q)
      ELSE /\ owner' = q[Len(q)]
           /\ ownerGeneration' = waiterGeneration[q[Len(q)]]
           /\ depth' = 1
           /\ queue' = SubSeq(q, 1, Len(q) - 1)
           /\ future' = [future EXCEPT ![q[Len(q)]] = "result"]

\* Mutant: _owner_generation is left alone.
HandKeepingGeneration(q) ==
    IF q = <<>>
      THEN FreeTurn(q)
      ELSE /\ owner' = Head(q)
           /\ depth' = 1
           /\ queue' = Tail(q)
           /\ future' = [future EXCEPT ![Head(q)] = "result"]
           /\ UNCHANGED ownerGeneration

(* _release_owner at depth 1: the oldest waiter of q becomes the owner.    *)
HandOver(q) ==
    IF q = <<>>
      THEN FreeTurn(q)
      ELSE /\ owner' = Head(q)
           /\ ownerGeneration' = waiterGeneration[Head(q)]
           /\ depth' = 1
           /\ queue' = Tail(q)
           /\ future' = [future EXCEPT ![Head(q)] = "result"]

\* Mutant: a cancellation that arrives after the hand-over is ignored.
AdmittedCancelled(t) ==
    /\ pc[t] = "waiting"
    /\ future[t] = "result"
    /\ owner = t
    /\ pc' = [pc EXCEPT ![t] = "inside"]
    /\ UNCHANGED <<turn, queue, generation, waiters, cancelled>>

(* The future completed and nobody cancelled: the turn begins.             *)
Admitted(t) ==
    /\ pc[t] = "waiting"
    /\ ~cancelled[t]
    /\ future[t] = "result"
    /\ owner = t
    /\ pc' = [pc EXCEPT ![t] = "inside"]
    /\ UNCHANGED <<turn, queue, generation, waiters, cancelled>>

(* The future carries the close error, which __aenter__ raises.            *)
Rejected(t) ==
    /\ pc[t] = "waiting"
    /\ ~cancelled[t]
    /\ future[t] = "closed"
    /\ pc' = [pc EXCEPT ![t] = "outside"]
    /\ UNCHANGED <<turn, queue, generation, waiters, cancelled>>

\* Mutant: a cancelled waiter that was handed the turn does not give it up.
CancelledKeepingTurn(t) ==
    /\ pc[t] = "waiting"
    /\ cancelled[t]
    /\ cancelled' = [cancelled EXCEPT ![t] = FALSE]
    /\ pc' = [pc EXCEPT ![t] = "outside"]
    /\ queue' = Without(queue, t)
    /\ UNCHANGED <<turn, future, generation, waiterGeneration>>

(* except CancelledError: a waiter still queued is removed; one that was   *)
(* handed the turn in the meantime gives it up; one rejected just leaves.  *)
CancelledInQueue(t) ==
    /\ pc[t] = "waiting"
    /\ cancelled[t]
    /\ cancelled' = [cancelled EXCEPT ![t] = FALSE]
    /\ pc' = [pc EXCEPT ![t] = "outside"]
    /\ IF ~Queued(t) /\ owner = t
         THEN HandOver(queue)
         ELSE /\ queue' = Without(queue, t)
              /\ UNCHANGED <<turn, future>>
    /\ UNCHANGED <<generation, waiterGeneration>>

\* Mutant: the depth is not tested.
ExitNestedAlways(t) ==
    /\ pc[t] = "inside"
    /\ owner = t
    /\ depth' = depth - 1
    /\ UNCHANGED <<owner, ownerGeneration, queue, generation, waiters,
                   cancelled, pc>>

ExitNested(t) ==
    /\ pc[t] = "inside"
    /\ owner = t
    /\ depth > 1
    /\ depth' = depth - 1
    /\ UNCHANGED <<owner, ownerGeneration, queue, generation, waiters,
                   cancelled, pc>>

(* The outermost __aexit__.                                                *)
Exit(t) ==
    /\ pc[t] = "inside"
    /\ owner = t
    /\ depth = 1
    /\ HandOver(queue)
    /\ pc' = [pc EXCEPT ![t] = "outside"]
    /\ UNCHANGED <<generation, waiterGeneration, cancelled>>

(* invalidate(), the first half of close().                                *)
Invalidate ==
    /\ generation < MaxGeneration
    /\ generation' = generation + 1
    /\ queue' = <<>>
    /\ future' = [t \in Tasks |-> IF Queued(t) THEN "closed" ELSE future[t]]
    /\ UNCHANGED <<turn, waiterGeneration, cancelled, pc>>

(* active_was_invalidated(): the owner's admission, not the calling task.   *)
Invalidated == owner # NoTask /\ ownerGeneration # generation

(* The event loop runs the rest of __aenter__.                             *)
Resume(t) == Admitted(t) \/ Rejected(t) \/ CancelledInQueue(t)

Step(t) ==
    \/ EnterFree(t) \/ EnterBusy(t) \/ EnterNested(t)
    \/ Cancel(t) \/ Resume(t) \/ ExitNested(t) \/ Exit(t)

Next == (\E t \in Tasks : Step(t)) \/ Invalidate

(* The event loop resumes every task whose future is done or that was      *)
(* cancelled, and a turn ends, as in SyncAdmission.                        *)
Fairness ==
    \A t \in Tasks :
        /\ WF_vars(Resume(t))
        /\ WF_vars(ExitNested(t))
        /\ SF_vars(Exit(t))

Spec == Init /\ [][Next]_vars
FairSpec == Spec /\ Fairness
-----------------------------------------------------------------------------
TypeOK ==
    /\ owner \in Tasks \cup {NoTask}
    /\ ownerGeneration \in Nat
    /\ depth \in Nat
    /\ queue \in Seq(Tasks)
    /\ generation \in Nat
    /\ waiterGeneration \in [Tasks -> Nat]
    /\ future \in [Tasks -> {"pending", "result", "closed"}]
    /\ cancelled \in [Tasks -> BOOLEAN]
    /\ pc \in [Tasks -> {"outside", "waiting", "inside"}]

(* _owner is the task inside the turn, or the one just handed the turn; a  *)
(* task never runs in a turn that _owner does not record, and an owner     *)
(* that was cancelled before it resumed still gives the turn up.  The      *)
(* generation recorded with the owner is its own, so that                  *)
(* active_was_invalidated() answers for the task that asks.                *)
OwnerIsExact ==
    /\ \A t \in Tasks :
         owner = t <=> pc[t] = "inside"
                       \/ (pc[t] = "waiting" /\ future[t] = "result")
    /\ depth > 0 <=> owner # NoTask
    /\ owner # NoTask => ownerGeneration = waiterGeneration[owner]

(* The queue holds each task suspended on a pending future once and nobody *)
(* else, so that a cancelled waiter has left no ticket behind (192-194);   *)
(* all arrived after the last close(), so that a hand-over never revives   *)
(* what close() retired; and nobody waits for a turn that is free.         *)
QueueIsExact ==
    /\ \A i, j \in 1..Len(queue) : queue[i] = queue[j] => i = j
    /\ \A t \in Tasks :
         Queued(t) <=> pc[t] = "waiting" /\ future[t] = "pending"
    /\ \A t \in Tasks : Queued(t) => waiterGeneration[t] = generation
    /\ queue # <<>> => owner # NoTask

Phase ==
    [t \in Tasks |->
       CASE owner = t -> "turn"
         [] pc[t] = "waiting" /\ future[t] = "pending" -> "waiting"
         [] pc[t] = "waiting" /\ future[t] = "closed" -> "rejected"
         [] OTHER -> "out"]

Stale == {t \in Tasks : owner = t /\ ownerGeneration # generation}

Turn == INSTANCE FifoTurn WITH
    Clients <- Tasks, line <- queue, phase <- Phase, stale <- Stale

(* The asyncio turn keeps the same promise as the threading one, although  *)
(* a waiter may be cancelled at every moment: it implements FifoTurn.      *)
ImplementsFifoTurn == Turn!TurnSpec

(* A task cancelled while it waits leaves without a turn: it is never seen *)
(* inside before it has been told, so that it sends nothing.               *)
CancelledNeverEnters ==
    [][\A t \in Tasks : cancelled[t] => pc'[t] # "inside"]_vars

(* Whoever waits gets the turn, the close error or its cancellation.       *)
EveryWaiterLeaves ==
    \A t \in Tasks : pc[t] = "waiting" ~> pc[t] # "waiting"
=============================================================================
