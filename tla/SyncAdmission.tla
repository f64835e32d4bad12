--------------------------- MODULE SyncAdmission ---------------------------
(***************************************************************************)
(* _SyncFifoAdmission of client.py: the fair, reentrant turn that every    *)
(* operation of HostLinkClient runs inside, and that close() invalidates   *)
(* from outside.  Every body under `with self._guard` is one step.         *)
(***************************************************************************)
EXTENDS Naturals, Sequences

CONSTANTS
    Threads,              \* the threads that share one client
    MaxGeneration,        \* bound: invalidate() runs at most this often
    MaxDepth              \* bound: nested `with self._lock` in one thread

ASSUME BoundsAssumption == MaxGeneration \in Nat /\ MaxDepth \in Nat \ {0}

VARIABLES
    active,               \* _active
    queue,                \* _queue, each waiter named by its thread
    generation,           \* _generation
    waiterGeneration,     \* waiter.generation of the thread's last waiter
    event,                \* its event: "clear", "set", or "error" when
                          \* waiter.error was stored before event.set()
    depth,                \* _local.depth
    localGeneration,      \* _local.generation
    pc                    \* outside, waiting in event.wait(), or inside

shared == <<active, queue, generation>>
waiters == <<waiterGeneration, event>>
locals == <<depth, localGeneration>>
vars == <<active, queue, generation, waiterGeneration, event,
          depth, localGeneration, pc>>

Queued(t) == \E i \in 1..Len(queue) : queue[i] = t

Init ==
    /\ active = FALSE
    /\ queue = <<>>
    /\ generation = 0
    /\ waiterGeneration = [t \in Threads |-> 0]
    /\ event = [t \in Threads |-> "clear"]
    /\ depth = [t \in Threads |-> 0]
    /\ localGeneration = [t \in Threads |-> 0]
    /\ pc = [t \in Threads |-> "outside"]

(* __enter__ up to event.wait(): the waiter is stamped and either admitted *)
(* at once, if the turn is free, or queued.                                *)
EnterIf(t, free) ==
    /\ pc[t] = "outside"
    /\ waiterGeneration' = [waiterGeneration EXCEPT ![t] = generation]
    /\ IF free
         THEN /\ active' = TRUE
              /\ event' = [event EXCEPT ![t] = "set"]
              /\ UNCHANGED queue
         ELSE /\ queue' = Append(queue, t)
              /\ event' = [event EXCEPT ![t] = "clear"]
              /\ UNCHANGED active
    /\ pc' = [pc EXCEPT ![t] = "waiting"]
    /\ UNCHANGED <<generation, locals>>

\* Mutant: only the queue is tested.
EnterBarging(t) == EnterIf(t, queue = <<>>)

Enter(t) == EnterIf(t, ~active /\ queue = <<>>)

(* event.wait() returned and waiter.error is None.                         *)
Admitted(t) ==
    /\ pc[t] = "waiting"
    /\ event[t] = "set"
    /\ depth' = [depth EXCEPT ![t] = 1]
    /\ localGeneration' = [localGeneration EXCEPT ![t] = waiterGeneration[t]]
    /\ pc' = [pc EXCEPT ![t] = "inside"]
    /\ UNCHANGED <<shared, waiters>>

(* event.wait() returned and __enter__ raises waiter.error.                *)
Rejected(t) ==
    /\ pc[t] = "waiting"
    /\ event[t] = "error"
    /\ pc' = [pc EXCEPT ![t] = "outside"]
    /\ UNCHANGED <<shared, waiters, locals>>

(* __enter__ by the thread that already has the turn.                      *)
EnterNested(t) ==
    /\ pc[t] = "inside"
    /\ depth[t] < MaxDepth
    /\ depth' = [depth EXCEPT ![t] = @ + 1]
    /\ UNCHANGED <<shared, waiters, localGeneration, pc>>

\* Mutant: the depth is not tested.
ExitNestedAlways(t) ==
    /\ pc[t] = "inside"
    /\ depth' = [depth EXCEPT ![t] = @ - 1]
    /\ UNCHANGED <<shared, waiters, localGeneration, pc>>

ExitNested(t) ==
    /\ pc[t] = "inside"
    /\ depth[t] > 1
    /\ depth' = [depth EXCEPT ![t] = @ - 1]
    /\ UNCHANGED <<shared, waiters, localGeneration, pc>>

\* Mutant: the latest arrival is woken.
LatestArrival == queue[Len(queue)]

(* The waiter that __exit__ takes from the queue.                          *)
Successor == Head(queue)

(* The outermost __exit__ hands the turn to the longest waiting thread.    *)
Exit(t) ==
    /\ pc[t] = "inside"
    /\ depth[t] = 1
    /\ depth' = [depth EXCEPT ![t] = 0]
    /\ pc' = [pc EXCEPT ![t] = "outside"]
    /\ IF queue = <<>>
         THEN /\ active' = FALSE
              /\ UNCHANGED <<queue, event>>
         ELSE /\ active' = TRUE
              /\ queue' = Tail(queue)
              /\ event' = [event EXCEPT ![Successor] = "set"]
    /\ UNCHANGED <<generation, waiterGeneration, localGeneration>>

\* Mutant: the queue survives the close.
InvalidateKeepingQueue ==
    /\ generation < MaxGeneration
    /\ generation' = generation + 1
    /\ UNCHANGED <<active, queue, waiters, locals, pc>>

\* Mutant: the queue is emptied, but nobody is woken.
InvalidateSilently ==
    /\ generation < MaxGeneration
    /\ generation' = generation + 1
    /\ queue' = <<>>
    /\ UNCHANGED <<active, waiters, locals, pc>>

(* invalidate(), the first half of close(); it needs no turn.              *)
Invalidate ==
    /\ generation < MaxGeneration
    /\ generation' = generation + 1
    /\ queue' = <<>>
    /\ event' = [t \in Threads |-> IF Queued(t) THEN "error" ELSE event[t]]
    /\ UNCHANGED <<active, waiterGeneration, locals, pc>>

\* Mutant: the generation is not looked at.
NeverInvalidated(t) == FALSE

(* What active_was_invalidated() returns, and adopt_if_current() tests.    *)
Invalidated(t) == localGeneration[t] # generation

Step(t) ==
    \/ Enter(t) \/ Admitted(t) \/ Rejected(t)
    \/ EnterNested(t) \/ ExitNested(t) \/ Exit(t)

Next == (\E t \in Threads : Step(t)) \/ Invalidate

(* A thread whose event is set is woken, and one inside its turn leaves    *)
(* it: every exchange ends at its deadline, and an aggregate nests only    *)
(* finitely many of them, hence the strong fairness of the outermost exit. *)
(* Nobody has to enter or to close.                                        *)
Fairness ==
    \A t \in Threads :
        /\ WF_vars(Admitted(t))
        /\ WF_vars(Rejected(t))
        /\ WF_vars(ExitNested(t))
        /\ SF_vars(Exit(t))

Spec == Init /\ [][Next]_vars
FairSpec == Spec /\ Fairness
-----------------------------------------------------------------------------
TypeOK ==
    /\ active \in BOOLEAN
    /\ queue \in Seq(Threads)
    /\ generation \in Nat
    /\ waiterGeneration \in [Threads -> Nat]
    /\ event \in [Threads -> {"clear", "set", "error"}]
    /\ depth \in [Threads -> Nat]
    /\ localGeneration \in [Threads -> Nat]
    /\ pc \in [Threads -> {"outside", "waiting", "inside"}]

(* The turn belongs to a thread from the moment its event is set without   *)
(* an error, also while that thread has not been scheduled yet.            *)
HasTurn(t) == pc[t] = "inside" \/ (pc[t] = "waiting" /\ event[t] = "set")

(* One operation at a time: two threads never hold the turn together, even *)
(* across a hand-over, a close and a nested entry (client.py 94-125).      *)
MutualExclusion == \A t, u \in Threads : HasTurn(t) /\ HasTurn(u) => t = u

(* No turn is lost: _active says exactly that some thread has the turn, and *)
(* nobody is left in the queue while it is free, whichever of __exit__,    *)
(* __enter__ and invalidate() came last.                                   *)
NoLostTurn ==
    /\ active <=> \E t \in Threads : HasTurn(t)
    /\ queue # <<>> => active

(* Whoever is still queued arrived after the last close(): __exit__ never   *)
(* hands the turn to work that close() retired (client.py 127-135).        *)
QueueIsCurrent ==
    \A t \in Threads : Queued(t) => waiterGeneration[t] = generation

(* The queue holds each thread blocked in event.wait() once and nobody     *)
(* else, so that no waiter is woken twice, skipped or forgotten.           *)
QueueIsExact ==
    /\ \A i, j \in 1..Len(queue) : queue[i] = queue[j] => i = j
    /\ \A t \in Threads :
         Queued(t) <=> pc[t] = "waiting" /\ event[t] = "clear"

(* The abstract turn, seen through the waiters of this class.              *)
Phase ==
    [t \in Threads |->
       CASE pc[t] = "outside" -> "out"
         [] HasTurn(t) -> "turn"
         [] pc[t] = "waiting" /\ event[t] = "clear" -> "waiting"
         [] OTHER -> "rejected"]

Stale == {t \in Threads : HasTurn(t) /\ waiterGeneration[t] # generation}

Turn == INSTANCE FifoTurn WITH
    Clients <- Threads, line <- queue, phase <- Phase, stale <- Stale

(* The admission hands out one turn in arrival order and retires everybody *)
(* at once, whatever the interleaving: it implements FifoTurn.             *)
ImplementsFifoTurn == Turn!TurnSpec

(* Whoever waits in event.wait() gets the turn or the close error, however *)
(* often others enter, nest and close.                                     *)
EveryWaiterLeaves ==
    \A t \in Threads : pc[t] = "waiting" ~> pc[t] # "waiting"
=============================================================================
