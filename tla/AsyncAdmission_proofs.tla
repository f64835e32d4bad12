----------------------- MODULE AsyncAdmission_proofs -----------------------
(***************************************************************************)
(* Proofs about the asyncio turn of AsyncHostLinkClient, for every set of  *)
(* tasks and every bound on closes and nesting, with a cancellation at any *)
(* suspension.                                                             *)
(***************************************************************************)
EXTENDS AsyncAdmission, TLAPS

Distinct(q) == \A i, j \in 1..Len(q) : q[i] = q[j] => i = j
Holds(q, t) == \E i \in 1..Len(q) : q[i] = t

(* A ticket at the end: the queue holds one task more.                     *)
LEMMA AppendedTicket ==
    ASSUME NEW q \in Seq(Tasks), NEW t \in Tasks
    PROVE  /\ Append(q, t) \in Seq(Tasks)
           /\ Append(q, t) # <<>>
           /\ \A u \in Tasks : Holds(Append(q, t), u) <=> Holds(q, u) \/ u = t
           /\ Distinct(q) /\ ~Holds(q, t) => Distinct(Append(q, t))
  <1> DEFINE r == Append(q, t)
  <1>1. /\ r \in Seq(Tasks) /\ Len(q) \in Nat
        /\ Len(r) = Len(q) + 1 /\ r[Len(q) + 1] = t
        /\ \A i \in 1..Len(q) : r[i] = q[i]
    OBVIOUS
  <1> HIDE DEF r
  <1>2. \A i \in 1..Len(r) : i \in 1..Len(q) \/ i = Len(q) + 1
    BY <1>1
  <1>3. Len(q) + 1 \in 1..Len(r) /\ \A i \in 1..Len(q) : i \in 1..Len(r)
    BY <1>1
  <1>4. \A u \in Tasks : Holds(r, u) <=> Holds(q, u) \/ u = t
    BY <1>1, <1>2, <1>3 DEF Holds
  <1>5. Distinct(q) /\ ~Holds(q, t) => Distinct(r)
    BY <1>1, <1>2 DEF Distinct, Holds
  <1>6. r # <<>>
    BY <1>1
  <1>7. QED
    BY <1>1, <1>4, <1>5, <1>6 DEF r

(* The first ticket is taken: the queue holds all but its head.            *)
LEMMA FirstTicket ==
    ASSUME NEW q \in Seq(Tasks), q # <<>>, Distinct(q)
    PROVE  /\ Head(q) \in Tasks /\ Holds(q, Head(q))
           /\ Tail(q) \in Seq(Tasks)
           /\ Distinct(Tail(q))
           /\ \A u \in Tasks : Holds(Tail(q), u) <=> Holds(q, u) /\ u # Head(q)
  <1> DEFINE r == Tail(q)
  <1>1. /\ r \in Seq(Tasks) /\ Len(q) \in Nat /\ Len(q) > 0
        /\ Len(r) = Len(q) - 1
        /\ Head(q) = q[1] /\ Head(q) \in Tasks
        /\ \A i \in 1..Len(r) : r[i] = q[i + 1]
    OBVIOUS
  <1> HIDE DEF r
  <1>2. /\ 1 \in 1..Len(q)
        /\ \A i \in 1..Len(r) : i + 1 \in 1..Len(q) /\ i + 1 # 1
        /\ \A i \in 1..Len(q) : i = 1 \/ (i - 1 \in 1..Len(r) /\ r[i - 1] = q[i])
    BY <1>1
  <1>3. Distinct(r)
    <2> SUFFICES ASSUME NEW i \in 1..Len(r), NEW j \in 1..Len(r), r[i] = r[j]
                 PROVE  i = j
      BY DEF Distinct
    <2>1. i + 1 = j + 1
      BY <1>1, <1>2 DEF Distinct
    <2>2. QED
      BY <2>1
  <1>4. ASSUME NEW u \in Tasks PROVE Holds(r, u) <=> Holds(q, u) /\ u # Head(q)
    <2>1. Holds(r, u) => Holds(q, u) /\ u # Head(q)
      BY <1>1, <1>2 DEF Holds, Distinct
    <2>2. Holds(q, u) /\ u # Head(q) => Holds(r, u)
      BY <1>1, <1>2 DEF Holds
    <2>3. QED
      BY <2>1, <2>2
  <1>5. QED
    BY <1>1, <1>2, <1>3, <1>4 DEF r, Holds

(* A ticket is removed wherever it is.                                     *)
LEMMA RemovedTicket ==
    ASSUME NEW q \in Seq(Tasks), NEW t \in Tasks, Distinct(q)
    PROVE  /\ Without(q, t) \in Seq(Tasks)
           /\ Distinct(Without(q, t))
           /\ \A u \in Tasks : Holds(Without(q, t), u) <=> Holds(q, u) /\ u # t
           /\ q = <<>> => Without(q, t) = <<>>
           /\ Holds(q, t) =>
                \E k \in 1..Len(q) :
                  /\ q[k] = t
                  /\ Without(q, t) = [i \in 1..(Len(q) - 1) |->
                                        IF i < k THEN q[i] ELSE q[i + 1]]
  <1>1. CASE ~Holds(q, t)
    <2>1. Without(q, t) = q
      BY <1>1 DEF Without, Holds
    <2>2. QED
      BY <1>1, <2>1 DEF Holds
  <1>2. CASE Holds(q, t)
    <2> DEFINE r == Without(q, t)
    <2>1. PICK k \in 1..Len(q) :
            /\ q[k] = t
            /\ r = [i \in 1..(Len(q) - 1) |-> IF i < k THEN q[i] ELSE q[i + 1]]
      BY <1>2 DEF Without, Holds
    <2>2. /\ Len(q) \in Nat /\ k \in Nat /\ Len(q) > 0
          /\ \A i \in 1..Len(q) : q[i] \in Tasks
      OBVIOUS
    <2> HIDE DEF r
    <2>3. \A i \in 1..(Len(q) - 1) : (IF i < k THEN q[i] ELSE q[i + 1]) \in Tasks
      BY <2>2
    <2>4. r \in Seq(Tasks) /\ Len(r) = Len(q) - 1
      <3>1. Len(q) - 1 \in Nat
        BY <2>2
      <3>2. \A n \in Nat : [1..n -> Tasks] \subseteq Seq(Tasks)
        OBVIOUS
      <3>3. r \in [1..(Len(q) - 1) -> Tasks]
        BY <2>1, <2>3
      <3>4. QED
        BY <3>1, <3>2, <3>3
    <2> DEFINE Old(i) == IF i < k THEN i ELSE i + 1
               New(j) == IF j < k THEN j ELSE j - 1
    <2>5. \A i \in 1..Len(r) : Old(i) \in 1..Len(q) /\ Old(i) # k /\ r[i] = q[Old(i)]
      BY <2>1, <2>2, <2>4
    <2>6. \A j \in 1..Len(q) : j # k => New(j) \in 1..Len(r) /\ r[New(j)] = q[j]
      BY <2>1, <2>2, <2>4
    <2>7. \A i, j \in 1..Len(r) : Old(i) = Old(j) => i = j
      BY <2>2, <2>4
    <2> HIDE DEF Old, New
    <2>8. Distinct(r)
      BY <2>5, <2>7 DEF Distinct
    <2>9. ASSUME NEW u \in Tasks PROVE Holds(r, u) <=> Holds(q, u) /\ u # t
      <3>1. Holds(r, u) => Holds(q, u) /\ u # t
        BY <2>1, <2>5 DEF Holds, Distinct
      <3>2. Holds(q, u) /\ u # t => Holds(r, u)
        BY <2>1, <2>6 DEF Holds
      <3>3. QED
        BY <3>1, <3>2
    <2>10. q # <<>>
      BY <2>2
    <2>11. QED
      BY <2>1, <2>4, <2>8, <2>9, <2>10 DEF r
  <1>3. QED
    BY <1>1, <1>2
-----------------------------------------------------------------------------
(* Neither property is inductive alone: an owner is exact because a hand-  *)
(* over finds a suspended task at the head of the queue, and the queue is  *)
(* exact because only tasks without the turn enter it.                     *)
CancelledWaits == \A t \in Tasks : cancelled[t] => pc[t] = "waiting"
NoneIsAhead == \A t \in Tasks : waiterGeneration[t] <= generation

IInv ==
    /\ TypeOK
    /\ OwnerIsExact
    /\ QueueIsExact
    /\ NoneIsAhead

Waits(t) == pc[t] = "waiting" /\ future[t] = "pending"
Owns(t) == pc[t] = "inside" \/ (pc[t] = "waiting" /\ future[t] = "result")

(* Init leaves the turn free and the queue empty.                          *)
LEMMA InitIInv == Init => IInv
  <1> SUFFICES ASSUME Init PROVE IInv
    OBVIOUS
  <1>1. Len(queue) = 0
    BY DEF Init
  <1>2. TypeOK
    BY DEF Init, TypeOK
  <1>3. OwnerIsExact
    BY TasksAssumption DEF Init, OwnerIsExact
  <1>4. QueueIsExact
    BY <1>1 DEF Init, QueueIsExact, Queued
  <1>5. NoneIsAhead
    <2> SUFFICES ASSUME NEW t \in Tasks PROVE waiterGeneration[t] <= generation
      BY DEF NoneIsAhead
    <2>1. generation = 0 /\ waiterGeneration[t] = 0
      BY DEF Init
    <2>2. QED
      BY <2>1
  <1>6. QED
    BY <1>2, <1>3, <1>4, <1>5 DEF IInv

(* A free turn is taken at once.                                           *)
LEMMA EnterFreeIInv ==
    ASSUME NEW t \in Tasks, IInv, EnterFree(t)
    PROVE  IInv'
  <1> USE DEF IInv, TypeOK
  <1>1. /\ pc[t] = "outside" /\ owner = NoTask /\ queue = <<>>
        /\ owner' = t /\ ownerGeneration' = generation /\ depth' = 1
        /\ waiterGeneration' = [waiterGeneration EXCEPT ![t] = generation]
        /\ future' = [future EXCEPT ![t] = "result"]
        /\ pc' = [pc EXCEPT ![t] = "inside"]
        /\ UNCHANGED <<queue, generation, cancelled>>
    BY DEF EnterFree
  <1>2. TypeOK'
    BY <1>1
  <1>3. OwnerIsExact'
    BY <1>1, TasksAssumption DEF OwnerIsExact
  <1>4. QueueIsExact'
    BY <1>1, TasksAssumption DEF QueueIsExact, Queued
  <1>5. NoneIsAhead'
    BY <1>1 DEF NoneIsAhead
  <1>6. QED
    BY <1>2, <1>3, <1>4, <1>5

(* A busy turn is queued for.                                              *)
LEMMA EnterBusyIInv ==
    ASSUME NEW t \in Tasks, IInv, EnterBusy(t)
    PROVE  IInv'
  <1> USE DEF IInv, TypeOK
  <1>1. /\ pc[t] = "outside" /\ ~(owner = NoTask /\ queue = <<>>)
        /\ queue' = Append(queue, t)
        /\ waiterGeneration' = [waiterGeneration EXCEPT ![t] = generation]
        /\ future' = [future EXCEPT ![t] = "pending"]
        /\ pc' = [pc EXCEPT ![t] = "waiting"]
        /\ UNCHANGED <<owner, ownerGeneration, depth, generation, cancelled>>
    BY DEF EnterBusy, turn
  <1>2. owner # t /\ owner # NoTask
    BY <1>1 DEF OwnerIsExact, QueueIsExact
  <1>3. Distinct(queue) /\ ~Holds(queue, t)
    BY <1>1 DEF QueueIsExact, Queued, Distinct, Holds
  <1>4. /\ queue' \in Seq(Tasks) /\ Distinct(queue')
        /\ \A u \in Tasks : Queued(u)' <=> Queued(u) \/ u = t
    BY <1>1, <1>3, AppendedTicket DEF Queued, Holds
  <1>5. TypeOK'
    BY <1>1, <1>4
  <1>6. OwnerIsExact'
    BY <1>1, <1>2 DEF OwnerIsExact
  <1>7. QueueIsExact'
    <2>1. \A u \in Tasks : Queued(u)' <=> pc'[u] = "waiting" /\ future'[u] = "pending"
      BY <1>1, <1>4 DEF QueueIsExact
    <2>2. \A u \in Tasks : Queued(u)' => waiterGeneration'[u] = generation'
      BY <1>1, <1>4 DEF QueueIsExact
    <2>3. QED
      BY <1>1, <1>2, <1>4, <2>1, <2>2 DEF QueueIsExact, Distinct
  <1>8. NoneIsAhead'
    BY <1>1 DEF NoneIsAhead
  <1>9. QED
    BY <1>5, <1>6, <1>7, <1>8

(* The owner leaves: it is outside afterwards and the oldest waiter, which *)
(* is suspended and of the present generation, is the owner.               *)
LEMMA HandOverIInv ==
    ASSUME NEW t \in Tasks, IInv, owner = t, HandOver(queue),
           pc' = [pc EXCEPT ![t] = "outside"],
           cancelled' \in [Tasks -> BOOLEAN],
           UNCHANGED <<generation, waiterGeneration>>
    PROVE  IInv'
  <1> USE DEF IInv, TypeOK
  <1>0. NoneIsAhead'
    BY DEF NoneIsAhead
  <1>1. CASE queue = <<>>
    <2>1. /\ owner' = NoTask /\ depth' = 0 /\ queue' = <<>>
          /\ UNCHANGED <<ownerGeneration, future>>
      BY <1>1 DEF HandOver, FreeTurn
    <2>2. TypeOK'
      BY <1>1, <2>1
    <2>3. OwnerIsExact'
      BY <2>1, TasksAssumption DEF OwnerIsExact
    <2>4. QueueIsExact'
      <3>1. \A u \in Tasks : ~Queued(u) /\ ~Queued(u)'
        BY <1>1, <2>1 DEF Queued
      <3>2. QED
        BY <1>1, <2>1, <3>1 DEF QueueIsExact
    <2>5. QED
      BY <1>0, <2>2, <2>3, <2>4
  <1>2. CASE queue # <<>>
    <2> DEFINE h == Head(queue)
    <2>1. /\ h \in Tasks /\ Queued(h) /\ queue' = Tail(queue)
          /\ queue' \in Seq(Tasks) /\ Distinct(queue')
          /\ \A u \in Tasks : Queued(u)' <=> Queued(u) /\ u # h
      <3>1. queue' = Tail(queue)
        BY <1>2 DEF HandOver
      <3>2. queue \in Seq(Tasks) /\ Distinct(queue)
        BY DEF QueueIsExact, Distinct
      <3>3. /\ Head(queue) \in Tasks /\ Holds(queue, Head(queue))
            /\ Tail(queue) \in Seq(Tasks) /\ Distinct(Tail(queue))
            /\ \A u \in Tasks :
                 Holds(Tail(queue), u) <=> Holds(queue, u) /\ u # Head(queue)
        BY <1>2, <3>2, FirstTicket
      <3>4. QED
        BY <3>1, <3>3 DEF Queued, Holds
    <2>2. /\ owner' = h /\ depth' = 1 /\ ownerGeneration' = waiterGeneration[h]
          /\ future' = [future EXCEPT ![h] = "result"]
      BY <1>2 DEF HandOver
    <2> HIDE DEF h
    <2>3. /\ pc[h] = "waiting" /\ future[h] = "pending" /\ h # t
          /\ waiterGeneration[h] = generation
      BY <2>1 DEF QueueIsExact, OwnerIsExact
    <2>4. TypeOK'
      BY <2>1, <2>2
    <2>5. OwnerIsExact'
      BY <2>1, <2>2, <2>3, TasksAssumption DEF OwnerIsExact
    <2>6. QueueIsExact'
      <3>1. \A u \in Tasks : Queued(u)' <=> pc'[u] = "waiting" /\ future'[u] = "pending"
        BY <2>1, <2>2, <2>3 DEF QueueIsExact, OwnerIsExact
      <3>2. QED
        BY <2>1, <2>2, <3>1, TasksAssumption DEF QueueIsExact, Distinct
    <2>7. QED
      BY <1>0, <2>4, <2>5, <2>6
  <1>3. QED
    BY <1>1, <1>2

(* A cancelled task that is not the owner leaves with its ticket.          *)
LEMMA WithdrawIInv ==
    ASSUME NEW t \in Tasks, IInv, CancelledInQueue(t), Queued(t) \/ owner # t
    PROVE  IInv'
  <1> USE DEF IInv, TypeOK
  <1>1. /\ pc[t] = "waiting"
        /\ cancelled' = [cancelled EXCEPT ![t] = FALSE]
        /\ pc' = [pc EXCEPT ![t] = "outside"]
        /\ queue' = Without(queue, t)
        /\ UNCHANGED <<owner, ownerGeneration, depth, future, generation,
                       waiterGeneration>>
    BY DEF CancelledInQueue, turn
  <1>2. owner # t
    BY DEF QueueIsExact, OwnerIsExact
  <1>3. /\ queue' \in Seq(Tasks) /\ Distinct(queue')
        /\ \A u \in Tasks : Queued(u)' <=> Queued(u) /\ u # t
        /\ queue = <<>> => queue' = <<>>
    <2>1. queue \in Seq(Tasks) /\ Distinct(queue)
      BY DEF QueueIsExact, Distinct
    <2>2. /\ Without(queue, t) \in Seq(Tasks) /\ Distinct(Without(queue, t))
          /\ \A u \in Tasks : Holds(Without(queue, t), u) <=> Holds(queue, u) /\ u # t
          /\ queue = <<>> => Without(queue, t) = <<>>
      BY <2>1, RemovedTicket
    <2>3. QED
      BY <1>1, <2>2 DEF Queued, Holds
  <1>4. TypeOK'
    BY <1>1, <1>3
  <1>5. OwnerIsExact'
    BY <1>1, <1>2 DEF OwnerIsExact
  <1>6. QueueIsExact'
    <2>1. \A u \in Tasks : Queued(u)' <=> pc'[u] = "waiting" /\ future'[u] = "pending"
      BY <1>1, <1>3 DEF QueueIsExact
    <2>2. QED
      BY <1>1, <1>3, <2>1 DEF QueueIsExact, Distinct
  <1>7. NoneIsAhead'
    BY <1>1 DEF NoneIsAhead
  <1>8. QED
    BY <1>4, <1>5, <1>6, <1>7

(* invalidate() empties the queue and leaves the owner alone.              *)
LEMMA InvalidateIInv ==
    ASSUME IInv, Invalidate
    PROVE  IInv'
  <1> USE DEF IInv, TypeOK
  <1>1. /\ generation' = generation + 1 /\ queue' = <<>>
        /\ future' = [t \in Tasks |-> IF Queued(t) THEN "closed" ELSE future[t]]
        /\ UNCHANGED <<owner, ownerGeneration, depth, waiterGeneration, cancelled, pc>>
    BY DEF Invalidate, turn
  <1>2. \A t \in Tasks : ~Queued(t)'
    BY <1>1 DEF Queued
  <1> HIDE DEF Queued
  <1>3. TypeOK'
    BY <1>1
  <1>4. OwnerIsExact'
    BY <1>1 DEF OwnerIsExact, QueueIsExact
  <1>5. QueueIsExact'
    BY <1>1, <1>2 DEF QueueIsExact
  <1>6. NoneIsAhead'
    BY <1>1 DEF NoneIsAhead
  <1>7. QED
    BY <1>3, <1>4, <1>5, <1>6

(* The other steps touch neither the owner nor the queue.                  *)
LEMMA LocalStepIInv ==
    ASSUME NEW t \in Tasks, IInv,
           \/ EnterNested(t) \/ Cancel(t) \/ Admitted(t) \/ Rejected(t)
           \/ ExitNested(t)
    PROVE  IInv'
  <1> USE DEF IInv, TypeOK
  <1>1. /\ UNCHANGED <<owner, ownerGeneration, queue, generation,
                       waiterGeneration, future>>
        /\ depth' \in Nat /\ (depth' > 0 <=> depth > 0)
        /\ cancelled' \in [Tasks -> BOOLEAN]
        /\ pc' \in [Tasks -> {"outside", "waiting", "inside"}]
    <2>1. CASE EnterNested(t)
      <3>1. /\ pc[t] = "inside" /\ owner = t /\ depth' = depth + 1
            /\ UNCHANGED <<owner, ownerGeneration, queue, generation,
                           waiterGeneration, future, cancelled, pc>>
        BY <2>1 DEF EnterNested, waiters
      <3>2. depth \in Nat /\ depth > 0
        BY <3>1, TasksAssumption DEF OwnerIsExact
      <3>3. depth' \in Nat /\ depth' > 0
        BY <3>1, <3>2
      <3>4. QED
        BY <3>1, <3>2, <3>3
    <2>2. CASE Cancel(t)
      BY <2>2 DEF Cancel, waiters, turn
    <2>3. CASE Admitted(t)
      BY <2>3 DEF Admitted, waiters, turn
    <2>4. CASE Rejected(t)
      BY <2>4 DEF Rejected, waiters, turn
    <2>5. CASE ExitNested(t)
      BY <2>5 DEF ExitNested, waiters
    <2>6. QED
      BY <2>1, <2>2, <2>3, <2>4, <2>5
  <1>2. \A u \in Tasks : (Owns(u)' <=> Owns(u)) /\ (Waits(u)' <=> Waits(u))
    BY DEF EnterNested, Cancel, Admitted, Rejected, ExitNested, waiters, turn,
           Owns, Waits
  <1>3. TypeOK'
    BY <1>1
  <1>4. OwnerIsExact'
    BY <1>1, <1>2 DEF OwnerIsExact, Owns
  <1>5. QueueIsExact'
    BY <1>1, <1>2 DEF QueueIsExact, Queued, Waits
  <1>6. NoneIsAhead'
    BY <1>1 DEF NoneIsAhead
  <1>7. QED
    BY <1>3, <1>4, <1>5, <1>6

(* A cancelled task that was handed the turn passes it on, like an exit.   *)
LEMMA CancelledIInv ==
    ASSUME NEW t \in Tasks, IInv, CancelledInQueue(t)
    PROVE  IInv'
  <1>1. CASE Queued(t) \/ owner # t
    BY <1>1, WithdrawIInv
  <1>2. CASE ~(Queued(t) \/ owner # t)
    <2>1. /\ owner = t /\ HandOver(queue)
          /\ pc' = [pc EXCEPT ![t] = "outside"]
          /\ cancelled' = [cancelled EXCEPT ![t] = FALSE]
          /\ UNCHANGED <<generation, waiterGeneration>>
      BY <1>2 DEF CancelledInQueue
    <2>2. cancelled' \in [Tasks -> BOOLEAN]
      BY <2>1 DEF IInv, TypeOK
    <2>3. QED
      BY <2>1, <2>2, HandOverIInv
  <1>3. QED
    BY <1>1, <1>2

(* Every step keeps the inductive invariant.                               *)
LEMMA StepIInv == IInv /\ [Next]_vars => IInv'
  <1> SUFFICES ASSUME IInv, [Next]_vars PROVE IInv'
    OBVIOUS
  <1>1. CASE UNCHANGED vars
    BY <1>1 DEF vars, IInv, TypeOK, OwnerIsExact, QueueIsExact, Queued, NoneIsAhead
  <1>2. CASE Invalidate
    BY <1>2, InvalidateIInv
  <1>3. ASSUME NEW t \in Tasks, Step(t) PROVE IInv'
    <2>1. CASE Exit(t)
      <3>1. /\ owner = t /\ HandOver(queue)
            /\ pc' = [pc EXCEPT ![t] = "outside"]
            /\ UNCHANGED <<generation, waiterGeneration, cancelled>>
        BY <2>1 DEF Exit
      <3>2. cancelled' \in [Tasks -> BOOLEAN]
        BY <3>1 DEF IInv, TypeOK
      <3>3. QED
        BY <3>1, <3>2, HandOverIInv
    <2>2. QED
      BY <1>3, <2>1, EnterFreeIInv, EnterBusyIInv, LocalStepIInv, CancelledIInv
      DEF Step, Resume
  <1>4. QED
    BY <1>1, <1>2, <1>3 DEF Next

(* The inductive invariant holds in every state the event loop can reach.  *)
THEOREM Invariance == Spec => []IInv
  BY InitIInv, StepIInv, PTL DEF Spec

(* The state of AsyncAdmission stays within its types.                     *)
THEOREM TypeCorrect == Spec => []TypeOK
  BY Invariance, PTL DEF IInv

(* _owner, its depth and its generation are those of the one task that is  *)
(* inside the turn or was just handed it.                                  *)
THEOREM OwnerStaysExact == Spec => []OwnerIsExact
  BY Invariance, PTL DEF IInv

(* The queue holds the suspended tasks, once each, all of the present      *)
(* generation, and none while the turn is free.                            *)
THEOREM QueueStaysExact == Spec => []QueueIsExact
  BY Invariance, PTL DEF IInv
-----------------------------------------------------------------------------
(* A cancellation is carried only by a task that is suspended in the       *)
(* queue.                                                                  *)
LEMMA OnlyWaitersAreCancelled == Spec => []CancelledWaits
  <1>1. Init => CancelledWaits
    BY DEF Init, CancelledWaits
  <1>2. TypeOK /\ CancelledWaits /\ [Next]_vars => CancelledWaits'
    <2> SUFFICES ASSUME TypeOK, CancelledWaits, [Next]_vars, NEW u \in Tasks,
                        cancelled'[u]
                 PROVE  pc'[u] = "waiting"
      BY DEF CancelledWaits
    <2> USE DEF TypeOK, CancelledWaits
    <2>1. CASE UNCHANGED <<cancelled, pc>>
      BY <2>1
    <2>2. ASSUME NEW t \in Tasks, Cancel(t) PROVE pc'[u] = "waiting"
      BY <2>2 DEF Cancel
    <2>3. ASSUME NEW t \in Tasks, CancelledInQueue(t) PROVE pc'[u] = "waiting"
      BY <2>3 DEF CancelledInQueue
    <2>4. ASSUME NEW t \in Tasks, EnterFree(t) \/ EnterBusy(t) \/ Exit(t)
          PROVE  pc'[u] = "waiting"
      BY <2>4 DEF EnterFree, EnterBusy, Exit
    <2>5. ASSUME NEW t \in Tasks, Admitted(t) \/ Rejected(t)
          PROVE  pc'[u] = "waiting"
      BY <2>5 DEF Admitted, Rejected
    <2>6. CASE Invalidate
      BY <2>6 DEF Invalidate
    <2>7. ASSUME NEW t \in Tasks, EnterNested(t) \/ ExitNested(t)
          PROVE  pc'[u] = "waiting"
      BY <2>7 DEF EnterNested, ExitNested
    <2>8. QED
      BY <2>1, <2>2, <2>3, <2>4, <2>5, <2>6, <2>7 DEF Next, Step, Resume, vars
  <1>3. QED
    BY <1>1, <1>2, TypeCorrect, PTL DEF Spec

(* A task cancelled while it waits is outside at its next step, although   *)
(* the turn may have been handed to it before it resumed.                  *)
THEOREM CancelledStaysOut == Spec => CancelledNeverEnters
  <1>1. TypeOK /\ CancelledWaits /\ [Next]_vars
        => [\A t \in Tasks : cancelled[t] => pc'[t] # "inside"]_vars
    <2> SUFFICES ASSUME TypeOK, CancelledWaits, Next, NEW u \in Tasks, cancelled[u]
                 PROVE  pc'[u] # "inside"
      OBVIOUS
    <2>1. pc[u] = "waiting" /\ pc \in [Tasks -> {"outside", "waiting", "inside"}]
      BY DEF CancelledWaits, TypeOK
    <2>2. ASSUME NEW t \in Tasks, Admitted(t) PROVE pc'[u] # "inside"
      <3>1. t # u
        BY <2>2 DEF Admitted
      <3>2. QED
        BY <2>1, <2>2, <3>1 DEF Admitted
    <2>3. ASSUME NEW t \in Tasks, EnterFree(t) PROVE pc'[u] # "inside"
      BY <2>1, <2>3 DEF EnterFree
    <2>4. ASSUME NEW t \in Tasks,
                 EnterBusy(t) \/ Rejected(t) \/ CancelledInQueue(t) \/ Exit(t)
          PROVE  pc'[u] # "inside"
      BY <2>1, <2>4 DEF EnterBusy, Rejected, CancelledInQueue, Exit
    <2>5. ASSUME NEW t \in Tasks, EnterNested(t) \/ Cancel(t) \/ ExitNested(t)
          PROVE  pc'[u] # "inside"
      BY <2>1, <2>5 DEF EnterNested, Cancel, ExitNested
    <2>6. CASE Invalidate
      BY <2>1, <2>6 DEF Invalidate
    <2>7. QED
      BY <2>2, <2>3, <2>4, <2>5, <2>6 DEF Next, Step, Resume
  <1>2. QED
    BY <1>1, TypeCorrect, OnlyWaitersAreCancelled, PTL
    DEF Spec, CancelledNeverEnters
-----------------------------------------------------------------------------
(* What each reachable state of a task looks like in the abstract turn.    *)
LEMMA PhaseFacts ==
    ASSUME IInv
    PROVE  /\ Phase \in [Tasks -> {"out", "turn", "waiting", "rejected"}]
           /\ \A t \in Tasks :
                /\ Phase[t] = "turn" <=> owner = t
                /\ Phase[t] = "waiting" <=> Waits(t)
                /\ Phase[t] = "waiting" <=> Queued(t)
                /\ Phase[t] = "rejected" <=> pc[t] = "waiting" /\ future[t] = "closed"
                /\ Phase[t] = "out" <=> pc[t] = "outside"
  <1> HIDE DEF Queued
  <1>1. \A t \in Tasks :
          /\ owner = t <=> Owns(t)
          /\ Queued(t) <=> Waits(t)
          /\ pc[t] \in {"outside", "waiting", "inside"}
          /\ future[t] \in {"pending", "result", "closed"}
    BY DEF IInv, TypeOK, OwnerIsExact, QueueIsExact, Owns, Waits
  <1>2. QED
    BY <1>1 DEF Phase, Owns, Waits

(* The turn is free in the abstract sense exactly when nobody owns it.     *)
LEMMA FreeMeansNoOwner ==
    ASSUME IInv PROVE Turn!Free <=> owner = NoTask
  BY PhaseFacts, TasksAssumption DEF IInv, TypeOK, Turn!Free

(* A phase changes only where the owner, a future or a label does.         *)
LEMMA PhaseUpdates ==
    ASSUME IInv, IInv', NEW t \in Tasks,
           \A u \in Tasks \ {t} : Phase'[u] = Phase[u]
    PROVE  Phase' = [Phase EXCEPT ![t] = Phase'[t]]
  <1>1. Phase' = [u \in Tasks |-> Phase'[u]] /\ Phase = [u \in Tasks |-> Phase[u]]
    BY DEF Phase
  <1> HIDE DEF Phase
  <1>2. QED
    BY <1>1

(* Entering is arriving.                                                   *)
LEMMA EnterRefines ==
    ASSUME NEW t \in Tasks, IInv, IInv', EnterFree(t) \/ EnterBusy(t)
    PROVE  Turn!Arrive(t)
  <1>1. Phase[t] = "out" /\ (Turn!Free <=> owner = NoTask)
    BY PhaseFacts, FreeMeansNoOwner DEF EnterFree, EnterBusy
  <1>2. CASE EnterFree(t)
    <2>1. /\ owner = NoTask /\ queue = <<>> /\ owner' = t /\ queue' = queue
          /\ ownerGeneration' = generation /\ generation' = generation
          /\ future' = [future EXCEPT ![t] = "result"]
          /\ pc' = [pc EXCEPT ![t] = "inside"]
      BY <1>2 DEF EnterFree
    <2>2. \A u \in Tasks \ {t} : Phase'[u] = Phase[u]
      BY <2>1, TasksAssumption DEF Phase, IInv, TypeOK
    <2>3. Phase'[t] = "turn"
      BY <2>1, PhaseFacts DEF Phase, IInv, TypeOK
    <2>4. Phase' = [Phase EXCEPT ![t] = "turn"]
      BY <2>2, <2>3, PhaseUpdates
    <2>5. Stale' = Stale
      BY <2>1, TasksAssumption DEF Stale
    <2>6. QED
      BY <1>1, <2>1, <2>4, <2>5 DEF Turn!Arrive
  <1>3. CASE EnterBusy(t)
    <2>1. /\ ~(owner = NoTask /\ queue = <<>>) /\ pc[t] = "outside"
          /\ queue' = Append(queue, t)
          /\ UNCHANGED <<owner, ownerGeneration, generation>>
          /\ future' = [future EXCEPT ![t] = "pending"]
          /\ pc' = [pc EXCEPT ![t] = "waiting"]
      BY <1>3 DEF EnterBusy, turn
    <2>2. owner # t
      BY <1>1, PhaseFacts
    <2>3. \A u \in Tasks \ {t} : Phase'[u] = Phase[u]
      BY <2>1 DEF Phase, IInv, TypeOK
    <2>4. Phase'[t] = "waiting"
      BY <2>1, <2>2 DEF Phase, IInv, TypeOK
    <2>5. Phase' = [Phase EXCEPT ![t] = "waiting"]
      BY <2>3, <2>4, PhaseUpdates
    <2>6. Stale' = Stale
      BY <2>1 DEF Stale
    <2>7. QED
      BY <1>1, <2>1, <2>5, <2>6 DEF Turn!Arrive
  <1>4. QED
    BY <1>2, <1>3

(* Passing the turn on is leaving, with the same successor.                *)
LEMMA HandOverRefines ==
    ASSUME NEW t \in Tasks, IInv, IInv', owner = t, HandOver(queue),
           pc' = [pc EXCEPT ![t] = "outside"],
           UNCHANGED <<generation, waiterGeneration>>
    PROVE  Turn!Leave(t)
  <1>1. Phase[t] = "turn" /\ Stale \subseteq {t}
    BY PhaseFacts DEF Stale
  <1>2. CASE queue = <<>>
    <2>1. /\ owner' = NoTask /\ queue' = queue
          /\ UNCHANGED <<ownerGeneration, future>>
      BY <1>2 DEF HandOver, FreeTurn
    <2>2. Stale' = {}
      BY <2>1, TasksAssumption DEF Stale
    <2>3. \A u \in Tasks \ {t} : Phase'[u] = Phase[u]
      BY <2>1, TasksAssumption DEF Phase, IInv, TypeOK
    <2>4. Phase'[t] = "out"
      BY <2>1, TasksAssumption DEF Phase, IInv, TypeOK
    <2>5. Phase' = [Phase EXCEPT ![t] = "out"]
      BY <2>3, <2>4, PhaseUpdates
    <2>6. QED
      BY <1>1, <1>2, <2>1, <2>2, <2>5 DEF Turn!Leave
  <1>3. CASE queue # <<>>
    <2> DEFINE h == Head(queue)
    <2>1. h \in Tasks /\ Queued(h)
      <3>1. queue \in Seq(Tasks) /\ Distinct(queue)
        BY DEF IInv, TypeOK, QueueIsExact, Distinct
      <3>2. QED
        BY <1>3, <3>1, FirstTicket DEF Queued, Holds
    <2>2. /\ owner' = h /\ ownerGeneration' = waiterGeneration[h]
          /\ queue' = Tail(queue)
          /\ future' = [future EXCEPT ![h] = "result"]
      BY <1>3 DEF HandOver
    <2>3. /\ pc[h] = "waiting" /\ future[h] = "pending"
          /\ waiterGeneration[h] = generation
      BY <2>1 DEF IInv, QueueIsExact
    <2> HIDE DEF h
    <2>4. h # t
      BY <2>1, <1>1, PhaseFacts
    <2>5. Stale' = {}
      BY <2>1, <2>2, <2>3 DEF Stale
    <2>6. /\ Phase' \in [Tasks -> {"out", "turn", "waiting", "rejected"}]
          /\ Phase \in [Tasks -> {"out", "turn", "waiting", "rejected"}]
      BY PhaseFacts DEF Phase
    <2>7. \A u \in Tasks \ {t, h} : Phase'[u] = Phase[u]
      BY <2>1, <2>2 DEF Phase, IInv, TypeOK
    <2>8. Phase'[t] = "out" /\ Phase'[h] = "turn"
      BY <2>1, <2>2, <2>4 DEF Phase, IInv, TypeOK
    <2>9. Phase' = [Phase EXCEPT ![t] = "out", ![h] = "turn"]
      <3> HIDE DEF Phase
      <3>1. QED
        BY <2>1, <2>4, <2>6, <2>7, <2>8
    <2>10. Stale \ {t} = {}
      BY <1>1
    <2>11. QED
      BY <1>1, <1>3, <2>2, <2>5, <2>9, <2>10 DEF Turn!Leave, h
  <1>4. QED
    BY <1>2, <1>3

(* A cancelled task that still has its ticket withdraws.                   *)
LEMMA WithdrawRefines ==
    ASSUME NEW t \in Tasks, IInv, IInv', CancelledInQueue(t), Queued(t)
    PROVE  Turn!Withdraw(t)
  <1>1. /\ queue' = Without(queue, t) /\ pc' = [pc EXCEPT ![t] = "outside"]
        /\ UNCHANGED <<owner, ownerGeneration, generation, future>>
    BY DEF CancelledInQueue, turn
  <1>2. Phase[t] = "waiting" /\ owner # t
    <2>1. Phase[t] = "waiting"
      BY PhaseFacts
    <2>2. QED
      BY <2>1, PhaseFacts
  <1>3. \A u \in Tasks \ {t} : Phase'[u] = Phase[u]
    BY <1>1 DEF Phase, IInv, TypeOK
  <1>4. Phase'[t] = "out"
    BY <1>1, <1>2 DEF Phase, IInv, TypeOK
  <1>5. Phase' = [Phase EXCEPT ![t] = "out"]
    BY <1>3, <1>4, PhaseUpdates
  <1>6. Stale' = Stale
    BY <1>1 DEF Stale
  <1>7. \E k \in 1..Len(queue) :
          /\ queue[k] = t
          /\ queue' = [i \in 1..(Len(queue) - 1) |->
                         IF i < k THEN queue[i] ELSE queue[i + 1]]
    <2>1. queue \in Seq(Tasks) /\ Distinct(queue) /\ Holds(queue, t)
      BY DEF IInv, TypeOK, QueueIsExact, Distinct, Queued, Holds
    <2>2. QED
      <3>1. \E k \in 1..Len(queue) :
              /\ queue[k] = t
              /\ Without(queue, t) = [i \in 1..(Len(queue) - 1) |->
                                        IF i < k THEN queue[i] ELSE queue[i + 1]]
        BY <2>1, RemovedTicket, Zenon
      <3>2. QED
        BY <1>1, <3>1
  <1>8. QED
    BY <1>2, <1>5, <1>6, <1>7 DEF Turn!Withdraw

(* A rejected task leaves, with the close error or with its cancellation.  *)
LEMMA ReportRefines ==
    ASSUME NEW t \in Tasks, IInv, IInv', ~Queued(t), owner # t,
           Rejected(t) \/ CancelledInQueue(t)
    PROVE  Turn!Report(t)
  <1>1. pc[t] = "waiting" /\ pc' = [pc EXCEPT ![t] = "outside"]
    BY DEF Rejected, CancelledInQueue
  <1>2. Without(queue, t) = queue
    BY DEF Without, Queued
  <1>3. UNCHANGED <<owner, ownerGeneration, queue, generation, future>>
    BY <1>2 DEF Rejected, CancelledInQueue, turn, waiters
  <1>4. Phase[t] = "rejected"
    BY <1>1, PhaseFacts
  <1>5. \A u \in Tasks \ {t} : Phase'[u] = Phase[u]
    BY <1>1, <1>3 DEF Phase, IInv, TypeOK
  <1>6. Phase'[t] = "out"
    BY <1>1, <1>3 DEF Phase, IInv, TypeOK
  <1>7. Phase' = [Phase EXCEPT ![t] = "out"]
    BY <1>5, <1>6, PhaseUpdates
  <1>8. Stale' = Stale
    BY <1>3 DEF Stale
  <1>9. QED
    BY <1>3, <1>4, <1>7, <1>8 DEF Turn!Report

(* Whatever a cancelled task finds, it is a step of the abstract turn.     *)
LEMMA CancelledRefines ==
    ASSUME NEW t \in Tasks, IInv, IInv', CancelledInQueue(t)
    PROVE  Turn!Withdraw(t) \/ Turn!Leave(t) \/ Turn!Report(t)
  <1>1. CASE Queued(t)
    BY <1>1, WithdrawRefines
  <1>2. CASE ~Queued(t) /\ owner = t
    <2>1. /\ HandOver(queue) /\ pc' = [pc EXCEPT ![t] = "outside"]
          /\ UNCHANGED <<generation, waiterGeneration>>
      BY <1>2 DEF CancelledInQueue
    <2>2. QED
      BY <1>2, <2>1, HandOverRefines
  <1>3. CASE ~Queued(t) /\ owner # t
    BY <1>3, ReportRefines
  <1>4. QED
    BY <1>1, <1>2, <1>3

(* invalidate() retires the line and marks the owner.                      *)
LEMMA InvalidateRefines ==
    ASSUME IInv, IInv', Invalidate
    PROVE  Turn!Retire
  <1>1. /\ generation' = generation + 1 /\ queue' = <<>>
        /\ future' = [t \in Tasks |-> IF Queued(t) THEN "closed" ELSE future[t]]
        /\ UNCHANGED <<owner, ownerGeneration, waiterGeneration, pc>>
    BY DEF Invalidate, turn
  <1>2. \A t \in Tasks : owner = t => ownerGeneration # generation'
    <2> SUFFICES ASSUME NEW t \in Tasks, owner = t
                 PROVE  ownerGeneration # generation'
      OBVIOUS
    <2>1. ownerGeneration = waiterGeneration[t] /\ waiterGeneration[t] <= generation
      BY TasksAssumption DEF IInv, OwnerIsExact, NoneIsAhead
    <2>2. waiterGeneration[t] \in Nat /\ generation \in Nat
      BY DEF IInv, TypeOK
    <2>3. QED
      BY <1>1, <2>1, <2>2
  <1>3. Stale' = {t \in Tasks : Phase[t] = "turn"}
    <2>1. \A t \in Tasks : owner' = t /\ ownerGeneration' # generation'
                           <=> Phase[t] = "turn"
      BY <1>1, <1>2, PhaseFacts
    <2>2. Stale' = {t \in Tasks : owner' = t /\ ownerGeneration' # generation'}
      BY DEF Stale
    <2> HIDE DEF Stale, Phase
    <2>3. QED
      BY <2>1, <2>2
  <1>4. Phase' = [t \in Tasks |->
                    IF Phase[t] = "waiting" THEN "rejected" ELSE Phase[t]]
    <2>1. ASSUME NEW t \in Tasks
          PROVE  Phase'[t] = IF Phase[t] = "waiting" THEN "rejected" ELSE Phase[t]
      <3>1. CASE Queued(t)
        <4>1. Phase[t] = "waiting" /\ pc[t] = "waiting"
          BY <3>1, PhaseFacts DEF Waits
        <4>2. owner # t
          BY <4>1, PhaseFacts
        <4>3. future'[t] = "closed" /\ pc'[t] = "waiting" /\ owner' # t
          BY <1>1, <3>1, <4>1, <4>2
        <4>4. Phase'[t] = "rejected"
          BY <4>3 DEF Phase
        <4>5. QED
          BY <4>1, <4>4
      <3>2. CASE ~Queued(t)
        <4>1. Phase[t] # "waiting"
          BY <3>2, PhaseFacts
        <4>2. future'[t] = future[t] /\ pc' = pc /\ owner' = owner
          BY <1>1, <3>2
        <4>3. Phase'[t] = Phase[t]
          BY <4>2 DEF Phase
        <4>4. QED
          BY <4>1, <4>3
      <3>3. QED
        BY <3>1, <3>2
    <2>2. Phase' = [t \in Tasks |-> Phase'[t]]
      BY DEF Phase
    <2> HIDE DEF Phase
    <2>3. QED
      BY <2>1, <2>2
  <1>5. QED
    BY <1>1, <1>3, <1>4 DEF Turn!Retire

(* Waking up, nesting and being asked to stop do not show.                 *)
LEMMA LocalStepStutters ==
    ASSUME NEW t \in Tasks, IInv, IInv',
           EnterNested(t) \/ Cancel(t) \/ Admitted(t) \/ ExitNested(t)
    PROVE  UNCHANGED Turn!turnVars
  <1>1. UNCHANGED <<owner, ownerGeneration, queue, generation, future>>
    BY DEF EnterNested, Cancel, Admitted, ExitNested, waiters, turn
  <1>2. \A u \in Tasks : pc'[u] = pc[u] \/ owner = u
    BY DEF EnterNested, Cancel, Admitted, ExitNested, IInv, TypeOK
  <1>3. \A u \in Tasks : Phase'[u] = Phase[u]
    BY <1>1, <1>2 DEF Phase
  <1>4. Phase' = Phase
    <2>1. Phase' = [u \in Tasks |-> Phase'[u]] /\ Phase = [u \in Tasks |-> Phase[u]]
      BY DEF Phase
    <2> HIDE DEF Phase
    <2>2. QED
      BY <1>3, <2>1
  <1>5. Stale' = Stale
    BY <1>1 DEF Stale
  <1>6. QED
    BY <1>1, <1>4, <1>5 DEF Turn!turnVars

(* The asyncio admission implements the abstract turn, with cancellation   *)
(* at every suspension: a cancelled waiter withdraws, or leaves at once if *)
(* the turn had already been handed to it.                                 *)
THEOREM RefinesFifoTurn == Spec => ImplementsFifoTurn
  <1>1. Init => Turn!TurnInit
    <2> SUFFICES ASSUME Init PROVE Turn!TurnInit
      OBVIOUS
    <2>1. Phase = [t \in Tasks |-> "out"] /\ Stale = {}
      BY TasksAssumption DEF Init, Phase, Stale
    <2>2. QED
      BY <2>1 DEF Init, Turn!TurnInit
  <1>2. IInv /\ IInv' /\ [Next]_vars => [Turn!TurnNext]_(Turn!turnVars)
    <2> SUFFICES ASSUME IInv, IInv', [Next]_vars
                 PROVE  [Turn!TurnNext]_(Turn!turnVars)
      OBVIOUS
    <2>1. CASE UNCHANGED vars
      BY <2>1 DEF vars, Turn!turnVars, Phase, Stale
    <2>2. CASE Invalidate
      BY <2>2, InvalidateRefines DEF Turn!TurnNext
    <2>3. ASSUME NEW t \in Tasks, Step(t)
          PROVE  [Turn!TurnNext]_(Turn!turnVars)
      <3>1. CASE EnterFree(t) \/ EnterBusy(t)
        BY <3>1, EnterRefines DEF Turn!TurnNext
      <3>2. CASE CancelledInQueue(t)
        BY <3>2, CancelledRefines DEF Turn!TurnNext
      <3>3. CASE Rejected(t)
        <4>1. pc[t] = "waiting" /\ future[t] = "closed"
          BY <3>3 DEF Rejected
        <4>2. ~Queued(t) /\ owner # t
          BY <4>1 DEF IInv, OwnerIsExact, QueueIsExact
        <4>3. QED
          BY <3>3, <4>2, ReportRefines DEF Turn!TurnNext
      <3>4. CASE Exit(t)
        <4>1. /\ owner = t /\ HandOver(queue)
              /\ pc' = [pc EXCEPT ![t] = "outside"]
              /\ UNCHANGED <<generation, waiterGeneration>>
          BY <3>4 DEF Exit
        <4>2. QED
          BY <4>1, HandOverRefines DEF Turn!TurnNext
      <3>5. CASE EnterNested(t) \/ Cancel(t) \/ Admitted(t) \/ ExitNested(t)
        BY <3>5, LocalStepStutters
      <3>6. QED
        BY <2>3, <3>1, <3>2, <3>3, <3>4, <3>5 DEF Step, Resume
    <2>4. QED
      BY <2>1, <2>2, <2>3 DEF Next
  <1>3. QED
    BY <1>1, <1>2, Invariance, PTL
    DEF Spec, ImplementsFifoTurn, Turn!TurnSpec
=============================================================================
