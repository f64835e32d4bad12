------------------------ MODULE SyncAdmission_proofs ------------------------
(***************************************************************************)
(* Proofs about the threading turn of HostLinkClient, for every set of     *)
(* threads and every bound on closes and nesting.                          *)
(***************************************************************************)
EXTENDS SyncAdmission, TLAPS

(* What appending a thread does to a queue, index by index.                *)
LEMMA AppendFacts ==
    ASSUME NEW q \in Seq(Threads), NEW t \in Threads
    PROVE  /\ Append(q, t) \in Seq(Threads)
           /\ Len(q) \in Nat
           /\ Len(Append(q, t)) = Len(q) + 1
           /\ \A i \in 1..Len(q) : q[i] \in Threads /\ Append(q, t)[i] = q[i]
           /\ Append(q, t)[Len(q) + 1] = t
  OBVIOUS

(* What taking the head of a nonempty queue does to it.                    *)
LEMMA TailFacts ==
    ASSUME NEW q \in Seq(Threads), q # <<>>
    PROVE  /\ Len(q) \in Nat
           /\ Len(q) > 0
           /\ Head(q) = q[1]
           /\ Head(q) \in Threads
           /\ Tail(q) \in Seq(Threads)
           /\ Len(Tail(q)) = Len(q) - 1
           /\ \A i \in 1..Len(Tail(q)) : Tail(q)[i] = q[i + 1]
  OBVIOUS

NoRepeats(q) == \A i, j \in 1..Len(q) : q[i] = q[j] => i = j
Holds(q, t) == \E i \in 1..Len(q) : q[i] = t

(* Appending a thread that a queue does not hold adds just that thread.    *)
LEMMA AppendNew ==
    ASSUME NEW q \in Seq(Threads), NEW t \in Threads,
           NoRepeats(q), ~Holds(q, t)
    PROVE  /\ NoRepeats(Append(q, t))
           /\ \A u \in Threads : Holds(Append(q, t), u) <=> Holds(q, u) \/ u = t
  <1> DEFINE r == Append(q, t)
  <1>1. /\ Len(q) \in Nat /\ Len(r) = Len(q) + 1 /\ r[Len(q) + 1] = t
        /\ \A i \in 1..Len(q) : r[i] = q[i]
    BY AppendFacts
  <1>2. \A i \in 1..Len(r) : i \in 1..Len(q) \/ i = Len(q) + 1
    BY <1>1
  <1>3. \A i \in 1..Len(q) : i \in 1..Len(r)
    BY <1>1
  <1>4. Len(q) + 1 \in 1..Len(r)
    BY <1>1
  <1> HIDE DEF r
  <1>5. NoRepeats(r)
    BY <1>1, <1>2 DEF NoRepeats, Holds
  <1>6. ASSUME NEW u \in Threads PROVE Holds(r, u) <=> Holds(q, u) \/ u = t
    BY <1>1, <1>2, <1>3, <1>4 DEF Holds
  <1>7. QED
    BY <1>5, <1>6 DEF r

(* Taking the head of a queue without repetitions removes just the head.   *)
LEMMA TailRemoves ==
    ASSUME NEW q \in Seq(Threads), q # <<>>, NoRepeats(q)
    PROVE  /\ NoRepeats(Tail(q))
           /\ \A u \in Threads : Holds(Tail(q), u) <=> Holds(q, u) /\ u # Head(q)
           /\ Holds(q, Head(q))
  <1> DEFINE r == Tail(q)
  <1>1. /\ Len(q) \in Nat /\ Len(q) > 0 /\ Len(r) = Len(q) - 1
        /\ Head(q) = q[1]
        /\ \A i \in 1..Len(r) : r[i] = q[i + 1]
    BY TailFacts
  <1>2. \A i \in 1..Len(r) : i + 1 \in 1..Len(q) /\ i + 1 # 1
    BY <1>1
  <1>3. \A i \in 1..Len(q) : i = 1 \/ (i - 1 \in 1..Len(r) /\ r[i - 1] = q[i])
    BY <1>1
  <1>4. 1 \in 1..Len(q)
    BY <1>1
  <1> HIDE DEF r
  <1>5. NoRepeats(r)
    <2>1. SUFFICES ASSUME NEW i \in 1..Len(r), NEW j \in 1..Len(r), r[i] = r[j]
                   PROVE  i = j
      BY DEF NoRepeats
    <2>2. i + 1 = j + 1
      BY <1>1, <1>2, <2>1 DEF NoRepeats
    <2>3. QED
      BY <2>2, <1>1
  <1>6. ASSUME NEW u \in Threads PROVE Holds(r, u) <=> Holds(q, u) /\ u # Head(q)
    <2>1. Holds(r, u) => Holds(q, u) /\ u # Head(q)
      BY <1>1, <1>2, <1>4 DEF Holds, NoRepeats
    <2>2. Holds(q, u) /\ u # Head(q) => Holds(r, u)
      BY <1>1, <1>3 DEF Holds
    <2>3. QED
      BY <2>1, <2>2
  <1>7. QED
    BY <1>1, <1>4, <1>5, <1>6 DEF r, Holds

(* The types of everything but _active, which is the only Boolean.         *)
RestOK ==
    /\ queue \in Seq(Threads)
    /\ generation \in Nat
    /\ waiterGeneration \in [Threads -> Nat]
    /\ event \in [Threads -> {"clear", "set", "error"}]
    /\ depth \in [Threads -> Nat]
    /\ localGeneration \in [Threads -> Nat]
    /\ pc \in [Threads -> {"outside", "waiting", "inside"}]

(* The state of SyncAdmission stays within its types.                      *)
THEOREM TypeCorrect == Spec => []TypeOK
  <1>1. Init => TypeOK
    <2>1. Init => active \in BOOLEAN
      BY DEF Init
    <2>2. Init => RestOK
      BY DEF Init, RestOK
    <2>3. QED
      BY <2>1, <2>2 DEF TypeOK, RestOK
  <1>2. TypeOK /\ [Next]_vars => TypeOK'
    <2> SUFFICES ASSUME active \in BOOLEAN, RestOK, [Next]_vars
                 PROVE  (active \in BOOLEAN)' /\ RestOK'
      BY DEF TypeOK, RestOK
    <2>1. (active \in BOOLEAN)'
      BY DEF Next, Step, Enter, EnterIf, Admitted, Rejected, EnterNested, ExitNested,
             Exit, Invalidate, vars, shared
    <2>2. RestOK'
      <3> USE DEF RestOK, shared, waiters, locals
      <3>1. ASSUME NEW t \in Threads, Enter(t) PROVE RestOK'
        <4>1. Append(queue, t) \in Seq(Threads)
          BY AppendFacts
        <4>2. queue' \in Seq(Threads)
          BY <3>1, <4>1 DEF Enter, EnterIf
        <4>3. QED
          BY <3>1, <4>2 DEF Enter, EnterIf
      <3>2. ASSUME NEW t \in Threads, Admitted(t) PROVE RestOK'
        BY <3>2 DEF Admitted
      <3>3. ASSUME NEW t \in Threads, Rejected(t) PROVE RestOK'
        BY <3>3 DEF Rejected
      <3>4. ASSUME NEW t \in Threads, EnterNested(t) PROVE RestOK'
        BY <3>4 DEF EnterNested
      <3>5. ASSUME NEW t \in Threads, ExitNested(t) PROVE RestOK'
        BY <3>5 DEF ExitNested
      <3>6. ASSUME NEW t \in Threads, Exit(t) PROVE RestOK'
        <4>1. queue # <<>> => Tail(queue) \in Seq(Threads) /\ Head(queue) \in Threads
          BY TailFacts
        <4>2. queue' \in Seq(Threads)
          BY <3>6, <4>1 DEF Exit, Successor
        <4>3. event' \in [Threads -> {"clear", "set", "error"}]
          BY <3>6, <4>1 DEF Exit, Successor
        <4>4. QED
          BY <3>6, <4>2, <4>3 DEF Exit
      <3>7. CASE Invalidate
        BY <3>7 DEF Invalidate
      <3>8. CASE UNCHANGED vars
        BY <3>8 DEF vars
      <3>9. QED
        BY <3>1, <3>2, <3>3, <3>4, <3>5, <3>6, <3>7, <3>8 DEF Next, Step
    <2>3. QED
      BY <2>1, <2>2
  <1>3. QED
    BY <1>1, <1>2, PTL DEF Spec

(* None of the four properties is inductive alone: that nobody is handed a *)
(* taken turn needs the queue to hold exactly the blocked threads, and the *)
(* queue stays exact because only a thread outside can be appended.        *)
IInv ==
    /\ TypeOK
    /\ MutualExclusion
    /\ NoLostTurn
    /\ QueueIsCurrent
    /\ QueueIsExact

(* A free turn with an empty queue satisfies the inductive invariant.      *)
LEMMA InitIInv == Init /\ TypeOK => IInv
  <1> SUFFICES ASSUME Init, TypeOK PROVE IInv
    OBVIOUS
  <1>1. Len(queue) = 0 /\ \A t \in Threads : ~HasTurn(t)
    BY DEF Init, HasTurn
  <1>2. MutualExclusion /\ NoLostTurn
    BY <1>1 DEF Init, MutualExclusion, NoLostTurn
  <1>3. QueueIsCurrent
    BY <1>1 DEF Init, QueueIsCurrent
  <1>4. QueueIsExact
    BY <1>1 DEF Init, QueueIsExact, Queued
  <1>5. QED
    BY <1>2, <1>3, <1>4 DEF IInv

(* Entering an idle admission takes the turn, entering a busy one queues.  *)
LEMMA EnterIInv ==
    ASSUME NEW t \in Threads, IInv, TypeOK', Enter(t)
    PROVE  IInv'
  <1> USE DEF IInv, TypeOK, HasTurn, Queued, shared, waiters, locals
  <1>1. CASE ~active /\ queue = <<>>
    <2>1. MutualExclusion' /\ NoLostTurn'
      BY <1>1 DEF Enter, EnterIf, MutualExclusion, NoLostTurn
    <2>2. QueueIsCurrent' /\ QueueIsExact'
      BY <1>1 DEF Enter, EnterIf, QueueIsCurrent, QueueIsExact
    <2>3. QED
      BY <2>1, <2>2
  <1>2. CASE ~(~active /\ queue = <<>>)
    <2>1. queue' = Append(queue, t) /\ active' = active
      BY <1>2 DEF Enter, EnterIf
    <2>2. MutualExclusion' /\ NoLostTurn'
      <3>1. /\ event' = [event EXCEPT ![t] = "clear"]
            /\ pc' = [pc EXCEPT ![t] = "waiting"] /\ pc[t] = "outside"
        BY <1>2 DEF Enter, EnterIf
      <3>2. \A u \in Threads : HasTurn(u)' <=> HasTurn(u)
        BY <3>1
      <3> HIDE DEF HasTurn
      <3>3. MutualExclusion'
        BY <3>2 DEF MutualExclusion
      <3>4. active
        BY <1>2 DEF NoLostTurn
      <3>5. NoLostTurn'
        BY <2>1, <3>2, <3>4 DEF NoLostTurn
      <3>6. QED
        BY <3>3, <3>5
    <2>3. ~Queued(t) /\ NoRepeats(queue)
      BY DEF Enter, EnterIf, QueueIsExact, NoRepeats
    <2>4. /\ NoRepeats(queue')
          /\ \A u \in Threads : Queued(u)' <=> Queued(u) \/ u = t
      BY <2>1, <2>3, AppendNew, SMTT(30) DEF Holds
    <2>5. QueueIsCurrent' /\ QueueIsExact'
      <3> HIDE DEF Queued
      <3>1. QueueIsCurrent'
        BY <2>4 DEF Enter, EnterIf, QueueIsCurrent
      <3>2. \A u \in Threads : pc'[u] = "waiting" /\ event'[u] = "clear"
                               <=> (pc[u] = "waiting" /\ event[u] = "clear") \/ u = t
        BY <1>2, SMTT(30) DEF Enter, EnterIf
      <3>3. QED
        BY <2>4, <3>1, <3>2 DEF QueueIsExact, NoRepeats
    <2>6. QED
      BY <2>2, <2>5
  <1>3. QED
    BY <1>1, <1>2

(* The outermost exit passes the turn to the head of the queue, which is   *)
(* blocked and current, or frees it.                                       *)
LEMMA ExitIInv ==
    ASSUME NEW t \in Threads, IInv, TypeOK', Exit(t)
    PROVE  IInv'
  <1> USE DEF IInv, TypeOK, HasTurn, Queued, shared, waiters, locals
  <1>1. CASE queue = <<>>
    <2>1. MutualExclusion' /\ NoLostTurn'
      BY <1>1 DEF Exit, MutualExclusion, NoLostTurn
    <2>2. QueueIsCurrent' /\ QueueIsExact'
      BY <1>1 DEF Exit, QueueIsCurrent, QueueIsExact
    <2>3. QED
      BY <2>1, <2>2
  <1>2. CASE queue # <<>>
    <2> DEFINE h == Head(queue)
    <2>1. h \in Threads /\ queue' = Tail(queue) /\ NoRepeats(queue)
      BY <1>2, TailFacts DEF Exit, QueueIsExact, NoRepeats
    <2>b. /\ NoRepeats(queue') /\ Queued(h)
          /\ \A u \in Threads : Queued(u)' <=> Queued(u) /\ u # h
      BY <1>2, <2>1, TailRemoves DEF Holds
    <2> HIDE DEF Queued
    <2>2. pc[h] = "waiting" /\ event[h] = "clear" /\ h # t
      BY <2>1, <2>b DEF Exit, QueueIsExact
    <2>3. \A u \in Threads : HasTurn(u)' <=> u = h
      BY <1>2, <2>1, <2>2, SMTT(30) DEF Exit, Successor, MutualExclusion
    <2>4. MutualExclusion' /\ NoLostTurn'
      BY <1>2, <2>1, <2>3 DEF Exit, MutualExclusion, NoLostTurn
    <2>5. QueueIsCurrent'
      BY <2>b DEF Exit, QueueIsCurrent
    <2>6. \A u \in Threads : pc'[u] = "waiting" /\ event'[u] = "clear"
                             <=> (pc[u] = "waiting" /\ event[u] = "clear") /\ u # h
      BY <1>2, <2>1, <2>2 DEF Exit, Successor
    <2>7. QueueIsExact'
      BY <2>b, <2>6 DEF QueueIsExact, NoRepeats
    <2>8. QED
      BY <2>4, <2>5, <2>7
  <1>3. QED
    BY <1>1, <1>2

(* invalidate() empties the queue and wakes everybody it held.             *)
LEMMA InvalidateIInv ==
    ASSUME IInv, TypeOK', Invalidate
    PROVE  IInv'
  <1> USE DEF IInv, TypeOK, HasTurn, Queued, shared, waiters, locals
  <1>1. \A u \in Threads : HasTurn(u)' <=> HasTurn(u)
    BY DEF Invalidate, QueueIsExact
  <1>2. MutualExclusion' /\ NoLostTurn'
    BY <1>1 DEF Invalidate, MutualExclusion, NoLostTurn
  <1>3. QueueIsCurrent' /\ QueueIsExact'
    BY DEF Invalidate, QueueIsCurrent, QueueIsExact
  <1>4. QED
    BY <1>2, <1>3

(* The other steps touch neither the queue nor who has the turn.           *)
LEMMA LocalStepIInv ==
    ASSUME NEW t \in Threads, IInv, TypeOK',
           \/ Admitted(t) \/ Rejected(t) \/ EnterNested(t) \/ ExitNested(t)
    PROVE  IInv'
  <1> USE DEF IInv, TypeOK, HasTurn, Queued, shared, waiters, locals
  <1>1. /\ UNCHANGED <<active, queue, generation, waiterGeneration>>
        /\ \A u \in Threads : HasTurn(u)' <=> HasTurn(u)
        /\ \A u \in Threads : pc'[u] = "waiting" /\ event'[u] = "clear"
                               <=> pc[u] = "waiting" /\ event[u] = "clear"
    BY DEF Admitted, Rejected, EnterNested, ExitNested
  <1>2. MutualExclusion' /\ NoLostTurn'
    BY <1>1 DEF MutualExclusion, NoLostTurn
  <1>3. QueueIsCurrent' /\ QueueIsExact'
    BY <1>1 DEF QueueIsCurrent, QueueIsExact
  <1>4. QED
    BY <1>2, <1>3

(* The inductive invariant holds in every reachable state.                 *)
THEOREM Invariance == Spec => []IInv
  <1>1. TypeOK /\ TypeOK' /\ IInv /\ [Next]_vars => IInv'
    <2> SUFFICES ASSUME TypeOK', IInv, [Next]_vars PROVE IInv'
      OBVIOUS
    <2>1. CASE UNCHANGED vars
      BY <2>1 DEF vars, IInv, TypeOK, MutualExclusion, NoLostTurn,
                  QueueIsCurrent, QueueIsExact, HasTurn, Queued
    <2>2. CASE Invalidate
      BY <2>2, InvalidateIInv
    <2>3. ASSUME NEW t \in Threads, Step(t) PROVE IInv'
      BY <2>3, EnterIInv, ExitIInv, LocalStepIInv DEF Step
    <2>4. QED
      BY <2>1, <2>2, <2>3 DEF Next
  <1>2. QED
    BY <1>1, InitIInv, TypeCorrect, PTL DEF Spec

(* No waiter carries a generation that does not exist yet.                 *)
NoneIsAhead == \A t \in Threads : waiterGeneration[t] <= generation

(* The generation a waiter has taken is one that close() has already made. *)
LEMMA GenerationsBehind == Spec => []NoneIsAhead
  <1>1. Init => NoneIsAhead
    <2> SUFFICES ASSUME Init, NEW t \in Threads
                 PROVE  waiterGeneration[t] <= generation
      BY DEF NoneIsAhead
    <2>1. generation = 0 /\ waiterGeneration[t] = 0
      BY DEF Init
    <2>2. QED
      BY <2>1
  <1>2. TypeOK /\ NoneIsAhead /\ [Next]_vars => NoneIsAhead'
    <2>1. [Next]_vars =>
            \/ UNCHANGED <<generation, waiterGeneration>>
            \/ /\ generation' = generation
               /\ \E t \in Threads :
                    waiterGeneration' = [waiterGeneration EXCEPT ![t] = generation]
            \/ generation' = generation + 1 /\ UNCHANGED waiterGeneration
      BY DEF Next, Step, Enter, EnterIf, Admitted, Rejected, EnterNested, ExitNested,
             Exit, Invalidate, vars, shared, waiters
    <2>2. generation \in Nat /\ waiterGeneration \in [Threads -> Nat]
          /\ NoneIsAhead /\ [Next]_vars => NoneIsAhead'
      BY <2>1 DEF NoneIsAhead
    <2>3. QED
      BY <2>2 DEF TypeOK
  <1>3. QED
    BY <1>1, <1>2, TypeCorrect, PTL DEF Spec

(* Two threads never hold the turn of one client together.                 *)
THEOREM TurnIsExclusive == Spec => []MutualExclusion
  BY Invariance, PTL DEF IInv

(* The turn is never lost between a hand-over and a close.                 *)
THEOREM TurnIsNotLost == Spec => []NoLostTurn
  BY Invariance, PTL DEF IInv

(* Work that close() retired is never handed the turn.                     *)
THEOREM HandOverIsCurrent == Spec => []QueueIsCurrent
  BY Invariance, PTL DEF IInv

-----------------------------------------------------------------------------
(* What each reachable state of a thread looks like in the abstract turn.  *)
LEMMA PhaseFacts ==
    ASSUME TypeOK
    PROVE  /\ Phase \in [Threads -> {"out", "turn", "waiting", "rejected"}]
           /\ \A t \in Threads :
                /\ Phase[t] = "out" <=> pc[t] = "outside"
                /\ Phase[t] = "turn" <=> HasTurn(t)
                /\ Phase[t] = "waiting" <=> pc[t] = "waiting" /\ event[t] = "clear"
                /\ Phase[t] = "rejected" <=> pc[t] = "waiting" /\ event[t] = "error"
  BY DEF TypeOK, Phase, HasTurn

(* The turn is free in the abstract sense exactly when _active is false.   *)
LEMMA FreeMeansInactive ==
    ASSUME IInv PROVE Turn!Free <=> ~active
  BY PhaseFacts DEF IInv, NoLostTurn, Turn!Free

(* Entering is arriving.                                                   *)
LEMMA EnterRefines ==
    ASSUME NEW t \in Threads, IInv, TypeOK', Enter(t)
    PROVE  Turn!Arrive(t)
  <1>1. Phase[t] = "out"
    BY PhaseFacts DEF Enter, EnterIf, IInv
  <1>2. Stale' = Stale
    BY DEF Enter, EnterIf, Stale, HasTurn, IInv, TypeOK
  <1>3. CASE ~active /\ queue = <<>>
    <2>1. Phase' = [Phase EXCEPT ![t] = "turn"]
      BY <1>3, ZenonT(30) DEF Enter, EnterIf, Phase, HasTurn, IInv, TypeOK
    <2>2. QED
      BY <1>1, <1>2, <1>3, <2>1, FreeMeansInactive DEF Enter, EnterIf, Turn!Arrive
  <1>4. CASE ~(~active /\ queue = <<>>)
    <2>1. Phase' = [Phase EXCEPT ![t] = "waiting"]
      BY <1>4, ZenonT(30) DEF Enter, EnterIf, Phase, HasTurn, IInv, TypeOK
    <2>2. QED
      BY <1>1, <1>2, <1>4, <2>1, FreeMeansInactive DEF Enter, EnterIf, Turn!Arrive
  <1>5. QED
    BY <1>3, <1>4

(* The outermost exit is leaving, with the same successor.                 *)
LEMMA ExitRefines ==
    ASSUME NEW t \in Threads, IInv, TypeOK', Exit(t)
    PROVE  Turn!Leave(t)
  <1>1. Phase[t] = "turn"
    BY PhaseFacts DEF Exit, IInv, HasTurn
  <1>2. CASE queue = <<>>
    <2>1. Phase' = [Phase EXCEPT ![t] = "out"]
      BY <1>2 DEF Exit, Phase, HasTurn, IInv, TypeOK
    <2>2. Stale' = Stale \ {t}
      BY <1>2 DEF Exit, Stale, HasTurn, IInv, TypeOK
    <2>3. QED
      BY <1>1, <1>2, <2>1, <2>2 DEF Exit, Turn!Leave
  <1>3. CASE queue # <<>>
    <2> DEFINE h == Head(queue)
    <2>1. h \in Threads /\ Queued(h)
      BY <1>3, TailFacts, TailRemoves
      DEF IInv, TypeOK, QueueIsExact, NoRepeats, Holds, Queued
    <2>2. pc[h] = "waiting" /\ event[h] = "clear" /\ h # t
          /\ waiterGeneration[h] = generation
      BY <2>1 DEF Exit, IInv, QueueIsExact, QueueIsCurrent
    <2>3. /\ event' = [event EXCEPT ![h] = "set"]
          /\ pc' = [pc EXCEPT ![t] = "outside"]
          /\ queue' = Tail(queue)
          /\ UNCHANGED <<generation, waiterGeneration>>
      BY <1>3 DEF Exit, Successor
    <2> HIDE DEF h
    <2>4. Phase' = [Phase EXCEPT ![t] = "out", ![h] = "turn"]
      BY <2>1, <2>2, <2>3 DEF Phase, HasTurn, IInv, TypeOK
    <2>5. Stale' = Stale \ {t}
      BY <2>1, <2>2, <2>3 DEF Stale, HasTurn, IInv, TypeOK
    <2>6. QED
      BY <1>1, <1>3, <2>3, <2>4, <2>5 DEF Turn!Leave, h
  <1>4. QED
    BY <1>2, <1>3

(* invalidate() retires the line and marks the owner.                      *)
LEMMA InvalidateRefines ==
    ASSUME IInv, NoneIsAhead, TypeOK', Invalidate
    PROVE  Turn!Retire
  <1>1. \A t \in Threads : HasTurn(t)' <=> HasTurn(t)
    BY DEF Invalidate, HasTurn, IInv, TypeOK, QueueIsExact
  <1>2. \A t \in Threads : HasTurn(t) => waiterGeneration[t] # generation'
    BY DEF Invalidate, IInv, TypeOK, NoneIsAhead
  <1>3. Stale' = {t \in Threads : Phase[t] = "turn"}
    BY <1>1, <1>2, PhaseFacts DEF Invalidate, Stale, IInv
  <1>4. Phase' = [t \in Threads |->
                    IF Phase[t] = "waiting" THEN "rejected" ELSE Phase[t]]
    BY DEF Invalidate, Phase, HasTurn, IInv, TypeOK, QueueIsExact
  <1>5. QED
    BY <1>3, <1>4 DEF Invalidate, Turn!Retire

(* Raising waiter.error is the report of a rejection.                      *)
LEMMA RejectedRefines ==
    ASSUME NEW t \in Threads, IInv, TypeOK', Rejected(t)
    PROVE  Turn!Report(t)
  <1>1. Phase[t] = "rejected"
    BY PhaseFacts DEF Rejected, IInv
  <1>b. Phase' = [Phase EXCEPT ![t] = "out"]
    <2>1. UNCHANGED event /\ pc' = [pc EXCEPT ![t] = "outside"]
      BY DEF Rejected, waiters
    <2>2. QED
      BY <2>1 DEF Phase, HasTurn, IInv, TypeOK
  <1>2. Stale' = Stale
    BY DEF Rejected, Stale, HasTurn, IInv, TypeOK, shared, waiters
  <1>3. QED
    BY <1>1, <1>b, <1>2 DEF Rejected, Turn!Report, shared

(* Waking up, nesting and unnesting do not show in the abstract turn.      *)
LEMMA LocalStepStutters ==
    ASSUME NEW t \in Threads, IInv, TypeOK',
           Admitted(t) \/ EnterNested(t) \/ ExitNested(t)
    PROVE  UNCHANGED Turn!turnVars
  <1>1. UNCHANGED <<queue, generation, waiterGeneration, event>>
    BY DEF Admitted, EnterNested, ExitNested, shared, waiters
  <1>2. Phase' = Phase
    BY <1>1 DEF Admitted, EnterNested, ExitNested, Phase, HasTurn, IInv, TypeOK
  <1>3. Stale' = Stale
    BY <1>1 DEF Admitted, EnterNested, ExitNested, Stale, HasTurn, IInv, TypeOK
  <1>4. QED
    BY <1>1, <1>2, <1>3 DEF Turn!turnVars

(* The admission of the threading client implements the abstract turn:     *)
(* every step of Enter, Exit and invalidate() is a step of it or stutters. *)
THEOREM RefinesFifoTurn == Spec => ImplementsFifoTurn
  <1>1. Init => Turn!TurnInit
    BY DEF Init, Turn!TurnInit, Phase, Stale, HasTurn
  <1>2. IInv /\ NoneIsAhead /\ TypeOK' /\ [Next]_vars
        => [Turn!TurnNext]_(Turn!turnVars)
    <2> SUFFICES ASSUME IInv, NoneIsAhead, TypeOK', [Next]_vars
                 PROVE  [Turn!TurnNext]_(Turn!turnVars)
      OBVIOUS
    <2>1. CASE UNCHANGED vars
      BY <2>1 DEF vars, Turn!turnVars, Phase, Stale, HasTurn
    <2>2. CASE Invalidate
      BY <2>2, InvalidateRefines DEF Turn!TurnNext
    <2>3. ASSUME NEW t \in Threads, Step(t)
          PROVE  [Turn!TurnNext]_(Turn!turnVars)
      BY <2>3, EnterRefines, ExitRefines, RejectedRefines, LocalStepStutters
      DEF Step, Turn!TurnNext
    <2>4. QED
      BY <2>1, <2>2, <2>3 DEF Next
  <1>3. QED
    BY <1>1, <1>2, Invariance, TypeCorrect, GenerationsBehind, PTL
    DEF Spec, ImplementsFifoTurn, Turn!TurnSpec
=============================================================================
