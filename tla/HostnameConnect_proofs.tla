------------------------ MODULE HostnameConnect_proofs ------------------------
(***************************************************************************)
(* Theorems about HostnameConnect, for every number of attempts and closes. *)
(* The invariant speaks of one attempt at a time: every step of a worker   *)
(* changes its own attempt only.                                           *)
(***************************************************************************)
EXTENDS HostnameConnect, TLAPS

\* The worker has the socket it will hand over or close.
Busy == {"created", "connecting", "configuring", "publishing"}

(* What holds of attempt a besides the two invariants.                     *)
Sound(a) ==
    /\ a > begun => attempt[a] = NotBegun
    /\ attempt[a].worker = "none" => a > begun
    /\ attempt[a].worker \in Busy =>
         attempt[a].sock = "open" /\ ~attempt[a].done
    /\ attempt[a].worker = "resolving" =>
         attempt[a].sock = "none" /\ ~attempt[a].done
    /\ attempt[a].worker = "failing" =>
         ~attempt[a].done /\ attempt[a].reason # "none"
    /\ attempt[a].worker \in {"failing", "disposing"} =>
         attempt[a].sock # "closed"
    /\ attempt[a].worker = "failing" /\ attempt[a].reason = "closed" =>
         attempt[a].abandoned
    /\ attempt[a].handed =>
         /\ attempt[a].worker = "ended"
         /\ attempt[a].done /\ attempt[a].error = "none"
         /\ call.at = "waiting" /\ call.attempt = a
    /\ call.at = "waiting" /\ call.attempt = a =>
         /\ ~attempt[a].abandoned
         /\ attempt[a].done /\ attempt[a].error = "none" => attempt[a].handed
    /\ call.at = "adopting" /\ call.attempt = a => ~attempt[a].abandoned
    /\ call.at # "idle" /\ call.attempt = a => a <= begun
    /\ ~attempt[a].done /\ ~attempt[a].abandoned /\ a <= begun =>
         call.at = "waiting" /\ call.attempt = a
    /\ attempt[a].worker \in {"disposing", "ended"} =>
         attempt[a].done \/ attempt[a].abandoned
    /\ /\ attempt[a].worker = "ended"
       /\ attempt[a].abandoned \/ attempt[a].error # "none"
       => attempt[a].sock # "open"

OneHolder(a) ==
    /\ attempt[a].sock = "open" <=> \E h \in Holders : Holds(a, h)
    /\ \A h, k \in Holders : Holds(a, h) /\ Holds(a, k) => h = k

WithoutEffect(a) ==
    Abandoned(a) => \A h \in Holders : Holds(a, h) => h = "worker"

AInv(a) == Sound(a) /\ OneHolder(a) /\ WithoutEffect(a)

(* While connect() runs, the client has no socket yet.                     *)
CallInv == call.at # "idle" => call.attempt \in Attempts /\ client = NoAttempt

IInv == TypeOK /\ CallInv /\ \A a \in Attempts : AInv(a)
-----------------------------------------------------------------------------
(* Before the first attempt nothing holds a socket.                        *)
LEMMA InitInv == Init => IInv
  BY AttemptAssumption
     DEF Init, IInv, TypeOK, CallState, AttemptState, CallInv, AInv, Sound, OneHolder, WithoutEffect,
         Holds, Holders, NotBegun, Busy, Attempts, NoAttempt, Abandoned

(* An attempt that a step does not touch keeps its part of the invariant.  *)
LEMMA Untouched ==
  ASSUME NEW b \in Attempts, AInv(b), attempt'[b] = attempt[b],
         UNCHANGED <<call, client, closer, begun>>
  PROVE  AInv(b)'
  BY DEF AInv, Sound, OneHolder, WithoutEffect, Holds, Holders, NotBegun, Busy,
         Abandoned

(* A step of worker a keeps the invariant if it keeps the part of a.       *)
LEMMA WorkerStep ==
  ASSUME NEW a \in Attempts, IInv, WorkerOnly, TypeOK', AInv(a)',
         \A b \in Attempts \ {a} : attempt'[b] = attempt[b]
  PROVE  IInv'
  <1>1. ASSUME NEW b \in Attempts PROVE AInv(b)'
    <2>1. CASE b = a
      BY <2>1
    <2>2. CASE b # a
      BY <2>2, Untouched DEF IInv, WorkerOnly
    <2> QED BY <2>1, <2>2
  <1> QED BY <1>1 DEF IInv, CallInv, WorkerOnly

(* The attempt function after one attempt has changed to r.                *)
LEMMA Update ==
  ASSUME TypeOK, NEW a \in Attempts, NEW r \in AttemptState,
         attempt' = [attempt EXCEPT ![a] = r]
  PROVE  /\ attempt' \in [Attempts -> AttemptState]
         /\ attempt'[a] = r
         /\ \A b \in Attempts \ {a} : attempt'[b] = attempt[b]
  BY DEF TypeOK

(* A step of the caller keeps the invariant if it keeps the part of its    *)
(* own attempt, of which alone it changes the state and the holders.       *)
LEMMA CallerStep ==
  ASSUME IInv, NEW a \in Attempts, call.attempt = a, call'.attempt = a,
         client = NoAttempt, client' \in {NoAttempt, a}, CallerOnly,
         TypeOK', CallInv', AInv(a)',
         \A b \in Attempts \ {a} : attempt'[b] = attempt[b]
  PROVE  IInv'
  <1>1. ASSUME NEW b \in Attempts, b # a PROVE AInv(b)'
    <2>1. AInv(b) /\ attempt'[b] = attempt[b] /\ client # b /\ client' # b
      BY <1>1 DEF IInv, Attempts, NoAttempt
    <2> QED
      BY <1>1, <2>1
         DEF CallerOnly, AInv, Sound, OneHolder, WithoutEffect, Holds, Holders,
             NotBegun, Busy, Abandoned
  <1> QED BY <1>1 DEF IInv

(* The worker resolves the name, or fails to.                              *)
LEMMA ResolveInv ==
  ASSUME IInv, NEW a \in Attempts, Resolve(a)
  PROVE  IInv'
  <1> USE DEF Resolve, Fails, Leaves, WorkerOnly, Worker, IInv
  <1>1. TypeOK'
    BY DEF TypeOK, AttemptState
  <1>2. \A b \in Attempts \ {a} : attempt'[b] = attempt[b]
    BY DEF TypeOK
  <1>3. AInv(a)'
    BY DEF TypeOK, AttemptState, AInv, Sound, OneHolder, WithoutEffect, Holds, Holders,
           NotBegun, Busy, Abandoned, Expired
  <1> QED BY <1>1, <1>2, <1>3, WorkerStep

(* The worker makes the socket of the attempt.                             *)
LEMMA PrepareInv ==
  ASSUME IInv, NEW a \in Attempts, Prepare(a)
  PROVE  IInv'
  <1> USE DEF Prepare, Fails, Leaves, Goes, WorkerOnly, Worker, IInv
  <1>1. TypeOK'
    BY DEF TypeOK, AttemptState, Abandoned
  <1>2. \A b \in Attempts \ {a} : attempt'[b] = attempt[b]
    BY DEF TypeOK
  <1>3. AInv(a)'
    BY DEF TypeOK, AttemptState, AInv, Sound, OneHolder, WithoutEffect, Holds, Holders,
           NotBegun, Busy, Abandoned, Expired
  <1> QED BY <1>1, <1>2, <1>3, WorkerStep

(* The worker connects its socket, or fails to.                            *)
LEMMA ConnectInv ==
  ASSUME IInv, NEW a \in Attempts, Connect(a)
  PROVE  IInv'
  <1> USE DEF Connect, Fails, Leaves, Goes, WorkerOnly, Worker, IInv
  <1>1. TypeOK'
    BY DEF TypeOK, AttemptState, Abandoned
  <1>2. \A b \in Attempts \ {a} : attempt'[b] = attempt[b]
    BY DEF TypeOK
  <1>3. AInv(a)'
    BY DEF TypeOK, AttemptState, AInv, Sound, OneHolder, WithoutEffect, Holds, Holders,
           NotBegun, Busy, Abandoned, Expired
  <1> QED BY <1>1, <1>2, <1>3, WorkerStep

(* The worker sets the options of the connected socket.                    *)
LEMMA ConfigureInv ==
  ASSUME IInv, NEW a \in Attempts, Configure(a)
  PROVE  IInv'
  <1> USE DEF Configure, Fails, Leaves, Goes, WorkerOnly, Worker, IInv
  <1>1. TypeOK'
    BY DEF TypeOK, AttemptState, Abandoned
  <1>2. \A b \in Attempts \ {a} : attempt'[b] = attempt[b]
    BY DEF TypeOK
  <1>3. AInv(a)'
    BY DEF TypeOK, AttemptState, AInv, Sound, OneHolder, WithoutEffect, Holds, Holders,
           NotBegun, Busy, Abandoned, Expired
  <1> QED BY <1>1, <1>2, <1>3, WorkerStep

(* The worker hands its socket over, unless the attempt was abandoned.     *)
LEMMA PublishInv ==
  ASSUME IInv, NEW a \in Attempts, Publish(a)
  PROVE  IInv'
  <1> USE DEF Publish, Fails, Leaves, Goes, WorkerOnly, Worker, IInv
  <1>1. TypeOK'
    BY DEF TypeOK, AttemptState, Abandoned
  <1>2. \A b \in Attempts \ {a} : attempt'[b] = attempt[b]
    BY DEF TypeOK
  <1>3. AInv(a)'
    BY DEF TypeOK, AttemptState, AInv, Sound, OneHolder, WithoutEffect, Holds, Holders,
           NotBegun, Busy, Abandoned, Expired
  <1> QED BY <1>1, <1>2, <1>3, WorkerStep

(* The worker reports its error.                                           *)
LEMMA ReportInv ==
  ASSUME IInv, NEW a \in Attempts, Report(a)
  PROVE  IInv'
  <1> USE DEF Report, Fails, Leaves, Goes, WorkerOnly, Worker, IInv
  <1>1. TypeOK'
    BY DEF TypeOK, AttemptState, Abandoned
  <1>2. \A b \in Attempts \ {a} : attempt'[b] = attempt[b]
    BY DEF TypeOK
  <1>3. AInv(a)'
    BY DEF TypeOK, AttemptState, AInv, Sound, OneHolder, WithoutEffect, Holds, Holders,
           NotBegun, Busy, Abandoned, Expired
  <1> QED BY <1>1, <1>2, <1>3, WorkerStep

(* The worker closes the socket that it could not hand over.               *)
LEMMA DisposeInv ==
  ASSUME IInv, NEW a \in Attempts, Dispose(a)
  PROVE  IInv'
  <1> DEFINE r == [attempt[a] EXCEPT
                     !.worker = "ended",
                     !.sock = IF @ = "open" THEN "closed" ELSE @]
  <1>1. attempt[a] \in AttemptState
    BY DEF IInv, TypeOK
  <1>2. r \in AttemptState /\ attempt' = [attempt EXCEPT ![a] = r]
    BY <1>1 DEF Dispose, AttemptState, IInv, TypeOK
  <1>3. /\ attempt' \in [Attempts -> AttemptState] /\ attempt'[a] = r
        /\ \A b \in Attempts \ {a} : attempt'[b] = attempt[b]
    BY <1>2, Update DEF IInv
  <1>4. TypeOK' /\ WorkerOnly
    BY <1>3 DEF IInv, TypeOK, Dispose, WorkerOnly
  <1>5. AInv(a)'
    BY <1>1, <1>3
       DEF Dispose, Worker, WorkerOnly, AttemptState, IInv, AInv, Sound,
           OneHolder, WithoutEffect, Holds, Holders, NotBegun, Busy, Abandoned
  <1> QED BY <1>3, <1>4, <1>5, WorkerStep

(* The deadline of an attempt passes.                                      *)
LEMMA ExpireInv ==
  ASSUME IInv, NEW a \in Attempts, Expire(a)
  PROVE  IInv'
  <1> DEFINE r == [attempt[a] EXCEPT !.expired = TRUE]
  <1>1. attempt[a] \in AttemptState
    BY DEF IInv, TypeOK
  <1>2. r \in AttemptState /\ attempt' = [attempt EXCEPT ![a] = r]
    BY <1>1 DEF Expire, AttemptState, IInv, TypeOK
  <1>3. /\ attempt' \in [Attempts -> AttemptState] /\ attempt'[a] = r
        /\ \A b \in Attempts \ {a} : attempt'[b] = attempt[b]
    BY <1>2, Update DEF IInv
  <1>4. TypeOK' /\ WorkerOnly
    BY <1>3 DEF IInv, TypeOK, Expire, WorkerOnly
  <1>5. AInv(a)'
    BY <1>1, <1>3
       DEF Expire, WorkerOnly, AttemptState, IInv, AInv, Sound, OneHolder,
           WithoutEffect, Holds, Holders, NotBegun, Busy, Abandoned
  <1> QED BY <1>3, <1>4, <1>5, WorkerStep

(* connect() starts the worker of a new attempt.                           *)
LEMMA BeginInv ==
  ASSUME IInv, Begin
  PROVE  IInv'
  <1>0. PICK a \in Attempts : a = begun + 1
    BY AttemptAssumption DEF IInv, TypeOK, Begin, Attempts
  <1> DEFINE r == [attempt[a] EXCEPT !.worker = "resolving"]
  <1>1. a \in Attempts /\ begun \in Nat /\ attempt[a] = NotBegun
    BY <1>0, AttemptAssumption DEF IInv, TypeOK, Attempts, AInv, Sound
  <1>2. r \in AttemptState /\ attempt' = [attempt EXCEPT ![a] = r]
    BY <1>0, <1>1 DEF Begin, AttemptState, NotBegun, IInv, TypeOK
  <1>3. /\ attempt' \in [Attempts -> AttemptState] /\ attempt'[a] = r
        /\ \A b \in Attempts \ {a} : attempt'[b] = attempt[b]
    BY <1>1, <1>2, Update DEF IInv
  <1>4. call' = [at |-> "waiting", attempt |-> a, generation |-> generation,
                 outcome |-> "none"]
        /\ begun' = a /\ UNCHANGED <<generation, client, closer>>
        /\ call.at = "idle" /\ client = NoAttempt
    BY <1>0 DEF Begin
  <1>5. TypeOK' /\ CallInv'
    BY <1>0, <1>1, <1>3, <1>4 DEF IInv, TypeOK, CallState, CallInv, Attempts
  <1>6. AInv(a)'
    <2>1. AInv(a) /\ a # NoAttempt
      BY <1>1 DEF IInv, Attempts, NoAttempt
    <2>2. ~\E h \in Holders : Holds(a, h)
      BY <1>1, <2>1 DEF AInv, OneHolder, NotBegun
    <2>3. ~\E h \in Holders : Holds(a, h)'
      BY <1>1, <1>3, <1>4, <2>1, <2>2 DEF Holders, Holds, NotBegun
    <2> QED
      BY <1>0, <1>1, <1>3, <1>4, <2>3
         DEF AInv, Sound, OneHolder, WithoutEffect, NotBegun, Busy, Abandoned
  <1>7. ASSUME NEW b \in Attempts, b # a PROVE AInv(b)'
    <2>1. AInv(b) /\ attempt'[b] = attempt[b] /\ b \in Nat
      BY <1>3, <1>7 DEF IInv, Attempts
    <2>2. \A h \in Holders : Holds(b, h)' <=> Holds(b, h)
      BY <1>4, <1>7, <2>1 DEF Holds
    <2>3. Sound(b)'
      BY <1>0, <1>1, <1>4, <1>7, <2>1 DEF AInv, Sound, NotBegun, Busy, Attempts
    <2> QED
      BY <2>1, <2>2, <2>3 DEF AInv, OneHolder, WithoutEffect, Abandoned
  <1> QED BY <1>5, <1>6, <1>7 DEF IInv

(* The waiter gives up: it abandons the attempt and closes what was handed *)
(* over.                                                                   *)
LEMMA GiveUpInv ==
  ASSUME IInv, GiveUp
  PROVE  IInv'
  <1>0. PICK a \in Attempts : a = call.attempt
    BY DEF IInv, CallInv, GiveUp
  <1> DEFINE r == [attempt[a] EXCEPT !.abandoned = TRUE]
  <1>1. a \in Attempts /\ attempt[a] \in AttemptState /\ client = NoAttempt
    BY <1>0 DEF IInv, TypeOK, CallInv, GiveUp
  <1>2. r \in AttemptState /\ attempt' = [attempt EXCEPT ![a] = r]
    BY <1>0, <1>1 DEF GiveUp, AttemptState, IInv, TypeOK
  <1>3. /\ attempt' \in [Attempts -> AttemptState] /\ attempt'[a] = r
        /\ \A b \in Attempts \ {a} : attempt'[b] = attempt[b]
    BY <1>0, <1>1, <1>2, Update DEF IInv
  <1>4. /\ call'.at = "idle" /\ call'.attempt = a /\ client' = client
        /\ CallerOnly /\ call.at = "waiting" /\ ~attempt[a].done
        /\ TypeOK' /\ CallInv'
    BY <1>0, <1>1, <1>3
       DEF GiveUp, Returns, CallerOnly, IInv, TypeOK, CallState, CallInv
  <1>5. AInv(a) /\ a \in Nat /\ begun \in Nat /\ a # NoAttempt
    BY DEF IInv, TypeOK, Attempts, NoAttempt
  <1>6. \A h \in Holders : Holds(a, h) => h = "worker"
    BY <1>0, <1>1, <1>4, <1>5
       DEF AttemptState, AInv, Sound, OneHolder, Holds, Holders, NotBegun, Busy
  <1>7. \A h \in Holders : Holds(a, h)' <=> Holds(a, h)
    BY <1>0, <1>1, <1>3, <1>4, <1>5, <1>6
       DEF AttemptState, CallerOnly, Holds, Holders
  <1>8. Sound(a)'
    BY <1>0, <1>1, <1>3, <1>4, <1>5
       DEF AttemptState, CallerOnly, AInv, Sound, NotBegun, Busy
  <1>9. AInv(a)'
    BY <1>1, <1>3, <1>5, <1>6, <1>7, <1>8
       DEF AttemptState, AInv, OneHolder, WithoutEffect
  <1> QED BY <1>0, <1>1, <1>3, <1>4, <1>9, CallerStep

(* Each of the four ways to take the result sets the attempt to some r.    *)
LEMMA TakeInv ==
  ASSUME IInv, Take
  PROVE  IInv'
  <1>0. PICK a \in Attempts : a = call.attempt
    BY DEF IInv, CallInv, Take
  <1>1. /\ a \in Attempts /\ attempt[a] \in AttemptState /\ client = NoAttempt
        /\ call.at = "waiting" /\ attempt[a].done
    BY <1>0 DEF IInv, TypeOK, CallInv, Take
  <1>2. /\ attempt \in [Attempts -> AttemptState] /\ AInv(a) /\ call \in CallState
        /\ a \in Nat /\ begun \in Nat /\ a # NoAttempt
        /\ UNCHANGED <<generation, client, closer, begun>>
    BY <1>0, <1>1 DEF IInv, TypeOK, Attempts, NoAttempt, Take, CallerOnly
  <1>3. ASSUME NEW r \in AttemptState, attempt' = [attempt EXCEPT ![a] = r],
               call'.attempt = a, call' \in CallState,
               AInv(a)'
        PROVE  IInv'
    <2>1. /\ attempt' \in [Attempts -> AttemptState] /\ attempt'[a] = r
          /\ \A b \in Attempts \ {a} : attempt'[b] = attempt[b]
      BY <1>0, <1>1, <1>3, Update DEF IInv
    <2>2. TypeOK' /\ CallInv' /\ client' = NoAttempt /\ CallerOnly
      BY <1>0, <1>1, <1>3, <2>1 DEF Take, CallerOnly, IInv, TypeOK, CallInv
    <2> QED BY <1>0, <1>1, <1>3, <2>1, <2>2, CallerStep
  <1>4. CASE /\ Returns("closed")
             /\ attempt' = [TakenAndClosed(a) EXCEPT ![a].abandoned = TRUE]
    <2> DEFINE r == [attempt[a] EXCEPT
                       !.handed = FALSE, !.abandoned = TRUE,
                       !.sock = IF attempt[a].handed THEN "closed" ELSE @]
    <2>1. r \in AttemptState
      BY <1>1 DEF AttemptState
    <2>2. attempt' = [attempt EXCEPT ![a] = r]
      BY <1>2, <1>4 DEF TakenAndClosed
    <2>3. attempt'[a] = r
      BY <1>2, <2>2
    <2>4. call' \in CallState /\ call'.at = "idle" /\ call'.attempt = a
      BY <1>0, <1>2, <1>4 DEF Returns, CallState
    <2>5. Sound(a)'
      BY <1>0, <1>1, <1>2, <2>3, <2>4
         DEF AttemptState, AInv, Sound, NotBegun, Busy
    <2>6. ASSUME attempt[a].handed PROVE AInv(a)'
      <3>1. \A h \in Holders : Holds(a, h) => h = "state"
        BY <1>2, <2>6 DEF AInv, OneHolder, Holds, Holders
      <3>2. \A h \in Holders : ~Holds(a, h)'
        BY <1>0, <1>1, <1>2, <2>3, <2>4, <2>6, <3>1
           DEF AttemptState, AInv, Sound, Holds, Holders
      <3>3. attempt'[a].sock = "closed"
        BY <1>1, <2>3, <2>6 DEF AttemptState
      <3>4. OneHolder(a)'
        BY <3>2, <3>3 DEF OneHolder
      <3>5. WithoutEffect(a)'
        BY <3>2 DEF WithoutEffect
      <3> QED
        BY <2>5, <3>4, <3>5 DEF AInv
    <2>7. ASSUME ~attempt[a].handed PROVE AInv(a)'
      <3>1. \A h \in Holders : Holds(a, h) => h = "worker"
        BY <1>0, <1>1, <1>2, <2>7
           DEF AttemptState, AInv, Sound, OneHolder, Holds, Holders, NotBegun,
               Busy
      <3>2. \A h \in Holders : Holds(a, h)' <=> Holds(a, h)
        BY <1>0, <1>1, <1>2, <2>3, <2>4, <2>7 DEF AttemptState, Holds, Holders
      <3>3. attempt'[a].sock = attempt[a].sock
        BY <1>1, <2>3, <2>7 DEF AttemptState
      <3>4. OneHolder(a)'
        BY <1>2, <3>2, <3>3 DEF AInv, OneHolder
      <3>5. WithoutEffect(a)'
        BY <3>1, <3>2 DEF WithoutEffect
      <3> QED
        BY <2>5, <3>4, <3>5 DEF AInv
    <2> QED BY <1>3, <2>1, <2>2, <2>4, <2>6, <2>7
  <1>5. CASE /\ attempt[a].error # "none"
             /\ Returns(IF attempt[a].late THEN "timeout" ELSE attempt[a].error)
             /\ UNCHANGED attempt
    <2>1. attempt' = [attempt EXCEPT ![a] = attempt[a]]
      BY <1>0, <1>1, <1>2, <1>5
    <2>2. /\ call' \in CallState
          /\ call'.at = "idle" /\ call'.attempt = a
      BY <1>0, <1>1, <1>2, <1>5 DEF Returns, CallState, AttemptState
    <2>3. AInv(a)'
      BY <1>0, <1>1, <1>2, <1>5, <2>2
         DEF AttemptState, AInv, Sound,
             OneHolder, WithoutEffect, Holds, Holders, NotBegun, Busy, Abandoned
    <2> QED BY <1>0, <1>1, <1>3, <2>1, <2>2, <2>3
  <1>6. CASE /\ attempt[a].error = "none"
             /\ Returns("timeout")
             /\ attempt' = TakenAndClosed(a)
    <2> DEFINE r == [attempt[a] EXCEPT
                       !.handed = FALSE,
                       !.sock = IF attempt[a].handed THEN "closed" ELSE @]
    <2>1. r \in AttemptState /\ attempt' = [attempt EXCEPT ![a] = r]
      BY <1>0, <1>1, <1>2, <1>6, ZenonT(30) DEF TakenAndClosed, AttemptState
    <2>2. attempt'[a] = r
      BY <1>0, <1>1, <1>2, <2>1
    <2>3. call' \in CallState /\ call'.at = "idle" /\ call'.attempt = a
      BY <1>0, <1>2, <1>6 DEF Returns, CallState
    <2>4. AInv(a)'
      BY <1>0, <1>1, <1>2, <2>2, <2>3
         DEF AttemptState, AInv, Sound,
             OneHolder, WithoutEffect, Holds, Holders, NotBegun, Busy, Abandoned
    <2> QED BY <1>3, <2>1, <2>3, <2>4
  <1>7. CASE /\ attempt[a].error = "none"
             /\ call' = [call EXCEPT !.at = "adopting"]
             /\ attempt' = [attempt EXCEPT ![a].handed = FALSE]
    <2> DEFINE r == [attempt[a] EXCEPT !.handed = FALSE]
    <2>1. r \in AttemptState /\ attempt' = [attempt EXCEPT ![a] = r]
      BY <1>0, <1>1, <1>2, <1>7 DEF AttemptState
    <2>2. attempt'[a] = r
      BY <1>0, <1>1, <1>2, <2>1
    <2>3. call' \in CallState /\ call'.at = "adopting" /\ call'.attempt = a
      BY <1>0, <1>2, <1>7 DEF CallState
    <2>4. AInv(a)'
      BY <1>0, <1>1, <1>2, <1>7, <2>2, <2>3
         DEF AttemptState, AInv, Sound,
             OneHolder, WithoutEffect, Holds, Holders, NotBegun, Busy, Abandoned
    <2> QED BY <1>3, <2>1, <2>3, <2>4
  <1> QED BY <1>0, <1>4, <1>5, <1>6, <1>7 DEF Take

(* The client publishes the socket it was handed, or closes it.            *)
LEMMA AdoptInv ==
  ASSUME IInv, Adopt
  PROVE  IInv'
  <1>0. PICK a \in Attempts : a = call.attempt
    BY DEF IInv, CallInv, Adopt
  <1>1. /\ a \in Attempts /\ attempt[a] \in AttemptState /\ client = NoAttempt
        /\ call.at = "adopting" /\ attempt \in [Attempts -> AttemptState]
        /\ AInv(a) /\ CallerOnly /\ a # NoAttempt
    BY <1>0 DEF IInv, TypeOK, CallInv, Adopt, Attempts, NoAttempt
  <1>2. ASSUME NEW outcome \in {"closed", "timeout"}, Returns(outcome),
               attempt' = [attempt EXCEPT ![a].sock = "closed"],
               UNCHANGED client
        PROVE  IInv'
    <2> DEFINE r == [attempt[a] EXCEPT !.sock = "closed"]
    <2>1. r \in AttemptState /\ attempt' = [attempt EXCEPT ![a] = r]
      BY <1>0, <1>1, <1>2 DEF AttemptState
    <2>2. /\ attempt' \in [Attempts -> AttemptState] /\ attempt'[a] = r
          /\ \A b \in Attempts \ {a} : attempt'[b] = attempt[b]
      BY <1>0, <1>1, <2>1, Update DEF IInv
    <2>3. call' = [call EXCEPT !.at = "idle", !.outcome = outcome]
      BY <1>0, <1>2 DEF Returns
    <2>4. TypeOK' /\ CallInv' /\ call'.at = "idle" /\ call'.attempt = a
      BY <1>0, <1>1, <1>2, <2>2, <2>3 DEF CallerOnly, IInv, TypeOK, CallInv, CallState
    <2>5. AInv(a)'
      BY <1>0, <1>1, <1>2, <2>2, <2>4
         DEF CallerOnly, AttemptState, AInv, Sound, OneHolder, WithoutEffect,
             Holds, Holders, NotBegun, Busy, Abandoned
    <2> QED BY <1>0, <1>1, <1>2, <2>2, <2>4, <2>5, CallerStep
  <1>3. CASE client' = a /\ Returns("ok") /\ UNCHANGED attempt
    <2>1. call' = [call EXCEPT !.at = "idle", !.outcome = "ok"]
      BY <1>0, <1>3 DEF Returns
    <2>2. TypeOK' /\ CallInv' /\ call'.at = "idle" /\ call'.attempt = a
      BY <1>0, <1>1, <1>3, <2>1 DEF CallerOnly, IInv, TypeOK, CallInv, CallState
    <2>3. AInv(a)'
      BY <1>0, <1>1, <1>3, <2>2
         DEF CallerOnly, AttemptState, AInv, Sound, OneHolder, WithoutEffect,
             Holds, Holders, NotBegun, Busy, Abandoned
    <2> QED BY <1>0, <1>1, <1>3, <2>2, <2>3, CallerStep
  <1> QED BY <1>0, <1>2, <1>3 DEF Adopt

(* close() makes the running calls those of an earlier generation.         *)
LEMMA CloseInvalidateInv ==
  ASSUME IInv, CloseInvalidate
  PROVE  IInv'
  <1> USE DEF CloseInvalidate, IInv
  <1>1. TypeOK' /\ CallInv'
    BY AttemptAssumption DEF TypeOK, CallState, CallInv, Attempts, NoAttempt, Expired
  <1>2. ASSUME NEW b \in Attempts PROVE AInv(b)'
    BY <1>1 DEF CallInv, TypeOK, AInv, Sound, OneHolder, WithoutEffect, Holds, Holders,
           NotBegun, Busy, Abandoned, Expired, Attempts, NoAttempt
  <1> QED BY <1>1, <1>2

(* close() takes the client's socket and closes it.                        *)
LEMMA CloseClearInv ==
  ASSUME IInv, CloseClear
  PROVE  IInv'
  <1> USE DEF CloseClear, IInv
  <1>1. TypeOK' /\ CallInv'
    BY AttemptAssumption DEF TypeOK, CallState, CallInv, Attempts, NoAttempt, Expired
  <1>2. ASSUME NEW b \in Attempts PROVE AInv(b)'
    BY <1>1 DEF CallInv, TypeOK, AInv, Sound, OneHolder, WithoutEffect, Holds, Holders,
           NotBegun, Busy, Abandoned, Expired, Attempts, NoAttempt
  <1> QED BY <1>1, <1>2

(* The socket that close() took has no other holder.                       *)
LEMMA CloseSocketInv ==
  ASSUME IInv, CloseSocket
  PROVE  IInv'
  <1>1. \A b \in Attempts :
          attempt'[b] = IF b = closer.taken
                          THEN [attempt[b] EXCEPT !.sock = "closed"]
                          ELSE attempt[b]
    BY DEF CloseSocket
  <1>2. closer' = [at |-> "idle", taken |-> NoAttempt]
        /\ UNCHANGED <<generation, call, client, begun>>
    BY DEF CloseSocket
  <1>3. TypeOK' /\ CallInv'
    <2>1. ASSUME NEW b \in Attempts PROVE attempt'[b] \in AttemptState
      <3>1. attempt[b] \in AttemptState
        BY DEF IInv, TypeOK
      <3> QED BY <1>1, <3>1 DEF AttemptState
    <2>2. attempt' \in [Attempts -> AttemptState]
      BY <2>1 DEF CloseSocket
    <2> QED BY <1>2, <2>2 DEF IInv, TypeOK, CallInv, NoAttempt
  <1>4. ASSUME NEW b \in Attempts, b # closer.taken PROVE AInv(b)'
    <2>1. attempt'[b] = attempt[b]
      BY <1>1, <1>4
    <2> QED
      BY <1>2, <1>4, <2>1
         DEF IInv, CloseSocket, AInv, Sound, OneHolder, WithoutEffect, Holds,
             Holders, NotBegun, Busy, Abandoned, Attempts, NoAttempt
  <1>5. ASSUME NEW b \in Attempts, b = closer.taken PROVE AInv(b)'
    <2>1. AInv(b) /\ Holds(b, "closer")
      BY <1>5 DEF IInv, CloseSocket, Holds
    <2>2. /\ attempt[b].sock = "open" /\ ~attempt[b].abandoned
          /\ \A h \in Holders : Holds(b, h) => h = "closer"
      BY <2>1 DEF AInv, OneHolder, WithoutEffect, Holders, Abandoned
    <2>3. /\ ~attempt[b].handed /\ client # b
          /\ ~(call.at = "adopting" /\ call.attempt = b)
          /\ attempt[b].worker \notin Busy \cup {"failing", "disposing"}
      BY <2>2 DEF Holders, Holds, Busy
    <2>4. attempt'[b] = [attempt[b] EXCEPT !.sock = "closed"]
      BY <1>1, <1>5
    <2>5. attempt[b] \in AttemptState
      BY DEF IInv, TypeOK
    <2>6. Sound(b)'
      BY <1>2, <2>1, <2>2, <2>3, <2>4, <2>5 DEF AInv, Sound, NotBegun, Busy, AttemptState
    <2>7. \A h \in Holders : ~Holds(b, h)'
      BY <1>2, <2>3, <2>4, <2>5
         DEF Holders, Holds, Busy, NoAttempt, Attempts, AttemptState
    <2> QED
      BY <2>2, <2>4, <2>5, <2>6, <2>7
         DEF AInv, OneHolder, WithoutEffect, Abandoned, AttemptState
  <1> QED BY <1>3, <1>4, <1>5 DEF IInv
-----------------------------------------------------------------------------
(* Every step keeps the inductive invariant.                               *)
LEMMA NextInv ==
  ASSUME IInv, [Next]_vars
  PROVE  IInv'
  <1>1. CASE UNCHANGED vars
    BY <1>1
       DEF vars, IInv, TypeOK, CallInv, AInv, Sound, OneHolder, WithoutEffect,
           Holds, Abandoned
  <1>2. CASE Done
    BY <1>1, <1>2 DEF Done
  <1>3. CASE Begin \/ Wait \/ Closing
    BY <1>3, BeginInv, GiveUpInv, TakeInv, AdoptInv, CloseInvalidateInv,
       CloseClearInv, CloseSocketInv
       DEF Wait, Closing
  <1>4. ASSUME NEW a \in Attempts, Resolve(a) \/ Work(a) \/ Expire(a)
        PROVE  IInv'
    BY <1>4, ResolveInv, PrepareInv, ConnectInv, ConfigureInv, PublishInv,
       ReportInv, DisposeInv, ExpireInv
       DEF Work
  <1> QED BY <1>1, <1>2, <1>3, <1>4 DEF Next

(* The inductive invariant holds whatever the resolver and close() do.     *)
THEOREM Invariance == Spec => []IInv
  <1>1. IInv /\ [Next]_vars => IInv'
    BY NextInv
  <1> QED BY InitInv, <1>1, PTL DEF Spec

(* The state of the caller, the workers, the client and close() is typed.  *)
THEOREM TypeCorrect == Spec => []TypeOK
  <1>1. IInv => TypeOK
    BY DEF IInv
  <1> QED BY Invariance, <1>1, PTL

(* Whatever the order in which the workers, connect() and close() run, an  *)
(* open socket has exactly one holder that will close it, and none is held *)
(* after it was closed (client.py 496-595, 1262-1329).                     *)
THEOREM SocketsAreHeldOnce == Spec => []SocketsHaveOneHolder
  <1>1. IInv => SocketsHaveOneHolder
    BY DEF IInv, AInv, OneHolder, SocketsHaveOneHolder
  <1> QED BY Invariance, <1>1, PTL

(* An attempt that connect() gave up never gets its socket to the caller,  *)
(* the client or close(), however late its resolver returns.               *)
THEOREM AbandonedIsInert == Spec => []AbandonedHasNoEffect
  <1>1. IInv => AbandonedHasNoEffect
    BY DEF IInv, AInv, WithoutEffect, AbandonedHasNoEffect
  <1> QED BY Invariance, <1>1, PTL

(* A connection of an earlier generation is one that a close() is about to *)
(* take.                                                                   *)
ClientInv ==
    client # NoAttempt /\ call.generation # generation => closer.at = "clear"

(* Every step keeps this: connect() publishes only in its own generation,  *)
(* and begins only without a connection.                                   *)
LEMMA ClientStep == IInv /\ ClientInv /\ [Next]_vars => ClientInv'
  <1> SUFFICES ASSUME IInv, ClientInv, [Next]_vars PROVE ClientInv'
    OBVIOUS
  <1>1. CASE UNCHANGED <<call, client, closer, generation>>
    BY <1>1 DEF ClientInv
  <1>2. CASE Begin
    BY <1>2 DEF Begin, ClientInv
  <1>3. CASE GiveUp \/ Take
    <2>1. UNCHANGED client /\ call.at # "idle"
      BY <1>3 DEF GiveUp, Take
    <2>2. client' = NoAttempt
      BY <2>1 DEF IInv, CallInv
    <2> QED BY <2>2 DEF ClientInv
  <1>4. CASE Adopt
    <2>1. CASE UNCHANGED client
      <3>1. client' = NoAttempt
        BY <1>4, <2>1 DEF IInv, CallInv, Adopt
      <3> QED BY <3>1 DEF ClientInv
    <2>2. CASE ~Invalidated /\ Returns("ok")
      <3>1. call' = [call EXCEPT !.at = "idle", !.outcome = "ok"]
        BY <2>2 DEF Returns
      <3>2. call'.generation = call.generation
        BY <3>1 DEF IInv, TypeOK, CallState
      <3>3. generation' = generation
        BY <1>4 DEF Adopt, CallerOnly
      <3> QED BY <2>2, <3>2, <3>3 DEF Invalidated, ClientInv
    <2> QED BY <1>4, <2>1, <2>2 DEF Adopt
  <1>5. CASE CloseInvalidate
    <2>1. closer'.at = "clear"
      BY <1>5 DEF CloseInvalidate, IInv, TypeOK
    <2> QED BY <2>1 DEF ClientInv
  <1>6. CASE CloseClear
    BY <1>6 DEF CloseClear, ClientInv
  <1>7. CASE CloseSocket
    BY <1>7 DEF CloseSocket, ClientInv
  <1>8. ASSUME NEW a \in Attempts, Resolve(a) \/ Work(a) \/ Expire(a)
        PROVE  UNCHANGED <<call, client, closer, generation>>
    BY <1>8 DEF Resolve, Work, Prepare, Connect, Configure, Publish, Report,
                Dispose, Expire, WorkerOnly
  <1>9. CASE UNCHANGED vars
    BY <1>1, <1>9 DEF vars
  <1> QED BY <1>1, <1>2, <1>3, <1>4, <1>5, <1>6, <1>7, <1>8, <1>9
             DEF Next, Done, Wait, Closing

(* An open socket whose worker is not about to close it belongs to a call  *)
(* that runs, to the client or to close().                                 *)
LEMMA OpenIsAwaited ==
  ASSUME IInv, NEW a \in Attempts, attempt[a].sock = "open",
         ~Abandoned(a), ~Worker(a, "disposing"), client # a, closer.at # "close"
  PROVE  call.at # "idle" /\ call.attempt = a
  <1>1. PICK h \in Holders : Holds(a, h)
    BY DEF IInv, AInv, OneHolder
  <1>2. Sound(a) /\ a \in Nat /\ begun \in Nat /\ attempt[a] \in AttemptState
    BY DEF IInv, TypeOK, AInv, Attempts
  <1>3. a <= begun
    BY <1>2 DEF Sound, NotBegun
  <1>4. CASE h = "worker"
    <2>1. ~attempt[a].done
      BY <1>1, <1>2, <1>4 DEF Holds, Worker, Sound, Busy
    <2> QED BY <1>2, <1>3, <2>1 DEF Sound, Abandoned
  <1>5. CASE h = "state"
    BY <1>1, <1>2, <1>5 DEF Holds, Sound
  <1>6. CASE h = "caller"
    BY <1>1, <1>6 DEF Holds
  <1> QED BY <1>1, <1>4, <1>5, <1>6 DEF Holders, Holds

(* After a close() no socket of a connection before it is the client's or  *)
(* is kept open by anyone who would still use it, for every number of      *)
(* attempts whose workers outlive them, of connect() and of close() calls  *)
(* and every interleaving (client.py 496-595, 1262-1329).                  *)
THEOREM CloseIsFinal == Spec => []NothingSurvivesClose
  <1>1. Init => ClientInv
    BY DEF Init, ClientInv
  <1>2. IInv /\ ClientInv => NothingSurvivesClose
    <2> SUFFICES ASSUME IInv, ClientInv, Invalidated, closer.at = "idle"
                 PROVE  /\ client = NoAttempt
                        /\ \A a \in Attempts : attempt[a].sock = "open" =>
                             \/ Abandoned(a) \/ Worker(a, "disposing")
                             \/ call.at # "idle" /\ call.attempt = a
      BY DEF NothingSurvivesClose
    <2>1. client = NoAttempt
      BY DEF ClientInv, Invalidated
    <2>2. \A a \in Attempts : a # NoAttempt
      BY DEF Attempts, NoAttempt
    <2> QED BY <2>1, <2>2, OpenIsAwaited
  <1> QED BY <1>1, <1>2, ClientStep, Invariance, PTL DEF Spec
=============================================================================
