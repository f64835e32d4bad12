--------------------------- MODULE HostnameConnect ---------------------------
(***************************************************************************)
(* connect() to a host name (client.py 496-595): a daemon thread resolves  *)
(* the name and connects, and the caller waits for it, until its deadline  *)
(* or a close().  A resolver cannot be interrupted, so that workers of     *)
(* earlier attempts may still be running beside the present one.  One call *)
(* is in connect() at a time, as SyncAdmission ensures.                    *)
(***************************************************************************)
EXTENDS Naturals

CONSTANTS
    MaxAttempts,          \* bound: calls of connect()
    MaxGeneration         \* bound: calls of close()

Attempts == 1..MaxAttempts
NoAttempt == 0

ASSUME AttemptAssumption == MaxAttempts \in Nat /\ MaxGeneration \in Nat

VARIABLES
    generation,           \* _generation of the admission
    call,                 \* the caller: where it is, its generation, its attempt
    attempt,              \* attempt[a]: worker a, its socket, _SyncConnectState
    client,               \* the attempt whose socket is _sock, or NoAttempt
    closer,               \* where close() is, and the socket it has taken
    begun                 \* how many attempts there were

vars == <<generation, call, attempt, client, closer, begun>>

\* worker: where the thread is.  sock: its candidate.  reason: the exception it
\* handles.  done, abandoned, handed (sock is set), error and late (completed_at
\* is past the deadline) are the shared state; expired: the deadline has passed.
NotBegun ==
    [worker |-> "none", sock |-> "none", reason |-> "none",
     done |-> FALSE, abandoned |-> FALSE, handed |-> FALSE,
     error |-> "none", late |-> FALSE, expired |-> FALSE]

Init ==
    /\ generation = 0
    /\ call = [at |-> "idle", attempt |-> NoAttempt, generation |-> 0,
               outcome |-> "none"]
    /\ attempt = [a \in Attempts |-> NotBegun]
    /\ client = NoAttempt
    /\ closer = [at |-> "idle", taken |-> NoAttempt]
    /\ begun = 0

Worker(a, label) == attempt[a].worker = label
Abandoned(a) == attempt[a].abandoned
Expired(a) == attempt[a].expired
Invalidated == call.generation # generation
-----------------------------------------------------------------------------
(* The worker.  It runs on when nobody waits for it any more.              *)

WorkerOnly == UNCHANGED <<generation, call, client, closer, begun>>

(* An exception in the worker; it is reported in a later step.             *)
Fails(a, reason) ==
    attempt' = [attempt EXCEPT ![a].worker = "failing", ![a].reason = reason]

(* return: finally closes the candidate, if there is one.                  *)
Leaves(a) == attempt' = [attempt EXCEPT ![a].worker = "disposing"]

Goes(a, label) == attempt' = [attempt EXCEPT ![a].worker = label]

(* getaddrinfo() ends, some time or never; then a socket is created.  An    *)
(* error that is no OSError ("other"), as for a name that cannot be        *)
(* encoded, is mapped by nobody.                                           *)
Resolve(a) ==
    /\ Worker(a, "resolving")
    /\ \/ \E reason \in {"transport", "other"} : Fails(a, reason)
       \/ Abandoned(a) /\ Leaves(a)
       \/ Expired(a) /\ Fails(a, "timeout")
       \/ /\ ~Abandoned(a) /\ ~Expired(a)
          /\ attempt' = [attempt EXCEPT ![a].worker = "created",
                                        ![a].sock = "open"]
    /\ WorkerOnly

Prepare(a) ==
    /\ Worker(a, "created")
    /\ \/ Abandoned(a) /\ Leaves(a)
       \/ Expired(a) /\ Fails(a, "timeout")
       \/ ~Abandoned(a) /\ ~Expired(a) /\ Goes(a, "connecting")
    /\ WorkerOnly

(* candidate.connect(), within what was left of the deadline.              *)
Connect(a) ==
    /\ Worker(a, "connecting")
    /\ \/ \E reason \in {"transport", "timeout"} : Fails(a, reason)
       \/ Abandoned(a) /\ Leaves(a)
       \/ ~Abandoned(a) /\ Goes(a, "configuring")
    /\ WorkerOnly

(* The socket options, with ensure_not_abandoned() and the deadline between. *)
Configure(a) ==
    /\ Worker(a, "configuring")
    /\ \/ Fails(a, "transport")
       \/ Abandoned(a) /\ Fails(a, "closed")
       \/ Expired(a) /\ Fails(a, "timeout")
       \/ ~Abandoned(a) /\ ~Expired(a) /\ Goes(a, "publishing")
    /\ WorkerOnly

\* Mutant: abandoned is not looked at.
PublishAlways(a) ==
    /\ Worker(a, "publishing")
    /\ attempt' = [attempt EXCEPT ![a].worker = "ended",
                                  ![a].handed = TRUE, ![a].done = TRUE]
    /\ WorkerOnly

(* Under the condition the socket is handed to the caller, unless the      *)
(* caller has given up.                                                    *)
Publish(a) ==
    /\ Worker(a, "publishing")
    /\ IF Abandoned(a)
         THEN Leaves(a)
         ELSE attempt' = [attempt EXCEPT ![a].worker = "ended",
                                         ![a].handed = TRUE, ![a].done = TRUE]
    /\ WorkerOnly

\* Mutant: an error is reported also to a caller that has given up.
ReportAlways(a) ==
    /\ Worker(a, "failing")
    /\ attempt' = [attempt EXCEPT
                     ![a].worker = "disposing", ![a].done = TRUE,
                     ![a].error = attempt[a].reason]
    /\ WorkerOnly

(* except BaseException: completed_at was read before the condition.       *)
Report(a) ==
    /\ Worker(a, "failing")
    /\ IF Abandoned(a)
         THEN Leaves(a)
         ELSE \E late \in {FALSE, Expired(a)} :
                attempt' = [attempt EXCEPT
                              ![a].worker = "disposing", ![a].done = TRUE,
                              ![a].error = attempt[a].reason,
                              ![a].late = late]
    /\ WorkerOnly

\* Mutant: the finally clause is missing.
DisposeNothing(a) ==
    /\ Worker(a, "disposing")
    /\ attempt' = [attempt EXCEPT ![a].worker = "ended"]
    /\ WorkerOnly

Dispose(a) ==
    /\ Worker(a, "disposing")
    /\ attempt' = [attempt EXCEPT
                     ![a].worker = "ended",
                     ![a].sock = IF @ = "open" THEN "closed" ELSE @]
    /\ WorkerOnly
-----------------------------------------------------------------------------
(* The caller.                                                             *)
CallerOnly == UNCHANGED <<generation, closer, begun>>

(* connect() of a client that is not connected starts a worker.            *)
Begin ==
    /\ call.at = "idle"
    /\ client = NoAttempt
    /\ begun < MaxAttempts
    /\ begun' = begun + 1
    /\ attempt' = [attempt EXCEPT ![begun + 1].worker = "resolving"]
    /\ call' = [at |-> "waiting", attempt |-> begun + 1,
                generation |-> generation, outcome |-> "none"]
    /\ UNCHANGED <<generation, client, closer>>

Returns(outcome) ==
    call' = [call EXCEPT !.at = "idle", !.outcome = outcome]

\* Mutant: only a close() ends the wait.
GiveUpOnClose ==
    /\ call.at = "waiting"
    /\ LET a == call.attempt IN
       /\ ~attempt[a].done
       /\ Invalidated /\ Returns("closed")
       /\ attempt' = [attempt EXCEPT ![a].abandoned = TRUE]
    /\ UNCHANGED client
    /\ CallerOnly

(* One round of the waiting loop in which the caller gives up.             *)
GiveUp ==
    /\ call.at = "waiting"
    /\ LET a == call.attempt IN
       /\ ~attempt[a].done
       /\ \/ Invalidated /\ Returns("closed")
          \/ Expired(a) /\ Returns("timeout")
       /\ attempt' = [attempt EXCEPT ![a].abandoned = TRUE]
    /\ UNCHANGED client
    /\ CallerOnly

\* The socket the worker handed over leaves the state and is closed.
TakenAndClosed(a) ==
    [attempt EXCEPT ![a].handed = FALSE,
                    ![a].sock = IF attempt[a].handed THEN "closed" ELSE @]

(* The worker is done: close() comes first, then its error, then the time. *)
Take ==
    /\ call.at = "waiting"
    /\ LET a == call.attempt IN
       /\ attempt[a].done
       /\ \/ /\ Invalidated
             /\ Returns("closed")
             /\ attempt' = [TakenAndClosed(a) EXCEPT ![a].abandoned = TRUE]
          \/ /\ ~Invalidated
             /\ attempt[a].error # "none"
             /\ Returns(IF attempt[a].late THEN "timeout" ELSE attempt[a].error)
             /\ UNCHANGED attempt
          \/ /\ ~Invalidated
             /\ attempt[a].error = "none" /\ Expired(a)
             /\ Returns("timeout")
             /\ attempt' = TakenAndClosed(a)
          \/ /\ ~Invalidated
             /\ attempt[a].error = "none" /\ ~Expired(a)
             /\ call' = [call EXCEPT !.at = "adopting"]
             /\ attempt' = [attempt EXCEPT ![a].handed = FALSE]
    /\ UNCHANGED client
    /\ CallerOnly

\* Mutant: the generation is not tested.
AdoptAlways ==
    /\ call.at = "adopting"
    /\ client' = call.attempt
    /\ Returns("ok")
    /\ UNCHANGED attempt
    /\ CallerOnly

(* adopt_if_current(adopt), or an error and the socket is closed.          *)
Adopt ==
    /\ call.at = "adopting"
    /\ LET a == call.attempt
           Refuses(outcome) ==
               /\ Returns(outcome)
               /\ attempt' = [attempt EXCEPT ![a].sock = "closed"]
               /\ UNCHANGED client
       IN
       \/ Invalidated /\ Refuses("closed")
       \/ ~Invalidated /\ Expired(a) /\ Refuses("timeout")
       \/ /\ ~Invalidated /\ ~Expired(a)
          /\ client' = a
          /\ Returns("ok")
          /\ UNCHANGED attempt
    /\ CallerOnly
-----------------------------------------------------------------------------
(* close(): invalidate(), then _close_unlocked().                          *)
CloseInvalidate ==
    /\ closer.at = "idle"
    /\ generation < MaxGeneration
    /\ generation' = generation + 1
    /\ closer' = [closer EXCEPT !.at = "clear"]
    /\ UNCHANGED <<call, attempt, client, begun>>

CloseClear ==
    /\ closer.at = "clear"
    /\ closer' = [at |-> "close", taken |-> client]
    /\ client' = NoAttempt
    /\ UNCHANGED <<generation, call, attempt, begun>>

CloseSocket ==
    /\ closer.at = "close"
    /\ attempt' = [a \in Attempts |->
                     IF a = closer.taken
                       THEN [attempt[a] EXCEPT !.sock = "closed"]
                       ELSE attempt[a]]
    /\ closer' = [at |-> "idle", taken |-> NoAttempt]
    /\ UNCHANGED <<generation, call, client, begun>>

(* Time: the deadline of an attempt passes.                                *)
Expire(a) ==
    /\ attempt[a].worker # "none"
    /\ ~Expired(a)
    /\ attempt' = [attempt EXCEPT ![a].expired = TRUE]
    /\ UNCHANGED <<generation, call, client, closer, begun>>

\* What a worker does once its resolver has returned.
Work(a) == Prepare(a) \/ Connect(a) \/ Configure(a) \/ Publish(a)
           \/ Report(a) \/ Dispose(a)
Wait == GiveUp \/ Take \/ Adopt
Closing == CloseInvalidate \/ CloseClear \/ CloseSocket

(* The bounds are used up, and nothing goes on in the background.          *)
Done ==
    /\ call.at = "idle" /\ closer.at = "idle"
    /\ \A a \in Attempts : attempt[a].worker \in {"none", "ended"}
    /\ UNCHANGED vars

Next ==
    \/ Done
    \/ Begin \/ Wait \/ Closing
    \/ \E a \in Attempts : Resolve(a) \/ Work(a) \/ Expire(a)

Spec == Init /\ [][Next]_vars

(* The caller wakes at least every 10 ms, the clock goes on, and connect() *)
(* and the socket options end.  A resolver need not.                       *)
FairSpec ==
    /\ Spec
    /\ WF_vars(Wait) /\ WF_vars(CloseSocket)
    /\ \A a \in Attempts : WF_vars(Work(a)) /\ WF_vars(Expire(a))
-----------------------------------------------------------------------------
CallState ==
    [at : {"idle", "waiting", "adopting"},
     attempt : Attempts \cup {NoAttempt}, generation : Nat,
     outcome : {"none", "ok", "closed", "timeout", "transport", "other"}]

AttemptState ==
    [worker : {"none", "resolving", "created", "connecting", "configuring",
               "publishing", "failing", "disposing", "ended"},
     sock : {"none", "open", "closed"},
     reason : {"none", "transport", "timeout", "closed", "other"},
     done : BOOLEAN, abandoned : BOOLEAN, handed : BOOLEAN,
     error : {"none", "transport", "timeout", "other"},
     late : BOOLEAN, expired : BOOLEAN]

TypeOK ==
    /\ generation \in Nat /\ begun \in 0..MaxAttempts
    /\ call \in CallState
    /\ attempt \in [Attempts -> AttemptState]
    /\ client \in Attempts \cup {NoAttempt}
    /\ closer \in [at : {"idle", "clear", "close"},
                   taken : Attempts \cup {NoAttempt}]

(* Who may use the socket of attempt a, and has to close it: its worker,   *)
(* the shared state, the caller, the client, or a close() under way.       *)
Holders == {"worker", "state", "caller", "client", "closer"}
Holds(a, holder) ==
    \/ /\ holder = "worker"
       /\ attempt[a].worker \in {"created", "connecting", "configuring",
                                 "publishing", "failing", "disposing"}
       /\ attempt[a].sock # "none"
    \/ holder = "state" /\ attempt[a].handed
    \/ holder = "caller" /\ call.at = "adopting" /\ call.attempt = a
    \/ holder = "client" /\ client = a
    \/ holder = "closer" /\ closer.at = "close" /\ closer.taken = a

(* An open socket has a holder that will close it, and one only, so that   *)
(* it is closed exactly once, and nobody holds one that is closed: whoever *)
(* of worker, caller and close() comes first (API_REFERENCE.md 22-27).     *)
SocketsHaveOneHolder ==
    \A a \in Attempts :
        /\ attempt[a].sock = "open" <=> \E h \in Holders : Holds(a, h)
        /\ \A h, k \in Holders : Holds(a, h) /\ Holds(a, k) => h = k

(* What an attempt that was given up still does has no effect: its socket  *)
(* stays with its worker until the worker closes it.                       *)
AbandonedHasNoEffect ==
    \A a \in Attempts : Abandoned(a) =>
        \A h \in Holders : Holds(a, h) => h = "worker"

(* Once a close() is through, nothing of the connection before it is left: *)
(* the client has no socket, and whatever is still open belongs to a       *)
(* worker that was given up or is about to close it, or to a connect()     *)
(* that has not noticed the close() yet and will be refused.  This must    *)
(* hold however late the worker, the waiting caller and the three steps of *)
(* close() come after each other (client.py 537-595, 1262-1285).           *)
NothingSurvivesClose ==
    Invalidated /\ closer.at = "idle" =>
        /\ client = NoAttempt
        /\ \A a \in Attempts : attempt[a].sock = "open" =>
             \/ Abandoned(a) \/ Worker(a, "disposing")
             \/ call.at # "idle" /\ call.attempt = a

(* connect() returns, though the resolver may never do (USAGE_GUIDE.md     *)
(* 133-138).                                                               *)
ConnectReturns == call.at # "idle" ~> call.at = "idle"

(* The socket of an attempt that was given up is closed in the end.        *)
LateSocketsAreClosed ==
    \A a \in Attempts : Abandoned(a) /\ attempt[a].sock = "open"
                            ~> attempt[a].sock = "closed"
=============================================================================
