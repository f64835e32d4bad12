-------------------------- MODULE MCAsyncAdmission --------------------------
(* AsyncAdmission for TLC: three tasks, so that the middle waiter of the   *)
(* queue can be cancelled, and two closes.                                 *)
EXTENDS AsyncAdmission

CONSTANTS t1, t2, t3
MCTasks == {t1, t2, t3}
=============================================================================
