--------------------------- MODULE MCAsyncClient ---------------------------
(* AsyncClient for TLC.  Two tasks give one call in its turn and one that  *)
(* is queued behind it, cancels it or closes.                              *)
EXTENDS AsyncClient, TLC

CONSTANTS t1, t2
TwoTasks == {t1, t2}
MCSymmetry == Permutations(Tasks)

(* A registration is a write that also stores what it registered, so that  *)
(* "write" would only repeat what it does.                                 *)
Distinct == AllOperations \ {"write"}
=============================================================================
