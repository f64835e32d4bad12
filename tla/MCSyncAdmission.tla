-------------------------- MODULE MCSyncAdmission --------------------------
(* SyncAdmission for TLC: three threads, enough for one owner and two      *)
(* waiters whose order can be confused, and two closes, enough for a close *)
(* that lands on work admitted before, and on work that came after.        *)
EXTENDS SyncAdmission

CONSTANTS t1, t2, t3
MCThreads == {t1, t2, t3}
=============================================================================
