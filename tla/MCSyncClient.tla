---------------------------- MODULE MCSyncClient ----------------------------
(* SyncClient for TLC.  Two threads give every interleaving of a call with *)
(* a close or with another call; three add one that waits for its turn     *)
(* while both happen.                                                      *)
EXTENDS SyncClient, TLC

CONSTANTS t1, t2, t3
TwoThreads == {t1, t2}
ThreeThreads == {t1, t2, t3}
MCSymmetry == Permutations(Threads)

(* A registration is a write that also stores what it registered, and a    *)
(* bit write begins with a read, so that "read" and "write" would only     *)
(* repeat what these do.                                                   *)
Distinct == {"connect", "close", "register", "bit"}

(* For the question whether every call returns, a registration is a write. *)
Simple == {"connect", "close", "bit", "write"}
=============================================================================
