-------------------------- MODULE MCHostnameConnect --------------------------
(* HostnameConnect for TLC: with two attempts the worker of the first may   *)
(* still run during the second, and either may be closed.                  *)
EXTENDS HostnameConnect
=============================================================================
