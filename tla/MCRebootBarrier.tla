-------------------------- MODULE MCRebootBarrier --------------------------
(***************************************************************************)
(* An instance of RebootBarrier: two clients of one host, the first with   *)
(* two operations at the readiness gate beside it.                         *)
(***************************************************************************)
EXTENDS RebootBarrier

CONSTANTS c1, c2, k1, k2, t1, t2, a1
=============================================================================
