-------------------------- MODULE MCSessionRuntime --------------------------
(***************************************************************************)
(* Instances of SessionRuntime: callers and one ensurer of one session.    *)
(***************************************************************************)
EXTENDS SessionRuntime, TLC

CONSTANTS c1, c2, c3, e1, m1

\* c1 and c2 need the same module, c3 a lease only.
MCModuleOf == [c \in Caller |-> IF c \in {c1, c2} THEN m1 ELSE None]
=============================================================================
