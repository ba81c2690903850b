------------------------ MODULE MCOperationJournal ------------------------
(***************************************************************************)
(* A small instance of OperationJournal: two workspaces with one request   *)
(* each.  The request of w1 wants one resource exclusively, the request of *)
(* w2 shares it and wants a second one, so an activation can be cut short  *)
(* between two claims.                                                     *)
(***************************************************************************)
EXTENDS OperationJournal, TLC

CONSTANTS p1, p2, w1, w2, r1, r2, t1, t2

MCKey == {"", "host", "reboot:host", "apt", "file"}
MCWorkspaceOf == (r1 :> w1) @@ (r2 :> w2)
MCLockSetOf ==
    (r1 :> {[key |-> "apt", mode |-> ""]}) @@
    (r2 :> {[key |-> "apt", mode |-> "shared"], [key |-> "file", mode |-> "exclusive"]})

Symmetry == Permutations(Pid) \cup Permutations(Thread)
=============================================================================
