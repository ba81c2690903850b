------------------------- MODULE MCOperationLease -------------------------
(***************************************************************************)
(* Instances of OperationLease: two workspaces with one request each, for  *)
(* the same resource.                                                      *)
(***************************************************************************)
EXTENDS OperationLease, TLC

CONSTANTS p1, p2, p3, p4, p5, w1, w2, r1, r2, t1, t2, t3

MCKey == {"", "host", "reboot:host", "apt", "file"}
MCWorkspaceOf == (r1 :> w1) @@ (r2 :> w2)
MCLockSetOf ==
    (r1 :> {[key |-> "apt", mode |-> ""]}) @@
    (r2 :> {[key |-> "apt", mode |-> "shared"], [key |-> "file", mode |-> "exclusive"]})

\* Every call of both workspaces may be tried twice; or those of the second only once.
MCTwoAttempts == [w \in Workspace |-> 2]
MCMixedAttempts == (w1 :> 2) @@ (w2 :> 1)

\* Losses while acquiring and releasing, the second one while releasing; one loss at any
\* time; one in the middle of a mutation.
MCLosses == [p \in Phase |-> CASE p = "acquire" -> 1 [] p = "release" -> 2 [] OTHER -> 0]
MCOneLoss == [p \in Phase |-> 1]
MCMutationLoss == [p \in Phase |-> IF p = "mutate" THEN 1 ELSE 0]

Symmetry == Permutations(Thread)
===========================================================================
