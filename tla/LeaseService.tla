---------------------------- MODULE LeaseService ----------------------------
(***************************************************************************)
(* What the lease protocol promises, without its executors, journal files  *)
(* and retries: a request is granted all its locks at once, when no other  *)
(* request holds a lock that conflicts with one of them; it keeps them     *)
(* until it is through with its mutation; and it may give up.              *)
(***************************************************************************)
EXTENDS HostLocks

CONSTANTS Request, LocksOf

VARIABLE status     \* of each request: waiting, holding or done

ServiceInit == status = [r \in Request |-> "waiting"]

Compatible(r, s) == \A k \in LocksOf[r], l \in LocksOf[s] : ~locksConflict(k, l)

Grant(r) ==
    /\ status[r] = "waiting"
    /\ \A s \in Request \ {r} : status[s] = "holding" => Compatible(r, s)
    /\ status' = [status EXCEPT ![r] = "holding"]

GiveUp(r) ==
    /\ status[r] = "waiting"
    /\ status' = [status EXCEPT ![r] = "done"]

LetGo(r) ==
    /\ status[r] = "holding"
    /\ status' = [status EXCEPT ![r] = "done"]

ServiceNext == \E r \in Request : Grant(r) \/ GiveUp(r) \/ LetGo(r)

ServiceSpec == ServiceInit /\ [][ServiceNext]_status
=============================================================================
