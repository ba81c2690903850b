------------------------------ MODULE HostLocks ------------------------------
(***************************************************************************)
(* Lock descriptors of host operations: a key naming a resource of the     *)
(* host and a mode.  The same predicate decides, in every executor on a    *)
(* host, whether two operations of any workspace may run side by side      *)
(* (executor/runtime/operation_journal.go).                                *)
(***************************************************************************)

\* The key of a lock: "" is the zero value of a descriptor, "host" and
\* "reboot:host" stand for the whole machine, any other key for one resource.
CONSTANT Key

ASSUME KeyAssumption == {"", "host", "reboot:host"} \subseteq Key

LockMode == {"shared", "exclusive"}

\* A descriptor as a request carries it: the mode may be left empty.
RawLock == [key : Key, mode : LockMode \cup {""}]

Lock == [key : Key, mode : LockMode]

isDominatingLockKey(key) == key \in {"host", "reboot:host"}

\* A dominating key conflicts with everything, whatever the two modes; other
\* keys conflict with themselves unless both sides only share them.
locksConflict(active, requested) ==
    /\ active.key # ""
    /\ requested.key # ""
    /\ \/ isDominatingLockKey(active.key)
       \/ isDominatingLockKey(requested.key)
       \/ /\ active.key = requested.key
          /\ ~(active.mode = "shared" /\ requested.mode = "shared")

\* Descriptors without a key are dropped, an empty mode means exclusive, and
\* duplicates collapse.  The order of a lock set is never observed.
normalizeLockSet(locks) ==
    { [key |-> l.key, mode |-> IF l.mode = "" THEN "exclusive" ELSE l.mode] :
        l \in {raw \in locks : raw.key # ""} }
=============================================================================
