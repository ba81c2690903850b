----------------------- MODULE ResourceEngineProofs ------------------------
(***************************************************************************)
(* TLAPS proofs about ResourceEngine, for any resources, hosts, scenarios  *)
(* and faults: what is proved of the types becomes what holds of the states. *)
(***************************************************************************)
EXTENDS ResourceTypeProofs

-----------------------------------------------------------------------------
(* The invariant. *)

\* What Terraform keeps of a resource of type t.
WellRecorded(t, x) ==
    /\ x = [s |-> x.s, at |-> x.at, fp |-> x.fp, allow |-> x.allow]
    /\ IsState(x.s) /\ StateShape(t, x.s)
    /\ x.at \in Host /\ x.fp \in Nat /\ x.fp <= key[x.at]
    /\ x.allow \in Permission

Counters ==
    /\ type \in Scenarios /\ up \subseteq Host /\ dirty \subseteq Resource
    /\ priv \in [Resource -> Permission]
    /\ faults \in 0 .. MaxFaults
    /\ key \in [Host -> 1 .. faults + 1] /\ met \in [Resource -> 0 .. faults + 1]

HostsShaped ==
    /\ DOMAIN host = Host /\ host = [x \in Host |-> host[x]]
    /\ \A r \in Resource, x \in Host : HostShape(type[r], host[x])

Records ==
    /\ tf = [r \in Resource |-> tf[r]]
    /\ \A r \in Resource : tf[r] # Nil => WellRecorded(type[r], tf[r])

\* Every host holds what its scenario works on, and every record names a host, a key
\* the host had, and a state of its type.
EngineInv == Counters /\ HostsShaped /\ Records

\* What fits one resource of a scenario fits all of them.
LEMMA Shared ==
    ASSUME NEW f \in Scenarios, NEW r \in Resource, f[r] # None, NEW h, HostShape(f[r], h), NEW q \in Resource
    PROVE  HostShape(f[q], h)
<1>1. f \in [Resource -> Types \cup {None}] /\ (f[q] = None \/ Kind(f[r]) = Kind(f[q]))
  BY EngineAssumption
<1>2. None \notin Shaped
  BY EngineAssumption DEF Shaped, Types, FileTypes, SystemTypes
<1>3. f[q] \in Shaped => f[q] = f[r]
  BY <1>1, <1>2 DEF Kind, Shaped
<1>4. QED
  BY <1>3 DEF HostShape, Shaped

\* The hosts a scenario starts with, or a rebuild leaves.
LEMMA NewHostShape ==
    ASSUME NEW f \in Scenarios, NEW h \in HostsOf(f), NEW r \in Resource
    PROVE  HostShape(f[r], h)
<1> DEFINE q == CHOOSE q \in Resource : f[q] # None
<1>1. CASE f[r] = None
  <2>1. None \notin Shaped
    BY EngineAssumption DEF Shaped, Types, FileTypes, SystemTypes
  <2>2. QED
    BY <1>1, <2>1 DEF HostShape, Shaped
<1>2. CASE f[r] # None
  <2>1. q \in Resource /\ f[q] # None /\ h \in Hosts(f[q])
    BY <1>2 DEF HostsOf
  <2> HIDE DEF q
  <2>2. ASSUME f[q] = "crontab_entry" PROVE HostShape(f[q], h)
    <3>1. h \in CronHost
      BY <2>1, <2>2 DEF Hosts
    <3>2. CronShape(h)
      BY <3>1 DEF CronHost, CronShape, CronUser
    <3>3. QED
      BY <2>2, <3>2 DEF HostShape
  <2>3. ASSUME f[q] = "tls_identity" PROVE HostShape(f[q], h)
    <3>1. h \in TlsHost
      BY <2>1, <2>3 DEF Hosts
    <3>2. TlsShape(h)
      BY <3>1 DEF TlsHost, TlsShape, TlsName
    <3>3. QED
      BY <2>3, <3>2 DEF HostShape
  <2>4. ASSUME f[q] = "apt_repository" PROVE HostShape(f[q], h)
    <3>1. h \in RepoHost
      BY <2>1, <2>4 DEF Hosts
    <3>2. RepoShape(h)
      BY <3>1 DEF RepoHost, RepoShape, RepoFile
    <3>3. QED
      BY <2>4, <3>2 DEF HostShape
  <2>5. ASSUME f[q] = "file" PROVE HostShape(f[q], h)
    <3>1. h \in FileHost
      BY <2>1, <2>5 DEF Hosts
    <3>2. FileShape(h)
      BY <3>1 DEF FileHost, FileShape, FileHostOf
    <3>3. QED
      BY <2>5, <3>2 DEF HostShape
  <2>6. ASSUME f[q] = "trusted_cert" PROVE HostShape(f[q], h)
    <3>1. h \in CertHost
      BY <2>1, <2>6 DEF Hosts
    <3>2. CertShape(h)
      BY <3>1 DEF CertHost, CertShape
    <3>3. QED
      BY <2>6, <3>2 DEF HostShape
  <2>7. ASSUME f[q] = "systemd_unit" PROVE HostShape(f[q], h)
    <3>1. h \in UnitHost
      BY <2>1, <2>7 DEF Hosts
    <3>2. UnitShape(h)
      BY <3>1 DEF UnitHost, UnitShape, UnitField
    <3>3. QED
      BY <2>7, <3>2 DEF HostShape
  <2>8. HostShape(f[q], h)
    BY <2>2, <2>3, <2>4, <2>5, <2>6, <2>7 DEF HostShape
  <2>9. QED
    BY <2>1, <2>8, Shared
<1>3. QED
  BY <1>1, <1>2

\* The invariant holds of the initial states.
LEMMA InitEngine == Init => EngineInv
<1> SUFFICES ASSUME Init PROVE EngineInv
  OBVIOUS
<1>1. Counters
  BY EngineAssumption DEF Init, Counters, Permission
<1>2. HostsShaped
  BY NewHostShape DEF Init, HostsShaped
<1>3. Records
  BY DEF Init, Records
<1>4. QED
  BY <1>1, <1>2, <1>3 DEF EngineInv

\* The hosts that are asked are hosts.
LEMMA TargetsAreHosts == Targets \subseteq Host
  BY EngineAssumption DEF Targets

\* One host of the scenario is replaced by what an operation leaves of it.
LEMMA HostReplaced ==
    ASSUME EngineInv, NEW r \in Resource, type[r] # None, NEW at \in Host, NEW h, HostShape(type[r], h),
           host' = [host EXCEPT ![at] = h], type' = type
    PROVE  HostsShaped'
<1>1. \A q \in Resource : HostShape(type[q], h)
  BY Shared DEF EngineInv, Counters
<1>2. QED
  BY <1>1 DEF EngineInv, HostsShaped

\* One record is replaced by a well-formed one, or goes.
LEMMA RecordReplaced ==
    ASSUME EngineInv, NEW r \in Resource, NEW x, x # Nil => WellRecorded(type[r], x),
           tf' = [tf EXCEPT ![r] = x], type' = type, key' = key
    PROVE  Records'
<1>1. \A q \in Resource : tf'[q] = IF q = r THEN x ELSE tf[q]
  BY DEF EngineInv, Records
<1>2. \A q \in Resource : \A y : WellRecorded(type[q], y) => WellRecorded(type[q], y)'
  BY DEF WellRecorded
<1>3. QED
  BY <1>1, <1>2 DEF EngineInv, Records

\* The key found after an operation is one the host has had, or none.
LEMMA ObservedKey ==
    ASSUME EngineInv, NEW r \in Resource, NEW at \in Host, NEW fp \in observedHostKeyFingerprintValue(at, r)
    PROVE  fp \in Nat /\ fp <= key[at]
<1>1. key[at] \in Nat
  BY DEF EngineInv, Counters
<1>2. tf[r] # Nil /\ tf[r].at = at => tf[r].fp \in Nat /\ tf[r].fp <= key[at]
  BY DEF EngineInv, Records, WellRecorded
<1>3. fp = key[at] \/ fp = FallbackFingerprint(at, r)
  BY DEF observedHostKeyFingerprintValue
<1>4. QED
  BY <1>1, <1>2, <1>3 DEF FallbackFingerprint

\* After an operation that was let through, it is the key the host presents, and that of
\* the prior state.
LEMMA PinnedKey ==
    ASSUME NEW at, NEW r, sendOperation(at, r), NEW fp \in observedHostKeyFingerprintValue(at, r)
    PROVE  /\ fp # 0 => fp = key[at]
           /\ tf[r] # Nil /\ tf[r].at = at /\ tf[r].fp # 0 => fp = tf[r].fp
  BY DEF sendOperation, applyPinnedHostKeyFingerprint, observedHostKeyFingerprintValue, FallbackFingerprint

\* The key that is met is one the host has had.
LEMMA MeetKeeps ==
    ASSUME EngineInv, NEW r \in Resource, NEW at \in Host, Meet(r, at)
    PROVE  met' \in [Resource -> 0 .. faults + 1]
<1>1. key[at] \in 0 .. faults + 1 /\ 0 \in 0 .. faults + 1
  BY EngineAssumption DEF EngineInv, Counters
<1>2. QED
  BY <1>1 DEF Meet, EngineInv, Counters

\* A failure makes resources doubtful, and no other.
LEMMA FailureKeeps ==
    ASSUME EngineInv, NEW r \in Resource, NEW at, NEW o, Failure(r, at, o)
    PROVE  dirty' \subseteq Resource
  BY DEF Failure, Spoiled, EngineInv, Counters

\* What a write records is well-formed, whether the old state stays or a new one
\* replaces it.
LEMMA RecordKeeps ==
    ASSUME EngineInv, NEW r \in Resource, type[r] # None, NEW at \in Host, NEW allow \in Permission,
           NEW o, HostShape(type[r], o.h), IsState(o.out) => StateShape(type[r], o.out),
           Record(r, at, o, allow), type' = type, key' = key
    PROVE  HostsShaped' /\ Records' /\ dirty' \subseteq Resource /\ met' \in [Resource -> 0 .. faults + 1]
<1> DEFINE s == IF IsState(o.out) THEN readBackState(type[r], o.h, o.out) ELSE o.out
<1>1. IsState(s) => StateShape(type[r], s)
  BY ReadShape DEF readBackState
<1>2. /\ host' = [host EXCEPT ![at] = o.h] /\ Meet(r, at)
      /\ \/ /\ IsState(s) /\ dirty' = dirty \ {r}
            /\ \E fp \in observedHostKeyFingerprintValue(at, r) : tf' = [tf EXCEPT ![r] = Recorded(s, at, fp, allow)]
         \/ tf' = tf /\ Failure(r, at, o)
  BY DEF Record
<1> HIDE DEF s
<1>3. ASSUME NEW fp \in observedHostKeyFingerprintValue(at, r), IsState(s) PROVE WellRecorded(type[r], Recorded(s, at, fp, allow))
  <2>1. fp \in Nat /\ fp <= key[at]
    BY ObservedKey
  <2>2. QED
    BY <1>1, <1>3, <2>1 DEF WellRecorded, Recorded
<1>4. Records'
  <2>1. CASE tf' = tf
    <3>1. tf' = [tf EXCEPT ![r] = tf[r]] /\ (tf[r] # Nil => WellRecorded(type[r], tf[r]))
      BY <2>1 DEF EngineInv, Records
    <3>2. QED
      BY <3>1, RecordReplaced
  <2>2. ASSUME IsState(s), NEW fp \in observedHostKeyFingerprintValue(at, r), tf' = [tf EXCEPT ![r] = Recorded(s, at, fp, allow)]
        PROVE  Records'
    BY <1>3, <2>2, RecordReplaced
  <2>3. QED
    BY <1>2, <2>1, <2>2
<1>5. HostsShaped'
  BY <1>2, HostReplaced
<1>6. dirty' \subseteq Resource
  BY <1>2, FailureKeeps DEF EngineInv, Counters
<1>7. QED
  BY <1>2, <1>4, <1>5, <1>6, MeetKeeps

\* A configuration permits or not.
LEMMA PermissionsOf == \A t : Permissions(t) \subseteq Permission
  BY DEF Permissions, Permission

\* What ModifyPlan leaves in the private state is a permission.
LEMMA StoredPermission ==
    ASSUME EngineInv, NEW r \in Resource, NEW allow \in Permission
    PROVE  storeGenericAllowDestroyFromConfig(r, allow) \in Permission
  BY DEF EngineInv, Counters, storeGenericAllowDestroyFromConfig

\* The record of a resource, when it has one.
LEMMA RecordOf ==
    ASSUME EngineInv, NEW r \in Resource, tf[r] # Nil
    PROVE  WellRecorded(type[r], tf[r])
  BY DEF EngineInv, Records

\* Forgetting a resource.
LEMMA ForgetKeeps ==
    ASSUME EngineInv, NEW r \in Resource, Forget(r), type' = type, key' = key
    PROVE  Records' /\ dirty' \subseteq Resource /\ priv' \in [Resource -> Permission]
<1>1. tf' = [tf EXCEPT ![r] = Nil] /\ priv' = [priv EXCEPT ![r] = "null"] /\ dirty' = dirty \ {r}
  BY DEF Forget
<1>2. Records'
  BY <1>1, RecordReplaced
<1>3. QED
  BY <1>1, <1>2 DEF EngineInv, Counters, Permission

\* Each operation keeps the invariant: a create,
LEMMA CreateKeeps == ASSUME EngineInv, NEW r \in Resource, Create(r) PROVE EngineInv'
<1>1. PICK at \in Targets, p \in Plans(type[r]), allow \in Permissions(type[r]) :
        \E o \in CreateOp(type[r], host[at], p) :
          /\ Record(r, at, o, allow)
          /\ priv' = [priv EXCEPT ![r] = IF tf'[r] = Nil THEN "null" ELSE storeGenericAllowDestroyFromConfig(r, allow)]
  BY DEF Create
<1>2. PICK o \in CreateOp(type[r], host[at], p) :
        /\ Record(r, at, o, allow)
        /\ priv' = [priv EXCEPT ![r] = IF tf'[r] = Nil THEN "null" ELSE storeGenericAllowDestroyFromConfig(r, allow)]
  BY <1>1
<1>3. type[r] # None /\ type' = type /\ key' = key /\ up' = up /\ faults' = faults
  BY DEF Create
<1>4. at \in Host /\ allow \in Permission /\ HostShape(type[r], host[at])
  BY TargetsAreHosts, PermissionsOf DEF EngineInv, HostsShaped
<1>5. HostShape(type[r], o.h) /\ (IsState(o.out) => StateShape(type[r], o.out))
  BY <1>4, CreateShape
<1>6. HostsShaped' /\ Records' /\ dirty' \subseteq Resource /\ met' \in [Resource -> 0 .. faults + 1]
  BY <1>2, <1>3, <1>4, <1>5, RecordKeeps
<1>7. priv' \in [Resource -> Permission]
  BY <1>2, <1>4, StoredPermission DEF EngineInv, Counters, Permission
<1>8. QED
  BY <1>3, <1>6, <1>7 DEF EngineInv, Counters

\* an update,
LEMMA UpdateKeeps == ASSUME EngineInv, NEW r \in Resource, Update(r) PROVE EngineInv'
<1>1. PICK at \in Targets, p \in Plans(type[r]), allow \in Permissions(type[r]) :
        /\ \E o \in UpdateOp(type[r], host[at], tf[r].s, p) : Record(r, at, o, allow)
        /\ priv' = [priv EXCEPT ![r] = storeGenericAllowDestroyFromConfig(r, allow)]
  BY DEF Update
<1>2. PICK o \in UpdateOp(type[r], host[at], tf[r].s, p) : Record(r, at, o, allow)
  BY <1>1
<1>3. type[r] # None /\ type' = type /\ key' = key /\ up' = up /\ faults' = faults
  BY DEF Update
<1>4. at \in Host /\ allow \in Permission /\ HostShape(type[r], host[at])
  BY TargetsAreHosts, PermissionsOf DEF EngineInv, HostsShaped
<1>5. HostShape(type[r], o.h) /\ (IsState(o.out) => StateShape(type[r], o.out))
  BY <1>4, UpdateShape
<1>6. HostsShaped' /\ Records' /\ dirty' \subseteq Resource /\ met' \in [Resource -> 0 .. faults + 1]
  BY <1>2, <1>3, <1>4, <1>5, RecordKeeps
<1>7. priv' \in [Resource -> Permission]
  BY <1>1, <1>4, StoredPermission DEF EngineInv, Counters
<1>8. QED
  BY <1>3, <1>6, <1>7 DEF EngineInv, Counters

\* a refresh,
LEMMA ReadKeeps == ASSUME EngineInv, NEW r \in Resource, Read(r) PROVE EngineInv'
<1> DEFINE at == tf[r].at
           s == ReadOp(type[r], host[at], tf[r].s)
           new(fp) == Recorded(s, at, fp, tf[r].allow)
<1>1. type' = type /\ host' = host /\ key' = key /\ up' = up /\ faults' = faults
  BY DEF Read
<1>2. tf[r] # Nil /\ WellRecorded(type[r], tf[r]) /\ at \in Host
  BY RecordOf DEF Read, WellRecorded
<1>3. \/ /\ IsState(s) /\ dirty' = dirty \ {r} /\ priv' = priv
         /\ \E fp \in observedHostKeyFingerprintValue(at, r) : tf' = [tf EXCEPT ![r] = new(fp)]
      \/ Forget(r)
  <2>1. tf = [q \in Resource |-> tf[q]]
    BY DEF EngineInv, Records
  <2>2. QED
    BY <2>1 DEF Read, IsState, NotFound
<1>4. ASSUME IsState(s), NEW fp \in observedHostKeyFingerprintValue(at, r) PROVE WellRecorded(type[r], new(fp))
  <2>1. fp \in Nat /\ fp <= key[at]
    BY <1>2, <1>4, ObservedKey
  <2>2. StateShape(type[r], s)
    BY <1>2, <1>4, ReadShape DEF WellRecorded
  <2> HIDE DEF s
  <2>3. QED
    BY <1>2, <1>4, <2>1, <2>2 DEF WellRecorded, Recorded
<1>5. met' \in [Resource -> 0 .. faults + 1]
  BY <1>2, MeetKeeps DEF Read
<1> HIDE DEF s, new
<1>6. Records' /\ dirty' \subseteq Resource /\ priv' \in [Resource -> Permission]
  <2>1. CASE Forget(r)
    BY <1>1, <2>1, ForgetKeeps
  <2>2. ASSUME IsState(s), dirty' = dirty \ {r}, priv' = priv,
               NEW fp \in observedHostKeyFingerprintValue(at, r), tf' = [tf EXCEPT ![r] = new(fp)]
        PROVE  Records' /\ dirty' \subseteq Resource /\ priv' \in [Resource -> Permission]
    <3>1. Records'
      BY <1>1, <1>4, <2>2, RecordReplaced
    <3>2. QED
      BY <2>2, <3>1 DEF EngineInv, Counters
  <2>3. QED
    BY <1>3, <2>1, <2>2
<1>7. QED
  BY <1>1, <1>5, <1>6 DEF EngineInv, Counters, HostsShaped

\* a delete,
LEMMA DeleteKeeps == ASSUME EngineInv, NEW r \in Resource, Delete(r) PROVE EngineInv'
<1> DEFINE at == tf[r].at
<1>1. type[r] # None /\ type' = type /\ key' = key /\ up' = up /\ faults' = faults
  BY DEF Delete
<1>2. tf[r] # Nil /\ WellRecorded(type[r], tf[r]) /\ at \in Host /\ HostShape(type[r], host[at])
  BY RecordOf DEF Delete, WellRecorded, EngineInv, HostsShaped
<1>3. \/ Forget(r) /\ host' = host
      \/ \E o \in DeleteOp(type[r], host[at], tf[r].s) :
           /\ host' = [host EXCEPT ![at] = o.h]
           /\ \/ Forget(r)
              \/ Failure(r, at, o) /\ tf' = tf /\ priv' = priv
  BY DEF Delete
<1>4. HostsShaped'
  <2>1. CASE host' = host
    BY <1>1, <2>1 DEF EngineInv, HostsShaped
  <2>2. ASSUME NEW o \in DeleteOp(type[r], host[at], tf[r].s), host' = [host EXCEPT ![at] = o.h] PROVE HostsShaped'
    BY <1>1, <1>2, <2>2, DeleteShape, HostReplaced
  <2>3. QED
    BY <1>3, <2>1, <2>2
<1>5. Records' /\ dirty' \subseteq Resource /\ priv' \in [Resource -> Permission]
  <2>1. CASE Forget(r)
    BY <1>1, <2>1, ForgetKeeps
  <2>2. ASSUME NEW o, Failure(r, at, o), tf' = tf, priv' = priv
        PROVE  Records' /\ dirty' \subseteq Resource /\ priv' \in [Resource -> Permission]
    BY <1>1, <2>2, FailureKeeps DEF EngineInv, Counters, Records, WellRecorded
  <2>3. QED
    BY <1>3, <2>1, <2>2
<1>6. met' \in [Resource -> 0 .. faults + 1]
  BY <1>2, MeetKeeps DEF Delete
<1>7. QED
  BY <1>1, <1>4, <1>5, <1>6 DEF EngineInv, Counters

\* an import,
LEMMA ImportKeeps == ASSUME EngineInv, NEW r \in Resource, ImportState(r) PROVE EngineInv'
<1>1. PICK at \in Targets, id \in ImportIds(type[r]) :
        /\ IsState(ReadOp(type[r], host[at], id)) /\ Meet(r, at)
        /\ \E fp \in observedHostKeyFingerprintValue(at, r) :
             tf' = [tf EXCEPT ![r] = Recorded(ReadOp(type[r], host[at], id), at, fp, "null")]
  BY DEF ImportState
<1>2. /\ type' = type /\ host' = host /\ key' = key /\ up' = up /\ faults' = faults /\ priv' = priv
      /\ dirty' = dirty \ {r}
  BY DEF ImportState
<1> DEFINE s == ReadOp(type[r], host[at], id)
<1>3. StateShape(type[r], s)
  BY <1>1, PlanShape, ReadShape
<1> HIDE DEF s
<1>4. at \in Host
  BY TargetsAreHosts
<1>5. ASSUME NEW fp \in observedHostKeyFingerprintValue(at, r) PROVE WellRecorded(type[r], Recorded(s, at, fp, "null"))
  <2>1. fp \in Nat /\ fp <= key[at]
    BY <1>4, <1>5, ObservedKey
  <2>2. IsState(s)
    BY <1>1 DEF s
  <2>3. QED
    BY <1>3, <1>4, <2>1, <2>2 DEF WellRecorded, Recorded, Permission
<1>6. Records'
  BY <1>1, <1>2, <1>5, RecordReplaced DEF s
<1>7. QED
  BY <1>1, <1>2, <1>4, <1>6, MeetKeeps DEF EngineInv, Counters, HostsShaped

\* and an outage, a return or a rebuild of a host.
LEMMA FaultKeeps == ASSUME EngineInv, NEW h \in Host, HostFault(h) PROVE EngineInv'
<1>1. /\ faults < MaxFaults /\ faults' = faults + 1
      /\ type' = type /\ tf' = tf /\ priv' = priv /\ met' = met /\ dirty' \subseteq Resource
      /\ \/ up' \subseteq Host /\ host' = host /\ key' = key
         \/ /\ up' = up /\ key' = [key EXCEPT ![h] = key[h] + 1]
            /\ \E x \in HostsOf(type) : host' = [host EXCEPT ![h] = x]
  BY DEF HostFault, EngineInv, Counters
<1>2. /\ faults' \in 0 .. MaxFaults /\ key' \in [Host -> 1 .. faults' + 1]
      /\ met' \in [Resource -> 0 .. faults' + 1]
  BY <1>1, EngineAssumption DEF EngineInv, Counters
<1>3. \A x \in Host : key'[x] >= key[x]
  BY <1>1 DEF EngineInv, Counters
<1>4. Counters'
  BY <1>1, <1>2 DEF EngineInv, Counters
<1>5. HostsShaped'
  <2>1. \A x \in HostsOf(type), r \in Resource : HostShape(type[r], x)
    BY NewHostShape DEF EngineInv, Counters
  <2>2. QED
    BY <1>1, <2>1 DEF EngineInv, HostsShaped
<1>6. Records'
  <2>1. \A x \in Host : key[x] \in Nat /\ key'[x] \in Nat
    BY <1>2 DEF EngineInv, Counters
  <2>2. QED
    BY <1>1, <1>3, <2>1 DEF EngineInv, Records, WellRecorded
<1>7. QED
  BY <1>4, <1>5, <1>6 DEF EngineInv

\* The invariant holds throughout.
THEOREM EngineInvariant == Spec => []EngineInv
<1>1. ASSUME EngineInv, [Next]_vars PROVE EngineInv'
  <2>1. CASE UNCHANGED vars
    BY <1>1, <2>1 DEF vars, EngineInv, Counters, HostsShaped, Records, WellRecorded
  <2>2. ASSUME NEW r \in Resource, Create(r) \/ Update(r) \/ Read(r) \/ Delete(r) \/ ImportState(r)
        PROVE  EngineInv'
    BY <1>1, <2>2, CreateKeeps, UpdateKeeps, ReadKeeps, DeleteKeeps, ImportKeeps
  <2>3. ASSUME NEW h \in Host, HostFault(h) PROVE EngineInv'
    BY <1>1, <2>3, FaultKeeps
  <2>4. QED
    BY <1>1, <2>1, <2>2, <2>3 DEF Next
<1>2. QED
  BY <1>1, InitEngine, PTL DEF Spec

\* What Terraform keeps of a resource names a host, a key that host has had, and a
\* state that is not an error, whatever the packs answer and however hosts fail.
THEOREM EngineTypes == Spec => []EngineTypeOK
<1>1. EngineInv => EngineTypeOK
  <2> SUFFICES ASSUME EngineInv PROVE EngineTypeOK
    OBVIOUS
  <2>1. faults \in 0 .. MaxFaults /\ key \in [Host -> 1 .. MaxFaults + 1] /\ met \in [Resource -> 0 .. MaxFaults + 1]
    BY EngineAssumption DEF EngineInv, Counters
  <2>2. QED
    BY <2>1 DEF EngineTypeOK, EngineInv, Counters, Records, WellRecorded
<1>2. QED
  BY <1>1, EngineInvariant, PTL

\* What an operation on r that a host is asked for does to the records: that of r stays,
\* or is new, with a key that was found after it.
Answered(r, at) ==
    /\ sendOperation(at, r) /\ Meet(r, at)
    /\ \/ tf' = tf
       \/ \E fp \in observedHostKeyFingerprintValue(at, r) : \E s, allow : tf' = [tf EXCEPT ![r] = Recorded(s, at, fp, allow)]

\* Why r may be dropped.
LeavesState(r) ==
    /\ tf[r] # Nil /\ tf' = [tf EXCEPT ![r] = Nil] /\ Meet(r, tf[r].at)
    /\ sendOperation(tf[r].at, r) \/ tf[r].at \notin up \/ isAbsentResourceState(tf[r].s)

\* An operation asks a host that has the key recorded with the resource, if one is, or
\* drops the resource.
LEMMA AsksTheHost ==
    ASSUME EngineInv, NEW r \in Resource, Create(r) \/ Update(r) \/ Read(r) \/ Delete(r) \/ ImportState(r)
    PROVE  LeavesState(r) \/ \E at \in Host : Answered(r, at)
<1>1. tf = [q \in Resource |-> tf[q]] /\ (tf[r] # Nil => tf[r].at \in Host)
  BY DEF EngineInv, Records, WellRecorded
<1>2. ASSUME NEW at, NEW o, NEW allow, sendOperation(at, r), Record(r, at, o, allow) PROVE Answered(r, at)
  BY <1>2 DEF Record, Answered
<1>3. CASE Create(r)
  <2>1. PICK at \in Targets, p \in Plans(type[r]), allow \in Permissions(type[r]) :
          sendOperation(at, r) /\ \E o \in CreateOp(type[r], host[at], p) : Record(r, at, o, allow)
    BY <1>3 DEF Create
  <2>2. QED
    BY <1>2, <2>1, TargetsAreHosts
<1>4. CASE Update(r)
  <2>1. PICK at \in Targets, p \in Plans(type[r]), allow \in Permissions(type[r]) :
          sendOperation(at, r) /\ \E o \in UpdateOp(type[r], host[at], tf[r].s, p) : Record(r, at, o, allow)
    BY <1>4 DEF Update
  <2>2. QED
    BY <1>2, <2>1, TargetsAreHosts
<1>5. CASE Read(r)
  <2>1. /\ tf[r] # Nil /\ Meet(r, tf[r].at)
        /\ \/ /\ sendOperation(tf[r].at, r)
              /\ \E fp \in observedHostKeyFingerprintValue(tf[r].at, r) : \E s : tf' = [tf EXCEPT ![r] = Recorded(s, tf[r].at, fp, tf[r].allow)]
           \/ /\ tf[r].at \notin up \/ sendOperation(tf[r].at, r)
              /\ tf' = [tf EXCEPT ![r] = Nil]
    <3>1. tf = [q \in Resource |-> tf[q]]
      BY <1>1
    <3>2. QED
      BY <1>5, <3>1 DEF Read, Forget
  <2>2. QED
    BY <1>1, <2>1 DEF Answered, LeavesState
<1>6. CASE Delete(r)
  <2>1. /\ tf[r] # Nil /\ Meet(r, tf[r].at)
        /\ \/ isAbsentResourceState(tf[r].s) /\ tf' = [tf EXCEPT ![r] = Nil]
           \/ sendOperation(tf[r].at, r) /\ (tf' = tf \/ tf' = [tf EXCEPT ![r] = Nil])
    BY <1>6 DEF Delete, Forget, Removable
  <2>2. QED
    BY <1>1, <2>1 DEF Answered, LeavesState
<1>7. CASE ImportState(r)
  <2>1. PICK at \in Targets, id \in ImportIds(type[r]) :
          /\ sendOperation(at, r) /\ Meet(r, at)
          /\ \E fp \in observedHostKeyFingerprintValue(at, r) : \E s : tf' = [tf EXCEPT ![r] = Recorded(s, at, fp, "null")]
    BY <1>7 DEF ImportState
  <2>2. QED
    BY <2>1, TargetsAreHosts DEF Answered
<1>8. QED
  BY <1>3, <1>4, <1>5, <1>6, <1>7

\* The host a resource was last read, written or asked to be deleted on is the one whose
\* key is recorded with it, if a key is: every operation dials with that key, and the key
\* recorded after it, observed or handed on, is the same.
THEOREM EngineKnowsTheHost == Spec => []OnlyTheKnownHost
<1>1. Init => OnlyTheKnownHost
  BY DEF Init, OnlyTheKnownHost
<1>2. ASSUME EngineInv, OnlyTheKnownHost, [Next]_vars PROVE OnlyTheKnownHost'
  <2>1. tf = [q \in Resource |-> tf[q]] /\ DOMAIN met = Resource
    BY <1>2 DEF EngineInv, Records, Counters
  <2>2. CASE tf' = tf /\ met' = met
    BY <1>2, <2>2 DEF OnlyTheKnownHost
  <2>3. ASSUME NEW r \in Resource, Create(r) \/ Update(r) \/ Read(r) \/ Delete(r) \/ ImportState(r)
        PROVE  OnlyTheKnownHost'
    <3>1. LeavesState(r) \/ \E at \in Host : Answered(r, at)
      BY <1>2, <2>3, AsksTheHost
    <3>2. ASSUME NEW q \in Resource, q # r PROVE tf'[q] = tf[q] /\ met'[q] = met[q]
      BY <2>1, <3>1, <3>2 DEF Meet, Answered, LeavesState
    <3>3. ASSUME NEW at, Answered(r, at), tf'[r] # Nil, tf'[r].fp # 0 PROVE met'[r] = tf'[r].fp
      <4>1. /\ sendOperation(at, r)
            /\ met'[r] = IF tf'[r] = Nil THEN 0 ELSE IF tf'[r].at = at THEN key[at] ELSE met[r]
        BY <2>1, <3>3, Zenon DEF Answered, Meet
      <4>2. CASE tf' = tf
        BY <1>2, <3>3, <4>1, <4>2 DEF OnlyTheKnownHost, sendOperation, applyPinnedHostKeyFingerprint
      <4>3. ASSUME NEW fp \in observedHostKeyFingerprintValue(at, r), NEW s, NEW allow,
                   tf' = [tf EXCEPT ![r] = Recorded(s, at, fp, allow)]
            PROVE  met'[r] = tf'[r].fp
        <5>1. tf'[r].fp = fp /\ tf'[r].at = at
          BY <2>1, <4>3 DEF Recorded
        <5>2. QED
          BY <3>3, <4>1, <4>3, <5>1, PinnedKey
      <4>4. QED
        BY <3>3, <4>2, <4>3 DEF Answered
    <3>4. LeavesState(r) => tf'[r] = Nil
      BY <2>1 DEF LeavesState
    <3>5. tf'[r] # Nil /\ tf'[r].fp # 0 => met'[r] = tf'[r].fp
      BY <3>1, <3>3, <3>4
    <3>6. QED
      BY <1>2, <3>2, <3>5 DEF OnlyTheKnownHost
  <2>4. ASSUME NEW h \in Host, HostFault(h) PROVE OnlyTheKnownHost'
    BY <2>2, <2>4 DEF HostFault
  <2>5. QED
    BY <1>2, <2>2, <2>3, <2>4 DEF Next, vars
<1>3. QED
  BY <1>1, <1>2, EngineInvariant, PTL DEF Spec

\* What is recorded of a resource is a record.
LEMMA RecordIsThere ==
    ASSUME MarksApart, NEW s, NEW at, NEW fp, NEW allow
    PROVE  Recorded(s, at, fp, allow) # Nil
<1> DEFINE f == Recorded(s, at, fp, allow)
<1>1. f = [x \in DOMAIN f |-> f[x]]
  BY DEF Recorded
<1> HIDE DEF f
<1>2. IsState(f)
  BY <1>1, FunctionsAreStates, Zenon
<1>3. QED
  BY <1>2, Zenon DEF IsState, f

\* A recorded key stays as long as the resource stays on its host, also when the session
\* was gone before the key was asked for, and a resource is dropped only on the word of
\* its own host, because that cannot be dialled, or because it was recorded as absent.
THEOREM EngineKeepsPins == ASSUME MarksApart PROVE Spec => PinHolds
<1> DEFINE Pinned(r) == tf[r] # Nil /\ tf[r].fp # 0 =>
                          IF tf'[r] = Nil
                          THEN tf[r].at \notin up \/ isAbsentResourceState(tf[r].s) \/ key[tf[r].at] = tf[r].fp
                          ELSE tf'[r].at = tf[r].at => tf'[r].fp = tf[r].fp
<1>1. ASSUME EngineInv, Next, NEW q \in Resource PROVE Pinned(q)
  <2>1. tf = [x \in Resource |-> tf[x]]
    BY <1>1 DEF EngineInv, Records
  <2>2. CASE tf' = tf
    BY <2>2
  <2>3. ASSUME NEW r \in Resource, Create(r) \/ Update(r) \/ Read(r) \/ Delete(r) \/ ImportState(r)
        PROVE  Pinned(q)
    <3>1. LeavesState(r) \/ \E at \in Host : Answered(r, at)
      BY <1>1, <2>3, AsksTheHost
    <3>2. CASE q # r
      <4>1. tf'[q] = tf[q]
        BY <2>1, <3>1, <3>2 DEF Answered, LeavesState
      <4>2. QED
        BY <4>1
    <3>3. CASE q = r /\ LeavesState(r)
      <4>1. tf'[r] = Nil
        BY <2>1, <3>3 DEF LeavesState
      <4>2. QED
        BY <3>3, <4>1 DEF LeavesState, sendOperation, applyPinnedHostKeyFingerprint
    <3>4. ASSUME q = r, NEW at \in Host, Answered(r, at) PROVE Pinned(q)
      <4>1. ASSUME NEW fp \in observedHostKeyFingerprintValue(at, r), NEW s, NEW allow,
                   tf' = [tf EXCEPT ![r] = Recorded(s, at, fp, allow)]
            PROVE  Pinned(r)
        <5>1. tf'[r] # Nil /\ tf'[r].fp = fp /\ tf'[r].at = at
          BY <2>1, <4>1, RecordIsThere DEF Recorded
        <5>2. QED
          BY <3>4, <4>1, <5>1, PinnedKey DEF Answered
      <4>2. QED
        BY <2>2, <3>4, <4>1 DEF Answered
    <3>5. QED
      BY <3>1, <3>2, <3>3, <3>4
  <2>4. ASSUME NEW h \in Host, HostFault(h) PROVE Pinned(q)
    BY <2>2, <2>4 DEF HostFault
  <2>5. QED
    BY <1>1, <2>3, <2>4 DEF Next
<1>2. EngineInv /\ [Next]_vars => [\A r \in Resource : Pinned(r)]_vars
  BY <1>1
<1>3. QED
  BY <1>2, EngineInvariant, PTL DEF Spec, PinHolds

\* No operation on an apt repository takes a keyring away that a source on the host
\* names, wherever it stops: each that removes one looks at every source first.
THEOREM EngineKeepsKeys == Spec => []KeysInUseStay
<1>1. ASSUME EngineInv, NEW r \in Resource, NEW at \in Targets, type[r] = "apt_repository",
             NEW op \in OpsOf(r, at), NEW o \in op[4]
      PROVE  KeysStay(op[3], o.h)
  <2>1. RepoShape(host[at])
    BY <1>1, TargetsAreHosts DEF EngineInv, HostsShaped, HostShape
  <2>2. /\ op[3] = host[at]
        /\ \E s, p : o \in CreateOp(type[r], host[at], p) \cup UpdateOp(type[r], host[at], s, p)
                              \cup DeleteOp(type[r], host[at], s)
    BY <1>1 DEF OpsOf
  <2>3. \E s, p : o \in RepoCreate(host[at], p) \cup applyRepository(host[at], s, p) \cup RepoDelete(host[at], s)
    BY <1>1, <2>2, RepoOps
  <2>4. QED
    BY <2>1, <2>2, <2>3, RepoCreated, RepoApplied, RepoDeleted
<1>2. EngineInv => KeysInUseStay
  BY <1>1 DEF KeysInUseStay, NextOps, KeysStay
<1>3. QED
  BY <1>2, EngineInvariant, PTL

-----------------------------------------------------------------------------
(* The locks of operations that may change the same object conflict. *)

\* The key that every operation of a type asks for, for the types that have one.
MasterKey(t) ==
  CASE t = "hosts_entry" -> PathLock("/etc/hosts")
    [] t = "sysctl_entry" -> PathLock("/etc/sysctl.conf")
    [] t \in {"fstab_entry", "swap"} -> PathLock("/etc/fstab")
    [] t \in {"file", "symlink"} -> PathLock("/path")
    [] t \in {"package", "package_lock", "apt_repository"} -> "pkgmgr:system"
    [] t \in {"user", "group"} -> "identity:system"
    [] t = "sshd_config" -> "sshd:config"
    [] t = "network_stack" -> "network:stack"
    [] t = "ufw_rule" -> "firewall:ufw"
    [] t = "kernel_modules" -> "kernel-modules:system"
    [] t = "command" -> "command:name"
    [] t = "systemd_unit" -> "service:name"
    [] t = "timezone" -> "time:timezone"
    [] t = "timesync" -> "time:timesync"
    [] t = "trusted_cert" -> "trust-store:debian"

\* Every type but two has one, and it locks something.
LEMMA MasterKeyIsPlanned ==
    ASSUME NEW t \in Types \ {"crontab_entry", "tls_identity"}, NEW s, NEW p
    PROVE  MasterKey(t) \in LockPlanner(t, s, p) /\ MasterKey(t) # ""
<1>1. CASE t \in {"hosts_entry", "sysctl_entry", "fstab_entry", "swap", "file", "symlink"}
  BY <1>1, LockKeyAssumption DEF LockPlanner, MasterKey
<1>2. CASE t \in {"package", "package_lock", "apt_repository", "user", "group"}
  BY <1>2 DEF LockPlanner, MasterKey
<1>3. CASE t \in {"sshd_config", "network_stack", "ufw_rule", "kernel_modules", "command"}
  BY <1>3 DEF LockPlanner, MasterKey
<1>4. CASE t \in {"systemd_unit", "timezone", "timesync", "trusted_cert"}
  BY <1>4 DEF LockPlanner, MasterKey
<1>5. QED
  BY <1>1, <1>2, <1>3, <1>4 DEF Types, FileTypes, SystemTypes

\* Two operations that ask for the same key conflict.
LEMMA SameKey ==
    ASSUME NEW t1, NEW s1, NEW p1, NEW t2, NEW s2, NEW p2, NEW k, k # "",
           k \in LockPlanner(t1, s1, p1), k \in LockPlanner(t2, s2, p2)
    PROVE  Conflict(planResourceLocks(t1, "write", s1, p1), planResourceLocks(t2, "write", s2, p2))
<1> DEFINE lock == [key |-> k, mode |-> "exclusive"]
<1>1. lock \in planResourceLocks(t1, "write", s1, p1) /\ lock \in planResourceLocks(t2, "write", s2, p2)
  BY DEF planResourceLocks, LockModeForAction
<1>2. Locks!locksConflict(lock, lock)
  BY DEF Locks!locksConflict
<1>3. QED
  BY <1>1, <1>2 DEF Conflict

\* What changes when only the crontabs of some users do.
LEMMA CronTouched ==
    ASSUME NEW h, CronShape(h), NEW outcomes, NEW users, \A o \in outcomes : CronOnly(h, o.h, users)
    PROVE  Touched("crontab_entry", h, outcomes) \subseteq {<<"tabs", u>> : u \in users}
<1>1. ASSUME NEW x, CronShape(x) PROVE Parts("crontab_entry", x) = {<<<<"tabs", u>>, x.tabs[u]>> : u \in CronUser}
  <2>1. x = [tabs |-> x.tabs] /\ DOMAIN x.tabs = CronUser
    BY <1>1 DEF CronShape
  <2>2. Table("crontab_entry") = "tabs"
    BY DEF Table
  <2>3. DOMAIN x = {"tabs"}
    BY <2>1
  <2>4. Parts("crontab_entry", x) = UNION {{<<<<g, u>>, x[g][u]>> : u \in DOMAIN x[g]} : g \in {"tabs"}}
    BY <2>2, <2>3 DEF Parts
  <2>5. QED
    BY <2>1, <2>4
<1>2. ASSUME NEW o \in outcomes, NEW y \in Parts("crontab_entry", o.h) \ Parts("crontab_entry", h)
      PROVE  y[1] \in {<<"tabs", u>> : u \in users}
  <2>1. CronShape(o.h) /\ \A u \in CronUser \ users : o.h.tabs[u] = h.tabs[u]
    BY DEF CronOnly
  <2>2. PICK u \in CronUser : y = <<<<"tabs", u>>, o.h.tabs[u]>>
    BY <1>1, <2>1
  <2>3. u \in users
    BY <1>1, <2>1, <2>2
  <2>4. QED
    BY <2>2, <2>3
<1>3. QED
  BY <1>2 DEF Touched

\* What changes when only the files of some identities do.
LEMMA TlsTouched ==
    ASSUME NEW h, TlsShape(h), NEW outcomes, NEW names, \A o \in outcomes : TlsOnly(h, o.h, names)
    PROVE  Touched("tls_identity", h, outcomes) \subseteq {<<"file", k>> : k \in names}
<1>1. ASSUME NEW x, TlsShape(x) PROVE Parts("tls_identity", x) = {<<<<"file", k>>, x.file[k]>> : k \in TlsName}
  <2>1. x = [file |-> x.file] /\ DOMAIN x.file = TlsName
    BY <1>1 DEF TlsShape
  <2>2. Table("tls_identity") = "file"
    BY DEF Table
  <2>3. DOMAIN x = {"file"}
    BY <2>1
  <2>4. Parts("tls_identity", x) = UNION {{<<<<g, k>>, x[g][k]>> : k \in DOMAIN x[g]} : g \in {"file"}}
    BY <2>2, <2>3 DEF Parts
  <2>5. QED
    BY <2>1, <2>4
<1>2. ASSUME NEW o \in outcomes, NEW y \in Parts("tls_identity", o.h) \ Parts("tls_identity", h)
      PROVE  y[1] \in {<<"file", k>> : k \in names}
  <2>1. TlsShape(o.h) /\ \A k \in TlsName \ names : o.h.file[k] = h.file[k]
    BY DEF TlsOnly
  <2>2. PICK k \in TlsName : y = <<<<"file", k>>, o.h.file[k]>>
    BY <1>1, <2>1
  <2>3. k \in names
    BY <1>1, <2>1, <2>2
  <2>4. QED
    BY <2>2, <2>3
<1>3. QED
  BY <1>2 DEF Touched

\* What may be asked of a resource: a configuration, or its delete.
LEMMA AskedOf ==
    ASSUME EngineInv, NEW r \in Resource, type[r] # None, NEW a \in Asked(r)
    PROVE  /\ type[r] \in Types
           /\ \/ a \in Plans(type[r]) /\ a # Nil
              \/ a = Nil /\ tf[r] # Nil
           /\ tf[r] # Nil => Prior(r) = tf[r].s /\ Prior(r) # Nil /\ StateShape(type[r], Prior(r))
           /\ tf[r] = Nil => Prior(r) = Nil
<1>1. type[r] \in Types
  BY EngineAssumption DEF EngineInv, Counters
<1>2. Nil \notin Plans(type[r])
  BY <1>1, EngineAssumption
<1>3. tf[r] # Nil => IsState(tf[r].s) /\ StateShape(type[r], tf[r].s)
  BY DEF EngineInv, Records, WellRecorded
<1>4. QED
  BY <1>1, <1>2, <1>3 DEF Asked, Removable, Prior, IsState

\* A change of a crontab entry touches the crontabs whose locks it asks for.
LEMMA CronLocks ==
    ASSUME EngineInv, NEW r \in Resource, type[r] = "crontab_entry", type[r] # None,
           NEW a \in Asked(r), NEW at \in Host, NEW part \in ChangedBy(r, host[at], a)
    PROVE  \E u \in CronUser : part = <<"tabs", u>> /\ CrontabLock(u) \in LockPlanner(type[r], Prior(r), a)
<1> DEFINE users == {x.u : x \in {Prior(r), a} \ {Nil}}
           h == host[at]
           outcomes == IF a = Nil THEN CronDelete(h, tf[r].s)
                       ELSE IF tf[r] = Nil THEN CronCreate(h, a) ELSE CronUpdate(h, tf[r].s, a)
<1>1. CronShape(h)
  BY DEF EngineInv, HostsShaped, HostShape
<1>2. /\ \/ a \in Plans(type[r]) /\ a # Nil
         \/ a = Nil /\ tf[r] # Nil
      /\ tf[r] # Nil => Prior(r) = tf[r].s /\ Prior(r) # Nil /\ StateShape(type[r], Prior(r))
      /\ tf[r] = Nil => Prior(r) = Nil
  BY AskedOf
<1>3. users \subseteq CronUser
  <2>1. a # Nil => StateShape(type[r], a)
    BY <1>2, PlanShape
  <2>2. QED
    BY <1>2, <2>1 DEF StateShape
<1>4. part \in Touched("crontab_entry", h, outcomes)
  BY CronOps DEF ChangedBy
<1>5. ASSUME NEW o \in outcomes PROVE CronOnly(h, o.h, users)
  <2>1. CASE a = Nil
    <3>1. CronOnly(h, o.h, {tf[r].s.u}) /\ tf[r].s.u \in users
      BY <1>1, <1>2, <2>1, CronDeleted
    <3> HIDE DEF users, h, outcomes
    <3>2. QED
      BY <3>1 DEF CronOnly
  <2>2. CASE a # Nil /\ tf[r] = Nil
    <3>1. CronOnly(h, o.h, {a.u}) /\ a.u \in users
      BY <1>1, <2>2, CronCreated
    <3> HIDE DEF users, h, outcomes
    <3>2. QED
      BY <3>1 DEF CronOnly
  <2>3. CASE a # Nil /\ tf[r] # Nil
    <3>1. CronOnly(h, o.h, {tf[r].s.u, a.u}) /\ {tf[r].s.u, a.u} \subseteq users
      BY <1>1, <1>2, <2>3, CronUpdated
    <3> HIDE DEF users, h, outcomes
    <3>2. QED
      BY <3>1 DEF CronOnly
  <2>4. QED
    BY <2>1, <2>2, <2>3
<1>6. LockPlanner(type[r], Prior(r), a) = {CrontabLock(u) : u \in users}
  BY DEF LockPlanner, crontabEntryLockPlanner
<1> HIDE DEF users, outcomes, h
<1>7. PICK u \in users : part = <<"tabs", u>>
  <2>1. Touched("crontab_entry", h, outcomes) \subseteq {<<"tabs", u>> : u \in users}
    BY <1>1, <1>5, CronTouched
  <2>2. QED
    BY <1>4, <2>1
<1>8. QED
  BY <1>3, <1>6, <1>7

\* A change of a TLS identity touches the files whose locks it asks for.
LEMMA TlsLocks ==
    ASSUME EngineInv, NEW r \in Resource, type[r] = "tls_identity", type[r] # None,
           NEW a \in Asked(r), NEW at \in Host, NEW part \in ChangedBy(r, host[at], a)
    PROVE  \E k \in TlsName : part = <<"file", k>> /\ CertificateLocks(k) \subseteq LockPlanner(type[r], Prior(r), a)
<1> DEFINE name == StringAttr(Prior(r), a).k
           h == host[at]
           outcomes == IF a = Nil THEN removeTLSIdentity(h, tf[r].s)
                       ELSE IF tf[r] = Nil THEN TlsCreate(h, a) ELSE applyTLSIdentity(h, a)
<1>1. TlsShape(h)
  BY DEF EngineInv, HostsShaped, HostShape
<1>2. /\ \/ a \in Plans(type[r]) /\ a # Nil
         \/ a = Nil /\ tf[r] # Nil
      /\ tf[r] # Nil => Prior(r) = tf[r].s /\ Prior(r) # Nil /\ StateShape(type[r], Prior(r))
      /\ tf[r] = Nil => Prior(r) = Nil
  BY AskedOf
<1>3. name \in TlsName
  <2>1. a # Nil => StateShape(type[r], a)
    BY <1>2, PlanShape
  <2>2. QED
    BY <1>2, <2>1 DEF StateShape, StringAttr
<1>4. part \in Touched("tls_identity", h, outcomes)
  BY TlsOps DEF ChangedBy
<1>5. ASSUME NEW o \in outcomes PROVE TlsOnly(h, o.h, {name})
  <2>1. CASE a = Nil
    <3>1. name = tf[r].s.k
      BY <1>2, <2>1 DEF StringAttr
    <3>2. o \in removeTLSIdentity(h, tf[r].s)
      BY <2>1
    <3> HIDE DEF name, h, outcomes
    <3>3. QED
      BY <1>1, <3>1, <3>2, TlsDeleted
  <2>2. CASE a # Nil /\ tf[r] = Nil
    <3>1. name = a.k /\ o \in TlsCreate(h, a)
      BY <2>2 DEF StringAttr
    <3> HIDE DEF name, h, outcomes
    <3>2. QED
      BY <1>1, <3>1, TlsCreated
  <2>3. CASE a # Nil /\ tf[r] # Nil
    <3>1. name = a.k /\ o \in applyTLSIdentity(h, a)
      BY <2>3 DEF StringAttr
    <3> HIDE DEF name, h, outcomes
    <3>2. QED
      BY <1>1, <3>1, TlsApplied
  <2>4. QED
    BY <2>1, <2>2, <2>3
<1>6. LockPlanner(type[r], Prior(r), a) = CertificateLocks(name)
  BY DEF LockPlanner
<1> HIDE DEF name, outcomes, h
<1>7. part = <<"file", name>>
  <2>1. Touched("tls_identity", h, outcomes) \subseteq {<<"file", k>> : k \in {name}}
    BY <1>1, <1>5, TlsTouched
  <2>2. QED
    BY <1>4, <2>1
<1>8. QED
  BY <1>3, <1>6, <1>7

\* Operations of two resources that may change the same file, table entry or running
\* configuration ask for locks that conflict, so that the executors' journal runs one
\* after the other: each type has a key of its own, or locks what it changes by name.
THEOREM EngineLocks == Spec => []LocksKeepApart
<1>1. ASSUME EngineInv, NEW r \in Resource, NEW q \in Resource, type[r] # None, type[q] # None,
             NEW a \in Asked(r), NEW b \in Asked(q), ~Conflict(LocksOf(r, a), LocksOf(q, b)),
             NEW at \in Host
      PROVE  ChangedBy(r, host[at], a) \cap ChangedBy(q, host[at], b) = {}
  <2> DEFINE ks == LockPlanner(type[r], Prior(r), a)
             ls == LockPlanner(type[q], Prior(q), b)
  <2>1. \A k \in ks \cap ls : k = ""
    BY <1>1, SameKey DEF LocksOf
  <2>2. type[r] \in Types /\ type[q] \in Types /\ Kind(type[r]) = Kind(type[q])
    BY <1>1, AskedOf, EngineAssumption DEF EngineInv, Counters
  <2>3. CASE type[r] = "crontab_entry"
    <3>1. type[q] = "crontab_entry"
      BY <2>2, <2>3 DEF Kind
    <3> SUFFICES ASSUME NEW part \in ChangedBy(r, host[at], a), part \in ChangedBy(q, host[at], b) PROVE FALSE
      OBVIOUS
    <3>2. PICK u \in CronUser : part = <<"tabs", u>> /\ CrontabLock(u) \in ks
      BY <1>1, <2>3, CronLocks
    <3>3. PICK v \in CronUser : part = <<"tabs", v>> /\ CrontabLock(v) \in ls
      BY <1>1, <3>1, CronLocks
    <3>4. CrontabLock(u) # ""
      BY LockKeyAssumption
    <3>5. u = v
      BY <3>2, <3>3
    <3> HIDE DEF ks, ls
    <3>6. QED
      BY <2>1, <3>2, <3>3, <3>4, <3>5
  <2>4. CASE type[r] = "tls_identity"
    <3>1. type[q] = "tls_identity"
      BY <2>2, <2>4 DEF Kind
    <3> SUFFICES ASSUME NEW part \in ChangedBy(r, host[at], a), part \in ChangedBy(q, host[at], b) PROVE FALSE
      OBVIOUS
    <3>2. PICK k \in TlsName : part = <<"file", k>> /\ CertificateLocks(k) \subseteq ks
      BY <1>1, <2>4, TlsLocks
    <3>3. PICK l \in TlsName : part = <<"file", l>> /\ CertificateLocks(l) \subseteq ls
      BY <1>1, <3>1, TlsLocks
    <3> HIDE DEF ks, ls
    <3>4. k = l
      BY <3>2, <3>3
    <3>5. "" \notin CertificateLocks(k)
      BY LockKeyAssumption
    <3>6. PathLock(k \o ".key") \in CertificateLocks(k)
      BY DEF CertificateLocks
    <3>7. QED
      BY <2>1, <3>2, <3>3, <3>4, <3>5, <3>6
  <2>5. CASE type[r] \notin {"crontab_entry", "tls_identity"}
    <3>1. type[q] \notin {"crontab_entry", "tls_identity"} /\ MasterKey(type[q]) = MasterKey(type[r])
      BY <2>2, <2>5 DEF Kind, MasterKey
    <3>2. MasterKey(type[r]) \in ks /\ MasterKey(type[r]) \in ls /\ MasterKey(type[r]) # ""
      BY <2>2, <2>5, <3>1, MasterKeyIsPlanned
    <3>3. QED
      BY <2>1, <3>2
  <2>6. QED
    BY <2>3, <2>4, <2>5
<1>2. EngineInv => LocksKeepApart
  BY <1>1, TargetsAreHosts, SMTT(30) DEF LocksKeepApart
<1>3. QED
  BY <1>2, EngineInvariant, PTL

-----------------------------------------------------------------------------
(* Refusals. *)

\* An operation that is refused, because the object exists, the validation command or
\* sshd rejects the content, or an entry is ambiguous, leaves the host as it was: the
\* packs look before they write, and those that find out later put back what they
\* changed, temporary files, drop-ins and halves of pairs included.
THEOREM EngineRefusals ==
    ASSUME MarksApart
    PROVE  Spec => []RefusalIsHarmless
<1>1. ASSUME EngineInv, NEW r \in Resource, NEW at \in Targets, type[r] \in Types, NEW op \in OpsOf(r, at)
      PROVE  Harmless(op[3], op[4])
  <2>1. HostShape(type[r], host[at])
    BY <1>1, TargetsAreHosts DEF EngineInv, HostsShaped
  <2>2. \A p \in Plans(type[r]) : IsState(p)
    BY <1>1, PlansAreStates
  <2>3. tf[r] # Nil => IsState(tf[r].s)
    BY <1>1, RecordOf DEF WellRecorded
  <2>4. /\ op[3] = host[at]
        /\ \/ \E p \in Plans(type[r]) : op[4] = CreateOp(type[r], host[at], p)
           \/ \E p \in Plans(type[r]) : op[4] = UpdateOp(type[r], host[at], tf[r].s, p)
           \/ tf[r] # Nil /\ op[4] = DeleteOp(type[r], host[at], tf[r].s)
    BY <1>1 DEF OpsOf, Removable
  <2>5. QED
    BY <1>1, <2>1, <2>2, <2>3, <2>4, OpsHarmless
<1>2. EngineInv => RefusalIsHarmless
  BY <1>1 DEF RefusalIsHarmless, NextOps, Harmless
<1>3. QED
  BY <1>2, EngineInvariant, PTL

-----------------------------------------------------------------------------
(* What is on the hosts and in the records. *)

\* What is on the hosts and what is recorded are of the kind their types work on.
ContentInv ==
    \A r \in Resource :
      /\ type[r] # None => \A x \in Host : Holds(type[r], host[x])
      /\ tf[r] # Nil => type[r] # None /\ Fits(type[r], tf[r].s)

\* The type of a resource is one of the catalog.
LEMMA TypeOf ==
    ASSUME EngineInv, NEW r \in Resource, type[r] # None
    PROVE  type[r] \in Types /\ Served(type[r])
<1>1. type[r] \in Types
  BY EngineAssumption DEF EngineInv, Counters
<1>2. QED
  BY <1>1, EveryTypeServed

\* What holds of a host for one resource of a scenario holds for all of them.
LEMMA HoldsShared ==
    ASSUME NEW f \in Scenarios, NEW r \in Resource, f[r] # None, NEW h, Holds(f[r], h), NEW q \in Resource, f[q] # None
    PROVE  Holds(f[q], h)
<1>1. Kind(f[r]) = Kind(f[q])
  BY EngineAssumption
<1>2. f[q] = f[r] \/ (f[q] \in {"swap", "fstab_entry"} /\ f[r] \in {"swap", "fstab_entry"})
  BY <1>1 DEF Kind
<1>3. Holds("swap", h) <=> Holds("fstab_entry", h)
  BY DEF Holds
<1>4. QED
  BY <1>2, <1>3

\* What an operation leaves of a host, and what it reports.
LEMMA OperationFine ==
    ASSUME EngineInv, ContentInv, NEW r \in Resource, type[r] # None, NEW at \in Host
    PROVE  /\ \A p \in Plans(type[r]) : \A o \in CreateOp(type[r], host[at], p) : Fine(type[r], host[at], {IdOf(type[r], p)}, o)
           /\ tf[r] # Nil => \A p \in Plans(type[r]) : \A o \in UpdateOp(type[r], host[at], tf[r].s, p) :
                Fine(type[r], host[at], {IdOf(type[r], p), IdOf(type[r], tf[r].s)}, o)
           /\ tf[r] # Nil => \A o \in DeleteOp(type[r], host[at], tf[r].s) :
                Fine(type[r], host[at], {IdOf(type[r], tf[r].s)}, o) /\ Gone(type[r], o, tf[r].s)
<1> DEFINE t == type[r]
           h == host[at]
           s == tf[r].s
<1>1. Creates(t) /\ Updates(t) /\ Deletes(t)
  BY TypeOf DEF Served
<1>2. Holds(t, h) /\ (tf[r] # Nil => Fits(t, s))
  BY DEF ContentInv
<1> HIDE DEF t, h, s
<1>3. \A p \in Plans(t) : \A o \in CreateOp(t, h, p) : Fine(t, h, {IdOf(t, p)}, o)
  BY <1>1, <1>2 DEF Creates
<1>4. tf[r] # Nil => \A p \in Plans(t) : \A o \in UpdateOp(t, h, s, p) : Fine(t, h, {IdOf(t, p), IdOf(t, s)}, o)
  BY <1>1, <1>2 DEF Updates
<1>5. tf[r] # Nil => \A o \in DeleteOp(t, h, s) : Fine(t, h, {IdOf(t, s)}, o) /\ Gone(t, o, s)
  BY <1>1, <1>2 DEF Deletes
<1>6. QED
  BY <1>3, <1>4, <1>5 DEF t, h, s

\* What a refresh or an import reads.
LEMMA ReadFine ==
    ASSUME EngineInv, ContentInv, NEW r \in Resource, type[r] # None, NEW at \in Host,
           NEW s, (tf[r] # Nil /\ s = tf[r].s) \/ s \in ImportIds(type[r]), IsState(ReadOp(type[r], host[at], s))
    PROVE  /\ Fits(type[r], ReadOp(type[r], host[at], s))
           /\ Among(type[r], ReadOp(type[r], host[at], s), {IdOf(type[r], s)})
           /\ MarksApart => ReadOp(type[r], host[at], ReadOp(type[r], host[at], s)) = ReadOp(type[r], host[at], s)
<1> DEFINE t == type[r]
           h == host[at]
<1>1. Reads(t)
  BY TypeOf DEF Served
<1>2. Holds(t, h) /\ (Fits(t, s) \/ s \in ImportIds(t)) /\ IsState(ReadOp(t, h, s))
  BY DEF ContentInv
<1> HIDE DEF t, h
<1>3. Fits(t, ReadOp(t, h, s)) /\ Among(t, ReadOp(t, h, s), {IdOf(t, s)})
      /\ (MarksApart => ReadOp(t, h, ReadOp(t, h, s)) = ReadOp(t, h, s))
  BY <1>1, <1>2 DEF Reads
<1>4. QED
  BY <1>3 DEF t, h

\* What is recorded of a state that was written or, for some types, read back.
LEMMA ReadBackFine ==
    ASSUME EngineInv, NEW r \in Resource, type[r] # None, NEW h, NEW s,
           Holds(type[r], h), Fits(type[r], s), IsState(s), IsState(readBackState(type[r], h, s))
    PROVE  Fits(type[r], readBackState(type[r], h, s))
<1> DEFINE t == type[r]
<1>1. Reads(t)
  BY TypeOf DEF Served
<1> HIDE DEF t
<1>2. Fits(t, s) /\ Holds(t, h)
  BY DEF t
<1>3. IsState(ReadOp(t, h, s)) => Fits(t, ReadOp(t, h, s))
  BY <1>1, <1>2 DEF Reads
<1>4. QED
  BY <1>3 DEF readBackState, t

\* The scenario starts, and a host is rebuilt, with what its types work on.
LEMMA NewHostHolds ==
    ASSUME NEW f \in Scenarios, NEW h \in HostsOf(f), NEW r \in Resource, f[r] # None
    PROVE  Holds(f[r], h)
<1> DEFINE q == CHOOSE q \in Resource : f[q] # None
<1>1. q \in Resource /\ f[q] # None /\ h \in Hosts(f[q])
  BY DEF HostsOf
<1> HIDE DEF q
<1>2. f[q] \in Types
  BY <1>1, EngineAssumption
<1>3. Holds(f[q], h)
  BY <1>1, <1>2, EveryTypeServed DEF Served, Starts
<1>4. QED
  BY <1>1, <1>3, HoldsShared

\* The scenario starts with hosts its types work on and nothing recorded.
LEMMA InitContent == Init => ContentInv
  BY NewHostHolds DEF Init, ContentInv

\* One host and one record of the scenario are replaced.
LEMMA ContentReplaced ==
    ASSUME EngineInv, ContentInv, NEW r \in Resource, type[r] # None, type' = type,
           \/ host' = host
           \/ \E at \in Host : \E h : host' = [host EXCEPT ![at] = h] /\ Holds(type[r], h),
           \/ tf' = tf
           \/ \E x : tf' = [tf EXCEPT ![r] = x] /\ (x # Nil => Fits(type[r], x.s))
    PROVE  ContentInv'
<1>1. ASSUME NEW q \in Resource, type[q] # None PROVE \A x \in Host : Holds(type[q], host'[x])
  <2>1. CASE host' = host
    BY <1>1, <2>1 DEF ContentInv
  <2>2. ASSUME NEW at \in Host, NEW h, host' = [host EXCEPT ![at] = h], Holds(type[r], h)
        PROVE  \A x \in Host : Holds(type[q], host'[x])
    <3>1. Holds(type[q], h)
      BY <1>1, <2>2, HoldsShared DEF EngineInv, Counters
    <3>2. \A x \in Host : host'[x] = IF x = at THEN h ELSE host[x]
      BY <2>2 DEF EngineInv, HostsShaped
    <3>3. QED
      BY <1>1, <3>1, <3>2 DEF ContentInv
  <2>3. QED
    BY <2>1, <2>2
<1>2. ASSUME NEW q \in Resource, tf'[q] # Nil PROVE type[q] # None /\ Fits(type[q], tf'[q].s)
  <2>1. CASE tf' = tf
    BY <1>2, <2>1 DEF ContentInv
  <2>2. ASSUME NEW x, tf' = [tf EXCEPT ![r] = x], x # Nil => Fits(type[r], x.s)
        PROVE  type[q] # None /\ Fits(type[q], tf'[q].s)
    <3>1. tf'[q] = IF q = r THEN x ELSE tf[q]
      BY <2>2 DEF EngineInv, Records
    <3>2. QED
      BY <1>2, <2>2, <3>1 DEF ContentInv
  <2>3. QED
    BY <2>1, <2>2
<1>3. QED
  BY <1>1, <1>2 DEF ContentInv

\* A write of r records a state of its type, or none.
LEMMA RecordContent ==
    ASSUME EngineInv, ContentInv, NEW r \in Resource, type[r] # None, NEW at \in Host, NEW allow, NEW ids, NEW o,
           Fine(type[r], host[at], ids, o), Record(r, at, o, allow), type' = type
    PROVE  ContentInv'
<1> DEFINE s == IF IsState(o.out) THEN readBackState(type[r], o.h, o.out) ELSE o.out
<1>1. /\ host' = [host EXCEPT ![at] = o.h]
      /\ \/ IsState(s) /\ \E fp : tf' = [tf EXCEPT ![r] = Recorded(s, at, fp, allow)]
         \/ tf' = tf
  BY DEF Record
<1>2. Holds(type[r], o.h) /\ (IsState(o.out) => Fits(type[r], o.out))
  BY DEF Fine, Reported
<1>3. IsState(s) => Fits(type[r], s)
  BY <1>2, ReadBackFine
<1> HIDE DEF s
<1>4. \A fp : Recorded(s, at, fp, allow).s = s
  BY DEF Recorded
<1>5. QED
  BY <1>1, <1>2, <1>3, <1>4, ContentReplaced

\* Terraform's operations keep the contents of hosts and records of their kind.
LEMMA StepContent ==
    ASSUME EngineInv, ContentInv, NEW r \in Resource, Create(r) \/ Update(r) \/ Read(r) \/ Delete(r) \/ ImportState(r)
    PROVE  ContentInv'
<1>1. CASE Create(r)
  <2>1. type[r] # None /\ type' = type
    BY <1>1 DEF Create
  <2>5. PICK at \in Targets, p \in Plans(type[r]), allow \in Permissions(type[r]) :
          \E o \in CreateOp(type[r], host[at], p) : Record(r, at, o, allow)
    BY <1>1 DEF Create
  <2>2. PICK o \in CreateOp(type[r], host[at], p) : Record(r, at, o, allow)
    BY <2>5
  <2>3. Fine(type[r], host[at], {IdOf(type[r], p)}, o) /\ at \in Host
    BY <2>1, TargetsAreHosts, OperationFine
  <2>4. QED
    BY <2>1, <2>2, <2>3, RecordContent
<1>2. CASE Update(r)
  <2>1. type[r] # None /\ type' = type /\ tf[r] # Nil
    BY <1>2 DEF Update
  <2>5. PICK at \in Targets, p \in Plans(type[r]), allow \in Permissions(type[r]) :
          \E o \in UpdateOp(type[r], host[at], tf[r].s, p) : Record(r, at, o, allow)
    BY <1>2 DEF Update
  <2>2. PICK o \in UpdateOp(type[r], host[at], tf[r].s, p) : Record(r, at, o, allow)
    BY <2>5
  <2>3. Fine(type[r], host[at], {IdOf(type[r], p), IdOf(type[r], tf[r].s)}, o) /\ at \in Host
    BY <2>1, TargetsAreHosts, OperationFine
  <2>4. QED
    BY <2>1, <2>2, <2>3, RecordContent
<1>3. CASE Read(r)
  <2> DEFINE at == tf[r].at
             s == ReadOp(type[r], host[at], tf[r].s)
  <2>1. type[r] # None /\ tf[r] # Nil /\ type' = type /\ host' = host
    BY <1>3 DEF Read
  <2>2. at \in Host
    BY <2>1, RecordOf DEF WellRecorded
  <2>3. \/ tf' = [tf EXCEPT ![r] = Nil]
        \/ IsState(s) /\ \E fp, allow : tf' = [tf EXCEPT ![r] = Recorded(s, at, fp, allow)]
    <3>1. tf' = [tf EXCEPT ![r] = Nil] \/ (IsState(s) /\ \E fp : tf' = [tf EXCEPT ![r] = Recorded(s, at, fp, tf[r].allow)])
      BY <1>3 DEF Read, Forget, IsState, NotFound, EngineInv, Records
    <3>2. QED
      BY <3>1
  <2>4. IsState(s) => Fits(type[r], s)
    BY <2>1, <2>2, ReadFine
  <2> HIDE DEF s
  <2>5. \A fp, allow : Recorded(s, at, fp, allow).s = s
    BY DEF Recorded
  <2>6. QED
    BY <2>1, <2>3, <2>4, <2>5, ContentReplaced
<1>4. CASE Delete(r)
  <2> DEFINE at == tf[r].at
  <2>1. type[r] # None /\ tf[r] # Nil /\ type' = type
    BY <1>4 DEF Delete
  <2>2. at \in Host
    BY <2>1, RecordOf DEF WellRecorded
  <2>3. /\ tf' = tf \/ tf' = [tf EXCEPT ![r] = Nil]
        /\ host' = host \/ \E o \in DeleteOp(type[r], host[at], tf[r].s) : host' = [host EXCEPT ![at] = o.h]
    BY <1>4 DEF Delete, Forget
  <2>4. \A o \in DeleteOp(type[r], host[at], tf[r].s) : Holds(type[r], o.h)
    BY <2>1, <2>2, OperationFine DEF Fine
  <2>5. QED
    BY <2>1, <2>2, <2>3, <2>4, ContentReplaced
<1>5. CASE ImportState(r)
  <2>1. type[r] # None /\ type' = type /\ host' = host
    BY <1>5 DEF ImportState
  <2>2. PICK at \in Targets, id \in ImportIds(type[r]) :
          /\ IsState(ReadOp(type[r], host[at], id))
          /\ \E fp : tf' = [tf EXCEPT ![r] = Recorded(ReadOp(type[r], host[at], id), at, fp, "null")]
    BY <1>5 DEF ImportState
  <2> DEFINE s == ReadOp(type[r], host[at], id)
  <2>3. Fits(type[r], s)
    BY <2>1, <2>2, TargetsAreHosts, ReadFine
  <2> HIDE DEF s
  <2>4. \A fp : Recorded(s, at, fp, "null").s = s
    BY DEF Recorded
  <2>5. PICK fp : tf' = [tf EXCEPT ![r] = Recorded(s, at, fp, "null")]
    BY <2>2 DEF s
  <2> DEFINE x == Recorded(s, at, fp, "null")
  <2>6. x.s = s /\ tf' = [tf EXCEPT ![r] = x]
    BY <2>4, <2>5
  <2> HIDE DEF x
  <2>7. QED
    BY <2>1, <2>3, <2>6, ContentReplaced
<1>6. QED
  BY <1>1, <1>2, <1>3, <1>4, <1>5

\* An outage changes nothing of them, and a rebuilt host is a host of the scenario.
LEMMA FaultContent ==
    ASSUME EngineInv, ContentInv, NEW h \in Host, HostFault(h)
    PROVE  ContentInv'
<1>1. /\ type' = type /\ tf' = tf
      /\ host' = host \/ \E x \in HostsOf(type) : host' = [host EXCEPT ![h] = x]
  BY DEF HostFault
<1>2. CASE host' = host
  BY <1>1, <1>2 DEF ContentInv
<1>3. ASSUME NEW x \in HostsOf(type), host' = [host EXCEPT ![h] = x] PROVE ContentInv'
  <2>1. \A y \in Host : host'[y] = IF y = h THEN x ELSE host[y]
    BY <1>3 DEF EngineInv, HostsShaped
  <2>2. \A r \in Resource : type[r] # None => Holds(type[r], x)
    BY NewHostHolds DEF EngineInv, Counters
  <2>3. QED
    BY <1>1, <2>1, <2>2 DEF ContentInv
<1>4. QED
  BY <1>1, <1>2, <1>3

\* The hosts and the records keep their contents of the kind their types work on.
THEOREM ContentInvariant == Spec => []ContentInv
<1>1. ASSUME EngineInv, ContentInv, [Next]_vars PROVE ContentInv'
  <2>1. CASE UNCHANGED vars
    BY <1>1, <2>1 DEF vars, ContentInv
  <2>2. ASSUME NEW r \in Resource, Create(r) \/ Update(r) \/ Read(r) \/ Delete(r) \/ ImportState(r)
        PROVE  ContentInv'
    BY <1>1, <2>2, StepContent
  <2>3. ASSUME NEW h \in Host, HostFault(h) PROVE ContentInv'
    BY <1>1, <2>3, FaultContent
  <2>4. QED
    BY <1>1, <2>1, <2>2, <2>3 DEF Next
<1>2. QED
  BY <1>1, InitContent, EngineInvariant, PTL DEF Spec

-----------------------------------------------------------------------------
(* What one operation does to the rest. *)

\* The operations that could come next are fine, in what they leave and what they report.
LEMMA NextOpFine ==
    ASSUME EngineInv, ContentInv, NEW types, types \subseteq Types, NEW op \in NextOps(types), NEW o \in op[4]
    PROVE  op[1] \in types /\ Fine(op[1], op[3], op[2], o)
<1>1. PICK r \in {q \in Resource : type[q] \in types}, at \in Targets : op \in OpsOf(r, at)
  BY DEF NextOps
<1>2. type[r] # None /\ at \in Host
  BY <1>1, EngineAssumption, TargetsAreHosts
<1> DEFINE t == type[r]
           h == host[at]
           s == tf[r].s
<1>3. /\ \A p \in Plans(t) : \A x \in CreateOp(t, h, p) : Fine(t, h, {IdOf(t, p)}, x)
      /\ tf[r] # Nil => \A p \in Plans(t) : \A x \in UpdateOp(t, h, s, p) : Fine(t, h, {IdOf(t, p), IdOf(t, s)}, x)
      /\ tf[r] # Nil => \A x \in DeleteOp(t, h, s) : Fine(t, h, {IdOf(t, s)}, x)
  BY <1>1, <1>2, OperationFine
<1>4. \/ \E p \in Plans(t) : op = <<t, {IdOf(t, p)}, h, CreateOp(t, h, p)>>
      \/ tf[r] # Nil /\ \E p \in Plans(t) : op = <<t, {IdOf(t, p), IdOf(t, s)}, h, UpdateOp(t, h, s, p)>>
      \/ tf[r] # Nil /\ op = <<t, {IdOf(t, s)}, h, DeleteOp(t, h, s)>>
  BY <1>1 DEF OpsOf, Removable
<1> HIDE DEF t, h, s
<1>5. op[1] = t /\ Fine(op[1], op[3], op[2], o)
  <2>1. ASSUME NEW p \in Plans(t), op = <<t, {IdOf(t, p)}, h, CreateOp(t, h, p)>> PROVE op[1] = t /\ Fine(op[1], op[3], op[2], o)
    BY <1>3, <2>1
  <2>2. ASSUME tf[r] # Nil, NEW p \in Plans(t), op = <<t, {IdOf(t, p), IdOf(t, s)}, h, UpdateOp(t, h, s, p)>>
        PROVE  op[1] = t /\ Fine(op[1], op[3], op[2], o)
    BY <1>3, <2>2
  <2>3. ASSUME tf[r] # Nil, op = <<t, {IdOf(t, s)}, h, DeleteOp(t, h, s)>> PROVE op[1] = t /\ Fine(op[1], op[3], op[2], o)
    BY <1>3, <2>3
  <2>4. QED
    BY <1>4, <2>1, <2>2, <2>3
<1>6. QED
  BY <1>1, <1>5 DEF t

\* Whatever an operation does, and wherever it stops, the lines of other objects and those nobody manages
\* stay in /etc/hosts, the sysctl file, fstab, sshd_config, the crontabs and the firewall, in their order,
\* and no job of the user's own is lost: the packs rewrite a file from what they read of it.  The exception is
\* the write of a file that cannot be renamed over, when it fails.
THEOREM EngineKeepsOthers == Spec => []OthersKept
<1>1. EngineInv /\ ContentInv => OthersKept
  <2> SUFFICES ASSUME EngineInv, ContentInv, NEW op \in NextOps(SharedTypes), NEW o \in op[4]
               PROVE  /\ Tears(op[1], op[3], o) \/ Kept(op[1], o.h, op[2]) = Kept(op[1], op[3], op[2])
                      /\ \A u \in CronUser :
                           Cardinality({j \in KeptJobs(op[1], op[3], op[2]) : j[1] = u})
                             <= Cardinality({j \in KeptJobs(op[1], o.h, {}) : j[1] = u})
    BY DEF OthersKept
  <2>1. SharedTypes \subseteq Types
    BY DEF SharedTypes, KeyedTypes, Types, FileTypes
  <2>2. Spares(op[1], op[3], o.h, op[2]) \/ Tears(op[1], op[3], o)
    BY <2>1, NextOpFine DEF Fine
  <2>3. Tears(op[1], op[3], o) => JobsStay(op[1], op[3], o.h, op[2])
    BY NoJobs DEF Tears
  <2>4. QED
    BY <2>2, <2>3 DEF Spares, JobsStay
<1>2. QED
  BY <1>1, EngineInvariant, ContentInvariant, PTL

\* A write that reports success is in effect: the packs load the modules, set the sysctls, switch the swap
\* areas off and restart the daemons before they report.
THEOREM EngineWritesInEffect == ASSUME MarksApart PROVE Spec => []WrittenIsInEffect
<1>1. EngineInv /\ ContentInv => WrittenIsInEffect
  <2> DEFINE types == EffectTypes \ {"sshd_config", "trusted_cert", "systemd_unit"}
  <2> SUFFICES ASSUME EngineInv, ContentInv, NEW op \in NextOps(types), NEW o \in op[4], IsState(o.out)
               PROVE  InEffect(op[1], o.h, o.out)
    BY DEF WrittenIsInEffect
  <2>1. types \subseteq Types
    BY DEF EffectTypes, Types, FileTypes, SystemTypes
  <2>2. \A t \in types : t \notin {"sshd_config", "trusted_cert", "systemd_unit"}
    OBVIOUS
  <2> HIDE DEF types
  <2>3. op[1] \in types /\ Fine(op[1], op[3], op[2], o)
    BY <2>1, NextOpFine
  <2>4. QED
    BY <2>2, <2>3 DEF Fine, Reported
<1>2. QED
  BY <1>1, EngineInvariant, ContentInvariant, PTL

\* A delete that reports success leaves nothing a refresh would find again.
THEOREM EngineDeletes == ASSUME MarksApart PROVE Spec => []DeletedIsGone
<1>1. EngineInv /\ ContentInv => DeletedIsGone
  <2> SUFFICES ASSUME EngineInv, ContentInv, NEW r \in Resource, Removable(r), ~NothingToRemove(type[r], tf[r].s),
                      NEW o \in DeleteOp(type[r], host[tf[r].at], tf[r].s), o.out = Nil
               PROVE  ReadOp(type[r], o.h, tf[r].s) = Nil
    BY DEF DeletedIsGone
  <2>1. tf[r] # Nil /\ ~isAbsentResourceState(tf[r].s) /\ tf[r].at \in Host
    BY RecordOf DEF Removable, WellRecorded
  <2>2. type[r] # None
    BY <2>1 DEF ContentInv
  <2>3. Gone(type[r], o, tf[r].s)
    BY <2>1, <2>2, OperationFine
  <2>4. QED
    BY <2>1, <2>3 DEF Gone
<1>2. QED
  BY <1>1, EngineInvariant, ContentInvariant, PTL

\* A firewall change that is not marked allow_ssh_disconnect and succeeds leaves a rule that admits SSH, as
\* long as one was there: preventUFWSSHDisconnect looks before the first rule is touched.
THEOREM EngineKeepsSSH == Spec => []SSHStaysAllowed
<1>1. EngineInv /\ ContentInv => SSHStaysAllowed
  <2> SUFFICES ASSUME EngineInv, ContentInv, NEW r \in Resource, NEW at \in Targets, type[r] = "ufw_rule",
                      host[at].active, host[at].deny, SSHRules(host[at]) # {}
               PROVE  LET h == host[at]
                          s == IF tf[r] = Nil THEN Nil ELSE tf[r].s
                          known(p) == (s # Nil /\ s.k = p.k) \/ Managed(h, p.k) = {}
                          ops == {applyUFWRule(h, s, p) : p \in {q \in UfwPlan : ~q.cut /\ known(q)}}
                                 \cup {UfwDelete(h, x) : x \in {y \in {s} : y # Nil /\ ~y.cut}}
                      IN  \A op \in ops : \A o \in op : o.out \notin {Refused, Failed} => SSHRules(o.h) # {}
    BY DEF SSHStaysAllowed
  <2> DEFINE h == host[at]
             s == IF tf[r] = Nil THEN Nil ELSE tf[r].s
             known(p) == (s # Nil /\ s.k = p.k) \/ Managed(h, p.k) = {}
  <2>1. "ufw_rule" \in Types /\ None \notin Types /\ Nil \notin Plans("ufw_rule") /\ Plans("ufw_rule") = UfwPlan
    BY EngineAssumption DEF Types, SystemTypes, Plans
  <2>2. UfwTable(h) /\ (s = Nil \/ s \in UfwPlan) /\ Nil \notin UfwPlan
    <3>1. at \in Host /\ type[r] # None
      BY <2>1, TargetsAreHosts
    <3>2. Holds("ufw_rule", h) /\ (tf[r] # Nil => Fits("ufw_rule", tf[r].s))
      BY <3>1 DEF ContentInv
    <3>3. QED
      BY <2>1, <3>2 DEF Holds, Fits
  <2>3. h.active /\ h.deny /\ SSHRules(h) # {}
    OBVIOUS
  <2> HIDE DEF h, s
  <2>4. ASSUME NEW p \in UfwPlan, ~p.cut, known(p), NEW o \in applyUFWRule(h, s, p), o.out \notin {Refused, Failed}
        PROVE  SSHRules(o.h) # {}
    BY <2>2, <2>3, <2>4, SSHAfterApply
  <2>5. ASSUME s # Nil, ~s.cut, NEW o \in UfwDelete(h, s), o.out \notin {Refused, Failed} PROVE SSHRules(o.h) # {}
    BY <2>2, <2>3, <2>5, SSHAfterDelete
  <2>6. \A op \in {applyUFWRule(h, s, p) : p \in {q \in UfwPlan : ~q.cut /\ known(q)}}
                  \cup {UfwDelete(h, x) : x \in {y \in {s} : y # Nil /\ ~y.cut}} :
          \A o \in op : o.out \notin {Refused, Failed} => SSHRules(o.h) # {}
    BY <2>4, <2>5
  <2>7. QED
    BY <2>6 DEF h, s
<1>2. QED
  BY <1>1, EngineInvariant, ContentInvariant, PTL

-----------------------------------------------------------------------------
(* What is recorded matches what is there. *)

\* Two resources of a type on one host are about different objects.
Distinct ==
    \A r, q \in Resource :
      r # q /\ tf[r] # Nil /\ tf[q] # Nil /\ type[q] = type[r] /\ tf[q].at = tf[r].at
        => ~Clash(type[r], tf[q].s, tf[r].s)

\* Without faults there is one host.
OnTargets == \A r \in Resource : tf[r] # Nil => tf[r].at \in Targets

\* One resource of StateMatchesHost.
Match(q) ==
    tf[q] # Nil /\ q \notin dirty /\ ~Denormal(type[q], tf[q].s)
      => ReadOp(type[q], host[tf[q].at], tf[q].s) = tf[q].s

MatchInv == Distinct /\ OnTargets /\ StateMatchesHost

\* Only types whose resources have nothing in common move between hosts.
OneHostEach == FaultTypes \subseteq Alone

\* The other resources of r's type on a host are about none of the objects ids.
AllApart(r, at, ids) ==
    \A q \in Resource \ {r} :
      tf[q] # Nil /\ tf[q].at = at /\ type[q] = type[r] => Apart(type[r], tf[q].s, ids)

\* From h to x, nothing changes for the other type of the same file.
Aside(t, h, x) ==
    \A u \in Types : \A s : u # t /\ Kind(u) = Kind(t) /\ Fits(u, s) => ReadOp(u, x, s) = ReadOp(u, h, s)

\* Objects kept apart do not clash, whichever way they are compared.
LEMMA ClashIsApart ==
    ASSUME NEW t, NEW x, NEW y
    PROVE  Clash(t, x, y) <=> ~Apart(t, x, {IdOf(t, y)})
<1>1. CASE t = "package_lock"
  <2>1. IdOf(t, y) = <<y.pkgs>> /\ <<y.pkgs>>[1] = y.pkgs
    BY <1>1 DEF IdOf
  <2>2. Clash(t, x, y) <=> x.pkgs \cap y.pkgs # {}
    BY <1>1 DEF Clash
  <2>3. Apart(t, x, {IdOf(t, y)}) <=> y.pkgs \cap x.pkgs = {}
    BY <1>1, <2>1 DEF Apart
  <2>4. QED
    BY <2>2, <2>3
<1>2. CASE t # "package_lock"
  BY <1>2 DEF Clash, Apart
<1>3. QED
  BY <1>1, <1>2

\* Two states clash whichever comes first.
LEMMA ClashTurns ==
    ASSUME NEW t, NEW x, NEW y
    PROVE  Clash(t, x, y) <=> Clash(t, y, x)
  BY DEF Clash

\* A state about none of some objects does not clash with a state about one of them.
LEMMA AmongApart ==
    ASSUME NEW t, NEW x, NEW y, NEW ids, Apart(t, x, ids), Among(t, y, ids)
    PROVE  ~Clash(t, x, y)
<1>1. CASE t = "package_lock"
  <2>1. PICK id \in ids : y.pkgs \subseteq id[1]
    BY <1>1 DEF Among
  <2>2. id[1] \cap x.pkgs = {}
    BY <1>1 DEF Apart
  <2>3. x.pkgs \cap y.pkgs = {}
    BY <2>1, <2>2
  <2>4. QED
    BY <1>1, <2>3 DEF Clash
<1>2. CASE t # "package_lock"
  <2>1. IdOf(t, x) # IdOf(t, y)
    BY <1>2 DEF Apart, Among
  <2>2. QED
    BY <1>2, <2>1 DEF Clash
<1>3. QED
  BY <1>1, <1>2

\* A state about neither of two objects.
LEMMA ApartTwo ==
    ASSUME NEW t, NEW s, NEW a, NEW b, Apart(t, s, {a}), Apart(t, s, {b})
    PROVE  Apart(t, s, {a, b})
  BY DEF Apart

\* A plan that Terraform accepts is about an object no other resource has.
LEMMA FreeApart ==
    ASSUME NEW r \in Resource, NEW at, NEW p, Free(r, at, p)
    PROVE  AllApart(r, at, {IdOf(type[r], p)})
  BY ClashIsApart DEF Free, AllApart

\* and so is a state that is recorded.
LEMMA OwnApart ==
    ASSUME Distinct, NEW r \in Resource, tf[r] # Nil
    PROVE  AllApart(r, tf[r].at, {IdOf(type[r], tf[r].s)})
  BY ClashIsApart DEF Distinct, AllApart

\* The types that move between hosts share nothing, and two of them always clash.
LEMMA MovesAlone ==
    ASSUME EngineInv, OneHostEach, Faulty, NEW r \in Resource, type[r] # None, NEW x, NEW y
    PROVE  Clash(type[r], x, y)
<1>1. PICK q \in Resource : type[q] \in FaultTypes
  BY DEF Faulty
<1>2. type \in Scenarios
  BY DEF EngineInv, Counters
<1>3. type[r] \in Types /\ type[q] \in Types /\ type[q] # None
  BY <1>1, TypeOf, EngineAssumption DEF OneHostEach, Alone
<1>4. type[r] \in {"file", "symlink", "network_stack", "command", "systemd_unit", "timezone", "timesync"}
  <2>1. Kind(type[q]) = Kind(type[r])
    BY <1>2, <1>3, EngineAssumption
  <2>2. type[q] \in {"file", "symlink", "network_stack", "command", "systemd_unit", "timezone", "timesync"}
    BY <1>1 DEF OneHostEach, Alone, SharedTypes, KeyedTypes
  <2>3. QED
    BY <2>1, <2>2 DEF Kind
<1>5. IdOf(type[r], x) = <<>> /\ IdOf(type[r], y) = <<>>
  BY <1>4 DEF IdOf, KeyedTypes
<1>6. QED
  BY <1>4, <1>5 DEF Clash

\* Nothing changes for the other type of the file: a swap does not touch the mounts,
\* and an entry for a mount is none of the swap areas.
LEMMA FstabAside ==
    ASSUME NEW h, FstabFile(h), NEW x, FstabFile(x), NEW k \in MountPoint, DocOnly(h, x, k), x.live = h.live
    PROVE  Aside("fstab_entry", h, x)
<1>1. \A u : u # "fstab_entry" /\ Kind(u) = Kind("fstab_entry") => u = "swap"
  BY DEF Kind
<1>2. \A s : SwapRead(x, s) = SwapRead(h, s)
  BY SwapReadOther
<1>3. \A s : ReadOp("swap", x, s) = SwapRead(x, s) /\ ReadOp("swap", h, s) = SwapRead(h, s)
  BY DEF ReadOp
<1>4. \A s : ReadOp("swap", x, s) = ReadOp("swap", h, s)
  BY <1>2, <1>3
<1>5. QED
  BY <1>1, <1>4 DEF Aside

\* What is read of a mount point's entry does not change when swap lines do.
LEMMA SwapAside ==
    ASSUME NEW h, FstabFile(h), NEW x, SwapLeaves(h, x)
    PROVE  Aside("swap", h, x)
<1>1. \A u : u # "swap" /\ Kind(u) = Kind("swap") => u = "fstab_entry"
  BY DEF Kind
<1>2. \A s : s.k \in MountPoint => FstabRead(x, s) = FstabRead(h, s)
  BY FstabReadOther DEF SwapLeaves
<1>3. \A s : ReadOp("fstab_entry", x, s) = FstabRead(x, s) /\ ReadOp("fstab_entry", h, s) = FstabRead(h, s)
  BY DEF ReadOp
<1>4. \A s : Fits("fstab_entry", s) => s.k \in MountPoint
  BY DEF Fits, FstabState
<1>5. \A s : Fits("fstab_entry", s) => ReadOp("fstab_entry", x, s) = ReadOp("fstab_entry", h, s)
  BY <1>2, <1>3, <1>4
<1>6. QED
  BY <1>1, <1>5 DEF Aside

\* No other two types share a file.
LEMMA OthersAside ==
    ASSUME NEW t, t \notin {"swap", "fstab_entry"}, NEW h, NEW x
    PROVE  Aside(t, h, x)
<1>1. \A u : Kind(u) = Kind(t) => u = t
  BY DEF Kind
<1>2. QED
  BY <1>1 DEF Aside

\* Nothing changes for the other type of the file, or the write of it failed half-way.
AsideOrTorn(t, h, o) == Aside(t, h, o.h) \/ Tears(t, h, o)

\* An operation of a type changes what is read of the other type of its file only when it tears the file.
LEMMA OpsAside ==
    ASSUME NEW t, NEW h, Holds(t, h)
    PROVE  /\ \A p \in Plans(t) : \A o \in CreateOp(t, h, p) : AsideOrTorn(t, h, o)
           /\ \A s : Fits(t, s) => \A p \in Plans(t) : \A o \in UpdateOp(t, h, s, p) : AsideOrTorn(t, h, o)
           /\ \A s : Fits(t, s) => \A o \in DeleteOp(t, h, s) : AsideOrTorn(t, h, o)
<1>1. CASE t = "fstab_entry"
  <2>1. FstabFile(h) /\ \A s : Fits(t, s) => FstabState(s) /\ s.k \in MountPoint
    BY <1>1 DEF Holds, Fits, FstabState
  <2>2. \A p \in Plans(t) : Fits(t, p)
    <3>1. t \in Types
      BY <1>1 DEF Types, FileTypes
    <3>2. QED
      BY <3>1, EveryTypeServed DEF Served, Starts
  <2>3. /\ \A p : CreateOp("fstab_entry", h, p) = FstabCreate(h, p)
        /\ \A s, p : UpdateOp("fstab_entry", h, s, p) = applyFstabEntry(h, p)
        /\ \A s : DeleteOp("fstab_entry", h, s) = FstabDelete(h, s)
    BY DEF CreateOp, UpdateOp, DeleteOp
  <2>4. \A o, k : FstabFile(o.h) /\ k \in MountPoint /\ (DocOnly(h, o.h, k) \/ Cut(h, o)) /\ o.h.live = h.live
                    => AsideOrTorn("fstab_entry", h, o)
    BY <2>1, FstabAside DEF AsideOrTorn, Cut, Tears
  <2>5. \A p \in Plans(t) : \A o \in FstabCreate(h, p) : AsideOrTorn("fstab_entry", h, o)
    BY <2>1, <2>2, <2>4, FstabCreated
  <2>6. \A p \in Plans(t) : \A o \in applyFstabEntry(h, p) : AsideOrTorn("fstab_entry", h, o)
    BY <2>1, <2>2, <2>4, FstabApplied
  <2>7. \A s : Fits(t, s) => \A o \in FstabDelete(h, s) : AsideOrTorn("fstab_entry", h, o)
    BY <2>1, <2>4, FstabDeleted
  <2>8. QED
    BY <1>1, <2>3, <2>5, <2>6, <2>7
<1>2. CASE t = "swap"
  <2>1. FstabFile(h)
    BY <1>2 DEF Holds
  <2>2. \A p \in Plans(t) : SwapState(p)
    <3>1. t \in Types
      BY <1>2 DEF Types, FileTypes
    <3>2. \A p \in Plans(t) : Fits(t, p)
      BY <3>1, EveryTypeServed DEF Served, Starts
    <3>3. QED
      BY <1>2, <3>2 DEF Fits
  <2>3. /\ \A p : CreateOp("swap", h, p) = applySwap(h, p)
        /\ \A s, p : UpdateOp("swap", h, s, p) = applySwap(h, p)
        /\ \A s : DeleteOp("swap", h, s) = SwapDelete(h, s)
    BY DEF CreateOp, UpdateOp, DeleteOp
  <2>4. \A o : SwapLeaves(h, o.h) \/ Cut(h, o) => AsideOrTorn("swap", h, o)
    BY <2>1, SwapAside DEF AsideOrTorn, Cut, Tears
  <2>5. \A p \in Plans(t) : \A o \in applySwap(h, p) : AsideOrTorn("swap", h, o)
    BY <2>1, <2>2, <2>4, SwapApplied
  <2>6. \A s : \A o \in SwapDelete(h, s) : AsideOrTorn("swap", h, o)
    BY <2>1, <2>4, SwapDeleted
  <2>7. QED
    BY <1>2, <2>3, <2>5, <2>6
<1>3. CASE t \notin {"swap", "fstab_entry"}
  BY <1>3, OthersAside DEF AsideOrTorn
<1>4. QED
  BY <1>1, <1>2, <1>3

\* No other resource of r's type on a host is about the object of s.
Clear(r, at, s) ==
    \A q \in Resource \ {r} :
      tf[q] # Nil /\ tf[q].at = at /\ type[q] = type[r] => ~Clash(type[r], tf[q].s, s)

\* A state about objects no other resource has is clear of them,
LEMMA AmongClear ==
    ASSUME NEW r \in Resource, NEW at, NEW ids, NEW s, AllApart(r, at, ids), Among(type[r], s, ids)
    PROVE  Clear(r, at, s)
  BY AmongApart DEF AllApart, Clear

\* and so is what is read of the same object.
LEMMA ClearAmong ==
    ASSUME NEW r \in Resource, NEW at, NEW x, NEW s, Clear(r, at, x), Among(type[r], s, {IdOf(type[r], x)})
    PROVE  Clear(r, at, s)
  BY ClashIsApart, AmongApart DEF Clear

\* A state of an object of its own is recorded for r.
LEMMA ClearRecord ==
    ASSUME EngineInv, Distinct, OnTargets, NEW r \in Resource, NEW at \in Targets, NEW s, NEW x,
           Clear(r, at, s), x.s = s, x.at = at, tf' = [tf EXCEPT ![r] = x], type' = type
    PROVE  Distinct' /\ OnTargets'
<1>1. \A q \in Resource : tf'[q] = IF q = r THEN x ELSE tf[q]
  BY DEF EngineInv, Records
<1>2. Targets' = Targets
  BY DEF Targets, Faulty
<1>3. OnTargets'
  BY <1>1, <1>2 DEF OnTargets
<1>4. ASSUME NEW p \in Resource, NEW q \in Resource, p # q, tf'[p] # Nil, tf'[q] # Nil, type[q] = type[p], tf'[q].at = tf'[p].at
      PROVE  ~Clash(type[p], tf'[q].s, tf'[p].s)
  <2>1. CASE p = r
    BY <1>1, <1>4, <2>1 DEF Clear
  <2>2. CASE q = r
    <3>1. ~Clash(type[q], tf[p].s, s)
      BY <1>1, <1>4, <2>2 DEF Clear
    <3>2. QED
      BY <1>1, <1>4, <2>2, <3>1, ClashTurns
  <2>3. CASE p # r /\ q # r
    BY <1>1, <1>4, <2>3 DEF Distinct
  <2>4. QED
    BY <2>1, <2>2, <2>3
<1>5. QED
  BY <1>3, <1>4 DEF Distinct

\* A record is kept or forgotten.
LEMMA ClearForget ==
    ASSUME EngineInv, Distinct, OnTargets, NEW r \in Resource, tf' = tf \/ tf' = [tf EXCEPT ![r] = Nil], type' = type
    PROVE  Distinct' /\ OnTargets'
<1>1. \A q \in Resource : tf'[q] = tf[q] \/ tf'[q] = Nil
  BY DEF EngineInv, Records
<1>2. Targets' = Targets
  BY DEF Targets, Faulty
<1>3. QED
  BY <1>1, <1>2 DEF Distinct, OnTargets

\* An operation of r on a host that spares the others changes nothing that is recorded of one of them.
LEMMA OthersMatch ==
    ASSUME MarksApart, EngineInv, ContentInv, NEW r \in Resource, type[r] # None, NEW at \in Host, NEW ids, NEW h,
           Spares(type[r], host[at], h, ids), Aside(type[r], host[at], h), AllApart(r, at, ids),
           host' = [host EXCEPT ![at] = h], type' = type,
           NEW q \in Resource \ {r}, tf'[q] = tf[q], q \in dirty => q \in dirty', Match(q)
    PROVE  Match(q)'
<1> SUFFICES ASSUME tf[q] # Nil, q \notin dirty, ~Denormal(type[q], tf[q].s)
             PROVE  ReadOp(type[q], host'[tf[q].at], tf[q].s) = tf[q].s
  BY DEF Match
<1>1. ReadOp(type[q], host[tf[q].at], tf[q].s) = tf[q].s
  BY DEF Match
<1>2. type[q] # None /\ Fits(type[q], tf[q].s) /\ IsState(tf[q].s) /\ tf[q].at \in Host
  BY RecordOf DEF ContentInv, WellRecorded
<1>3. host'[tf[q].at] = IF tf[q].at = at THEN h ELSE host[tf[q].at]
  BY <1>2 DEF EngineInv, HostsShaped
<1>4. CASE tf[q].at # at
  BY <1>1, <1>3, <1>4
<1>5. CASE tf[q].at = at /\ type[q] = type[r]
  <2>1. Apart(type[r], tf[q].s, ids)
    BY <1>5 DEF AllApart
  <2>2. QED
    BY <1>1, <1>2, <1>3, <1>5, <2>1 DEF Spares
<1>6. CASE tf[q].at = at /\ type[q] # type[r]
  <2>1. type \in Scenarios
    BY DEF EngineInv, Counters
  <2>2. type[q] \in Types /\ Kind(type[q]) = Kind(type[r])
    BY <1>2, <2>1, EngineAssumption
  <2>3. ReadOp(type[q], h, tf[q].s) = ReadOp(type[q], host[at], tf[q].s)
    BY <1>2, <1>6, <2>2 DEF Aside
  <2>4. QED
    BY <1>1, <1>3, <1>6, <2>3
<1>7. QED
  BY <1>4, <1>5, <1>6

\* One that tears a file leaves those of other hosts alone, and marks those of the file.
LEMMA TornMatch ==
    ASSUME MarksApart, EngineInv, NEW r \in Resource, NEW at \in Host, NEW o, Tears(type[r], host[at], o),
           host' = [host EXCEPT ![at] = o.h], type' = type, Failure(r, at, o),
           NEW q \in Resource, tf'[q] = tf[q], Match(q)
    PROVE  Match(q)'
<1>1. dirty' = dirty \cup Spoiled(r, at, o)
  BY DEF Failure, Tears, MarksApart
<1>2. CASE o.h = host[at]
  <2>1. host' = host
    BY <1>2 DEF EngineInv, HostsShaped
  <2>2. QED
    BY <1>1, <2>1 DEF Match
<1>3. CASE o.h # host[at] /\ tf[q] # Nil /\ tf[q].at = at
  <2>1. q \in Spoiled(r, at, o)
    BY <1>3 DEF Spoiled
  <2>2. QED
    BY <1>1, <2>1 DEF Match
<1>4. CASE tf[q] # Nil /\ tf[q].at # at
  <2>1. tf[q].at \in Host
    BY <1>4, RecordOf DEF WellRecorded
  <2>2. host'[tf[q].at] = host[tf[q].at]
    BY <1>4, <2>1 DEF EngineInv, HostsShaped
  <2>3. QED
    BY <1>1, <2>2 DEF Match
<1>5. QED
  BY <1>2, <1>3, <1>4 DEF Match

\* StateMatchesHost is about every resource.
LEMMA MatchAll == StateMatchesHost <=> \A q \in Resource : Match(q)
  BY DEF StateMatchesHost, Match

\* What a write records is clear of the others and is what a refresh reports.
LEMMA WrittenMatches ==
    ASSUME MarksApart, NEW r \in Resource, EngineInv, type[r] # None, NEW at, NEW ids, NEW h, NEW o,
           Fine(type[r], h, ids, o), AllApart(r, at, ids), IsState(o.out),
           NEW s, s = readBackState(type[r], o.h, o.out), IsState(s)
    PROVE  /\ Clear(r, at, s)
           /\ ~Denormal(type[r], s) => ReadOp(type[r], o.h, s) = s
<1> DEFINE t == type[r]
           x == o.h
           w == o.out
<1>1. /\ Holds(t, x) /\ Fits(t, w) /\ IsState(w) /\ Among(t, w, ids)
      /\ t \in {"sshd_config", "trusted_cert", "systemd_unit"} \/ InEffect(t, x, w)
      /\ t \in ReadAfterWrite \/ Denormal(t, w) \/ ReadOp(t, x, w) = w
  BY DEF Fine, Reported
<1>2. Clear(r, at, w)
  BY <1>1, AmongClear
<1>3. Reads(t)
  BY TypeOf DEF Served
<1>4. CASE t \in ReadAfterWrite
  <2>1. s = ReadOp(t, x, w)
    BY <1>4 DEF readBackState
  <2> HIDE DEF t, x, w
  <2>2. Fits(t, s) /\ Among(t, s, {IdOf(t, w)}) /\ ReadOp(t, x, s) = s
    BY <1>1, <1>3, <2>1 DEF Reads
  <2>3. Clear(r, at, s)
    BY <1>2, <2>2, ClearAmong DEF t
  <2>4. QED
    BY <2>2, <2>3 DEF t, x
<1>5. CASE t \notin ReadAfterWrite
  <2>1. s = w
    BY <1>5 DEF readBackState
  <2> HIDE DEF t, x, w
  <2>2. ~Denormal(t, s) => ReadOp(t, x, s) = s
    BY <1>1, <1>5, <2>1
  <2>3. QED
    BY <1>2, <2>1, <2>2 DEF t, x
<1>6. QED
  BY <1>4, <1>5

\* A refused operation leaves everything; one that fails marks its resource, and those of a file it tore.
LEMMA UnwrittenMatches ==
    ASSUME MarksApart, EngineInv, ContentInv, MatchInv, NEW r \in Resource, type[r] # None, NEW at \in Host, NEW ids, NEW o,
           Spares(type[r], host[at], o.h, ids) \/ Tears(type[r], host[at], o), AsideOrTorn(type[r], host[at], o),
           AllApart(r, at, ids), o.out = Refused => o.h = host[at],
           host' = [host EXCEPT ![at] = o.h], type' = type, tf' = tf, Failure(r, at, o)
    PROVE  MatchInv'
<1>1. Distinct' /\ OnTargets'
  BY ClearForget DEF MatchInv
<1>2. ASSUME NEW q \in Resource PROVE Match(q)
  BY MatchAll DEF MatchInv
<1>3. CASE o.out = Refused
  <2>1. host' = host
    BY <1>3 DEF EngineInv, HostsShaped
  <2>2. dirty' = dirty
    BY <1>3 DEF Failure
  <2>3. QED
    BY <1>1, <2>1, <2>2 DEF MatchInv, StateMatchesHost
<1>4. CASE Tears(type[r], host[at], o)
  <2>1. \A q \in Resource : Match(q)'
    BY <1>2, <1>4, TornMatch
  <2>2. StateMatchesHost'
    BY <2>1 DEF StateMatchesHost, Match
  <2>3. QED
    BY <1>1, <2>2 DEF MatchInv
<1>5. CASE o.out # Refused /\ ~Tears(type[r], host[at], o)
  <2>1. dirty' = dirty \cup Spoiled(r, at, o)
    BY <1>5 DEF Failure
  <2>2. ASSUME NEW q \in Resource \ {r} PROVE Match(q)'
    BY <1>2, <1>5, <2>1, <2>2, OthersMatch DEF AsideOrTorn
  <2>3. tf[r] # Nil => r \in dirty'
    BY <2>1 DEF Spoiled
  <2>4. Match(r)'
    BY <2>3 DEF Match
  <2>5. StateMatchesHost'
    BY <2>2, <2>4 DEF StateMatchesHost, Match
  <2>6. QED
    BY <1>1, <2>5 DEF MatchInv
<1>6. QED
  BY <1>3, <1>4, <1>5

\* A write of r, whatever its outcome.
LEMMA RecordMatch ==
    ASSUME MarksApart, EngineInv, ContentInv, MatchInv, NEW r \in Resource, type[r] # None, NEW at \in Targets, NEW ids,
           NEW o, NEW allow, Fine(type[r], host[at], ids, o), AsideOrTorn(type[r], host[at], o), AllApart(r, at, ids),
           o.out = Refused => o.h = host[at], Record(r, at, o, allow), type' = type
    PROVE  MatchInv'
<1> DEFINE s == IF IsState(o.out) THEN readBackState(type[r], o.h, o.out) ELSE o.out
<1>1. at \in Host /\ (Spares(type[r], host[at], o.h, ids) \/ Tears(type[r], host[at], o))
  BY TargetsAreHosts DEF Fine
<1>2. /\ host' = [host EXCEPT ![at] = o.h]
      /\ \/ IsState(s) /\ (\E fp : tf' = [tf EXCEPT ![r] = Recorded(s, at, fp, allow)]) /\ dirty' = dirty \ {r}
         \/ tf' = tf /\ Failure(r, at, o)
  BY DEF Record
<1>3. CASE tf' = tf /\ Failure(r, at, o)
  BY <1>1, <1>2, <1>3, UnwrittenMatches
<1>4. ASSUME IsState(s), NEW fp, tf' = [tf EXCEPT ![r] = Recorded(s, at, fp, allow)], dirty' = dirty \ {r}
      PROVE  MatchInv'
  <2>1. IsState(o.out) /\ s = readBackState(type[r], o.h, o.out)
    BY <1>4
  <2>2. o.out # Failed
    BY <2>1 DEF IsState, MarksApart
  <2>3. Spares(type[r], host[at], o.h, ids) /\ Aside(type[r], host[at], o.h)
    BY <1>1, <2>2 DEF AsideOrTorn, Tears
  <2>4. Clear(r, at, s) /\ (~Denormal(type[r], s) => ReadOp(type[r], o.h, s) = s)
    BY <1>4, <2>1, WrittenMatches
  <2> HIDE DEF s
  <2> DEFINE x == Recorded(s, at, fp, allow)
  <2>5. x.s = s /\ x.at = at
    BY DEF Recorded
  <2>6. tf' = [tf EXCEPT ![r] = x]
    BY <1>4
  <2> HIDE DEF x
  <2>7. Distinct' /\ OnTargets'
    BY <2>4, <2>5, <2>6, ClearRecord DEF MatchInv
  <2>8. \A q \in Resource : tf'[q] = IF q = r THEN x ELSE tf[q]
    BY <2>6 DEF EngineInv, Records
  <2>9. ASSUME NEW q \in Resource \ {r} PROVE Match(q)'
    BY <1>1, <1>2, <1>4, <2>8, <2>3, OthersMatch, MatchAll DEF MatchInv
  <2>10. host'[at] = o.h
    BY <1>1, <1>2 DEF EngineInv, HostsShaped
  <2>11. Match(r)'
    BY <2>4, <2>5, <2>8, <2>10 DEF Match
  <2>12. \A q \in Resource : Match(q)'
    BY <2>9, <2>11
  <2>13. StateMatchesHost'
    BY <2>12 DEF StateMatchesHost, Match
  <2>14. QED
    BY <2>7, <2>13 DEF MatchInv
<1>5. QED
  BY <1>2, <1>3, <1>4

\* An update is about its plan and its prior state, which no other resource has: on
\* another host than before it is the only resource of its type.
LEMMA UpdateApart ==
    ASSUME EngineInv, OneHostEach, Distinct, OnTargets, NEW r \in Resource, type[r] # None, tf[r] # Nil,
           NEW at \in Targets, NEW p, Free(r, at, p)
    PROVE  AllApart(r, at, {IdOf(type[r], p), IdOf(type[r], tf[r].s)})
<1>1. CASE tf[r].at = at
  <2>1. AllApart(r, at, {IdOf(type[r], p)}) /\ AllApart(r, at, {IdOf(type[r], tf[r].s)})
    BY <1>1, FreeApart, OwnApart
  <2>2. QED
    BY <2>1, ApartTwo DEF AllApart
<1>2. CASE tf[r].at # at
  <2>1. Faulty
    BY <1>2 DEF OnTargets, Targets
  <2>2. \A x, y : Clash(type[r], x, y)
    BY <2>1, MovesAlone
  <2>3. QED
    BY <2>2 DEF Free, AllApart
<1>3. QED
  BY <1>1, <1>2

\* A refused operation leaves its host, as EngineRefusals has it.
LEMMA RefusedStays ==
    ASSUME MarksApart, EngineInv, NEW r \in Resource, type[r] # None, NEW at \in Host
    PROVE  /\ \A p \in Plans(type[r]) : \A o \in CreateOp(type[r], host[at], p) : o.out = Refused => o.h = host[at]
           /\ \A p \in Plans(type[r]) : \A o \in UpdateOp(type[r], host[at], tf[r].s, p) : o.out = Refused => o.h = host[at]
           /\ tf[r] # Nil => \A o \in DeleteOp(type[r], host[at], tf[r].s) : o.out = Refused => o.h = host[at]
<1>1. type[r] \in Types /\ HostShape(type[r], host[at])
  BY TypeOf DEF EngineInv, HostsShaped
<1>2. \A p \in Plans(type[r]) : IsState(p)
  BY <1>1, PlansAreStates
<1>3. tf[r] # Nil => IsState(tf[r].s)
  BY RecordOf DEF WellRecorded
<1>4. ASSUME NEW p, IsState(p)
      PROVE  /\ Harmless(host[at], CreateOp(type[r], host[at], p))
             /\ Harmless(host[at], UpdateOp(type[r], host[at], tf[r].s, p))
             /\ Harmless(host[at], DeleteOp(type[r], host[at], tf[r].s))
  BY <1>1, <1>4, OpsHarmless
<1>5. QED
  BY <1>2, <1>3, <1>4 DEF Harmless

\* What a refresh or an import records.
LEMMA ReadMatch ==
    ASSUME MarksApart, EngineInv, ContentInv, MatchInv, NEW r \in Resource, type[r] # None, NEW at \in Targets,
           NEW s, Clear(r, at, s), ReadOp(type[r], host[at], s) = s, NEW fp, NEW allow,
           tf' = [tf EXCEPT ![r] = Recorded(s, at, fp, allow)], dirty' = dirty \ {r},
           type' = type, host' = host
    PROVE  MatchInv'
<1> DEFINE x == Recorded(s, at, fp, allow)
<1>1. x.s = s /\ x.at = at /\ tf' = [tf EXCEPT ![r] = x]
  BY DEF Recorded
<1> HIDE DEF x
<1>2. Distinct' /\ OnTargets'
  BY <1>1, ClearRecord DEF MatchInv
<1>3. \A q \in Resource : tf'[q] = IF q = r THEN x ELSE tf[q]
  BY <1>1 DEF EngineInv, Records
<1>4. ASSUME NEW q \in Resource PROVE Match(q)'
  <2>1. CASE q = r
    BY <1>1, <1>3, <2>1 DEF Match
  <2>2. CASE q # r
    BY <1>3, <2>2, MatchAll DEF Match, MatchInv
  <2>3. QED
    BY <2>1, <2>2
<1>5. StateMatchesHost'
  BY <1>4 DEF StateMatchesHost, Match
<1>6. QED
  BY <1>2, <1>5 DEF MatchInv

\* A resource is forgotten, and its host is as it was.
LEMMA ForgetMatch ==
    ASSUME EngineInv, MatchInv, NEW r \in Resource, Forget(r), type' = type, host' = host
    PROVE  MatchInv'
<1>1. tf' = [tf EXCEPT ![r] = Nil] /\ dirty' = dirty \ {r}
  BY DEF Forget
<1>2. Distinct' /\ OnTargets'
  BY <1>1, ClearForget DEF MatchInv
<1>3. \A q \in Resource : tf'[q] = IF q = r THEN Nil ELSE tf[q]
  BY <1>1 DEF EngineInv, Records
<1>4. StateMatchesHost'
  BY <1>1, <1>3 DEF StateMatchesHost, MatchInv
<1>5. QED
  BY <1>2, <1>4 DEF MatchInv

\* A create keeps what is recorded and what is on the hosts together.
LEMMA CreateMatch ==
    ASSUME MarksApart, EngineInv, ContentInv, MatchInv, NEW r \in Resource, Create(r)
    PROVE  MatchInv'
<1>1. type[r] # None /\ type' = type
  BY DEF Create
<1>2. PICK at \in Targets, p \in Plans(type[r]), allow \in Permissions(type[r]) :
        Free(r, at, p) /\ \E o \in CreateOp(type[r], host[at], p) : Record(r, at, o, allow)
  BY DEF Create
<1>3. PICK o \in CreateOp(type[r], host[at], p) : Record(r, at, o, allow)
  BY <1>2
<1>4. at \in Host
  BY TargetsAreHosts
<1>5. Fine(type[r], host[at], {IdOf(type[r], p)}, o)
  BY <1>1, <1>4, OperationFine
<1>6. AsideOrTorn(type[r], host[at], o)
  BY <1>1, <1>4, OpsAside DEF ContentInv
<1>7. AllApart(r, at, {IdOf(type[r], p)})
  BY <1>2, FreeApart
<1>8. o.out = Refused => o.h = host[at]
  BY <1>1, <1>4, RefusedStays
<1>9. QED
  BY <1>1, <1>3, <1>5, <1>6, <1>7, <1>8, RecordMatch

\* and so does an update, on the old host or on another,
LEMMA UpdateMatch ==
    ASSUME MarksApart, OneHostEach, EngineInv, ContentInv, MatchInv, NEW r \in Resource, Update(r)
    PROVE  MatchInv'
<1>1. type[r] # None /\ type' = type /\ tf[r] # Nil
  BY DEF Update
<1>2. PICK at \in Targets, p \in Plans(type[r]), allow \in Permissions(type[r]) :
        Free(r, at, p) /\ \E o \in UpdateOp(type[r], host[at], tf[r].s, p) : Record(r, at, o, allow)
  BY DEF Update
<1>3. PICK o \in UpdateOp(type[r], host[at], tf[r].s, p) : Record(r, at, o, allow)
  BY <1>2
<1>4. at \in Host
  BY TargetsAreHosts
<1>5. Fine(type[r], host[at], {IdOf(type[r], p), IdOf(type[r], tf[r].s)}, o)
  BY <1>1, <1>4, OperationFine
<1>6. AsideOrTorn(type[r], host[at], o)
  BY <1>1, <1>4, OpsAside DEF ContentInv
<1>7. AllApart(r, at, {IdOf(type[r], p), IdOf(type[r], tf[r].s)})
  BY <1>1, <1>2, UpdateApart DEF MatchInv
<1>8. o.out = Refused => o.h = host[at]
  BY <1>1, <1>4, RefusedStays
<1>9. QED
  BY <1>1, <1>3, <1>5, <1>6, <1>7, <1>8, RecordMatch

\* a refresh,
LEMMA RefreshMatch ==
    ASSUME MarksApart, EngineInv, ContentInv, MatchInv, NEW r \in Resource, Read(r)
    PROVE  MatchInv'
<1> DEFINE at == tf[r].at
           s == ReadOp(type[r], host[at], tf[r].s)
<1>1. type[r] # None /\ tf[r] # Nil /\ type' = type /\ host' = host
  BY DEF Read
<1>2. at \in Host /\ at \in Targets
  BY <1>1, RecordOf DEF WellRecorded, MatchInv, OnTargets
<1>3. \/ Forget(r)
      \/ /\ IsState(s) /\ dirty' = dirty \ {r}
         /\ \E fp : tf' = [tf EXCEPT ![r] = Recorded(s, at, fp, tf[r].allow)]
  BY DEF Read, IsState, NotFound, EngineInv, Records
<1>4. CASE Forget(r)
  BY <1>1, <1>4, ForgetMatch
<1>5. ASSUME IsState(s), NEW fp, tf' = [tf EXCEPT ![r] = Recorded(s, at, fp, tf[r].allow)], dirty' = dirty \ {r}
      PROVE  MatchInv'
  <2>1. Among(type[r], s, {IdOf(type[r], tf[r].s)}) /\ ReadOp(type[r], host[at], s) = s
    BY <1>1, <1>2, <1>5, ReadFine
  <2>2. AllApart(r, at, {IdOf(type[r], tf[r].s)})
    BY <1>1, OwnApart DEF MatchInv
  <2> HIDE DEF s, at
  <2>3. Clear(r, at, s)
    BY <2>1, <2>2, AmongClear
  <2>4. QED
    BY <1>1, <1>2, <1>5, <2>1, <2>3, ReadMatch
<1>6. QED
  BY <1>3, <1>4, <1>5

\* a delete,
LEMMA DeleteMatch ==
    ASSUME MarksApart, EngineInv, ContentInv, MatchInv, NEW r \in Resource, Delete(r)
    PROVE  MatchInv'
<1> DEFINE at == tf[r].at
           ids == {IdOf(type[r], tf[r].s)}
<1>1. type[r] # None /\ tf[r] # Nil /\ type' = type
  BY DEF Delete
<1>2. at \in Host
  BY <1>1, RecordOf DEF WellRecorded
<1>3. \/ Forget(r) /\ host' = host
      \/ \E o \in DeleteOp(type[r], host[at], tf[r].s) :
           /\ host' = [host EXCEPT ![at] = o.h]
           /\ \/ o.out = Nil /\ Forget(r)
              \/ o.out # Nil /\ tf' = tf /\ Failure(r, at, o)
  BY DEF Delete
<1>4. CASE Forget(r) /\ host' = host
  BY <1>1, <1>4, ForgetMatch
<1>5. ASSUME NEW o \in DeleteOp(type[r], host[at], tf[r].s), host' = [host EXCEPT ![at] = o.h],
             \/ o.out = Nil /\ Forget(r)
             \/ o.out # Nil /\ tf' = tf /\ Failure(r, at, o)
      PROVE  MatchInv'
  <2>1. Spares(type[r], host[at], o.h, ids) \/ Tears(type[r], host[at], o)
    BY <1>1, <1>2, OperationFine DEF Fine
  <2>2. AsideOrTorn(type[r], host[at], o)
    BY <1>1, <1>2, OpsAside DEF ContentInv
  <2>3. AllApart(r, at, ids)
    BY <1>1, OwnApart DEF MatchInv
  <2>4. o.out = Refused => o.h = host[at]
    BY <1>1, <1>2, RefusedStays
  <2>5. CASE o.out # Nil /\ tf' = tf /\ Failure(r, at, o)
    <3> HIDE DEF ids, at
    <3>1. QED
      BY <1>1, <1>2, <1>5, <2>1, <2>2, <2>3, <2>4, <2>5, UnwrittenMatches
  <2>6. CASE o.out = Nil /\ Forget(r)
    <3>1. Spares(type[r], host[at], o.h, ids) /\ Aside(type[r], host[at], o.h)
      BY <2>1, <2>2, <2>6 DEF AsideOrTorn, Tears, MarksApart
    <3>2. tf' = [tf EXCEPT ![r] = Nil] /\ dirty' = dirty \ {r}
      BY <2>6 DEF Forget
    <3>3. Distinct' /\ OnTargets'
      BY <1>1, <3>2, ClearForget DEF MatchInv
    <3>4. \A q \in Resource : tf'[q] = IF q = r THEN Nil ELSE tf[q]
      BY <3>2 DEF EngineInv, Records
    <3> HIDE DEF ids, at
    <3>5. ASSUME NEW q \in Resource \ {r} PROVE Match(q)'
      <4>1. Match(q) /\ tf'[q] = tf[q] /\ (q \in dirty => q \in dirty')
        BY <3>2, <3>4, MatchAll DEF MatchInv
      <4>2. QED
        BY <1>1, <1>2, <1>5, <2>3, <3>1, <4>1, OthersMatch
    <3>6. Match(r)'
      BY <3>4 DEF Match
    <3>7. \A q \in Resource : Match(q)'
      BY <3>5, <3>6
    <3>8. StateMatchesHost'
      BY <3>7 DEF StateMatchesHost, Match
    <3>9. QED
      BY <3>3, <3>8 DEF MatchInv
  <2>7. QED
    BY <1>5, <2>5, <2>6
<1>6. QED
  BY <1>3, <1>4, <1>5

\* and an import.
LEMMA ImportMatch ==
    ASSUME MarksApart, EngineInv, ContentInv, MatchInv, NEW r \in Resource, ImportState(r)
    PROVE  MatchInv'
<1>1. type[r] # None /\ type' = type /\ host' = host /\ dirty' = dirty \ {r}
  BY DEF ImportState
<1>2. PICK at \in Targets, id \in ImportIds(type[r]) :
        /\ IsState(ReadOp(type[r], host[at], id)) /\ Free(r, at, ReadOp(type[r], host[at], id))
        /\ \E fp : tf' = [tf EXCEPT ![r] = Recorded(ReadOp(type[r], host[at], id), at, fp, "null")]
  BY DEF ImportState
<1> DEFINE s == ReadOp(type[r], host[at], id)
<1>3. ReadOp(type[r], host[at], s) = s
  BY <1>1, <1>2, TargetsAreHosts, ReadFine
<1>4. Clear(r, at, s)
  BY <1>2 DEF Free, Clear
<1>5. PICK fp : tf' = [tf EXCEPT ![r] = Recorded(s, at, fp, "null")]
  BY <1>2
<1> HIDE DEF s
<1>6. QED
  BY <1>1, <1>3, <1>4, <1>5, ReadMatch

\* An outage changes no host, and the resources of a rebuilt one are marked.
LEMMA FaultMatch ==
    ASSUME EngineInv, MatchInv, NEW h \in Host, HostFault(h)
    PROVE  MatchInv'
<1>1. type' = type /\ tf' = tf
  BY DEF HostFault
<1>2. Distinct' /\ OnTargets'
  BY <1>1 DEF MatchInv, Distinct, OnTargets, Targets, Faulty
<1>3. ASSUME NEW q \in Resource, tf[q] # Nil, q \notin dirty'
      PROVE  q \notin dirty /\ host'[tf[q].at] = host[tf[q].at]
  <2>1. tf[q].at \in Host
    BY <1>3, RecordOf DEF WellRecorded
  <2>2. CASE host' = host /\ dirty' = dirty
    BY <1>3, <2>2
  <2>3. CASE /\ \E x \in HostsOf(type) : host' = [host EXCEPT ![h] = x]
             /\ dirty' = dirty \cup {r \in Resource : tf[r] # Nil /\ tf[r].at = h}
    BY <1>3, <2>1, <2>3 DEF EngineInv, HostsShaped
  <2>4. QED
    BY <2>2, <2>3 DEF HostFault
<1>4. StateMatchesHost'
  BY <1>1, <1>3 DEF MatchInv, StateMatchesHost
<1>5. QED
  BY <1>2, <1>4 DEF MatchInv

\* What Terraform keeps of a resource is what a refresh would report, until an operation on it
\* fails, its host is rebuilt, or a failed write tears the file it is in.
THEOREM EngineStateMatches == ASSUME MarksApart, OneHostEach PROVE Spec => []StateMatchesHost
<1>1. Init => MatchInv
  BY DEF Init, MatchInv, Distinct, OnTargets, StateMatchesHost
<1>2. ASSUME EngineInv, ContentInv, MatchInv, [Next]_vars PROVE MatchInv'
  <2>1. CASE UNCHANGED vars
    BY <1>2, <2>1 DEF vars, MatchInv, Distinct, OnTargets, Targets, Faulty, StateMatchesHost
  <2>2. ASSUME NEW r \in Resource, Create(r) \/ Update(r) \/ Read(r) \/ Delete(r) \/ ImportState(r)
        PROVE  MatchInv'
    BY <1>2, <2>2, CreateMatch, UpdateMatch, RefreshMatch, DeleteMatch, ImportMatch
  <2>3. ASSUME NEW h \in Host, HostFault(h) PROVE MatchInv'
    BY <1>2, <2>3, FaultMatch
  <2>4. QED
    BY <1>2, <2>1, <2>2, <2>3 DEF Next
<1>3. MatchInv => StateMatchesHost
  BY DEF MatchInv
<1>4. QED
  BY <1>1, <1>2, <1>3, EngineInvariant, ContentInvariant, PTL DEF Spec
=============================================================================
