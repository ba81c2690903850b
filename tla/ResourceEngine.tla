--------------------------- MODULE ResourceEngine ---------------------------
(***************************************************************************)
(* The generic resource of the provider: Terraform's create, refresh,      *)
(* update, delete and import of resources, each sent to the guest pack of  *)
(* its type on the resource's host.  A behaviour follows one scenario: the *)
(* types of its resources, which share (part of) a host.  Hosts may become *)
(* unreachable, come back, or be rebuilt under the same address with       *)
(* another host key; that happens in the scenarios of FaultTypes, which    *)
(* also move resources between hosts.  An action is a plan and its apply:  *)
(* the operation locks of the executor (module OperationJournal) keep      *)
(* operations on the same objects apart.                                   *)
(***************************************************************************)
EXTENDS LockPlanning

CONSTANTS Resource, Host, MainHost,
          Scenarios,    \* functions from Resource to Types or None
          FaultTypes,   \* types whose scenarios have several hosts and faults
          MaxFaults,    \* bound: outages, returns and rebuilds of hosts
          VaryAllow,    \* types whose configurations do not always allow the destroy
          None          \* a resource the scenario does not have, an absent value

\* The types that share a file.
Kind(t) == IF t = "swap" THEN "fstab_entry" ELSE t

\* All resources of a scenario work on one kind of host, and Nil is no configuration.
ASSUME EngineAssumption ==
  /\ MainHost \in Host /\ MaxFaults \in Nat
  /\ Scenarios \subseteq [Resource -> Types \cup {None}] /\ None \notin Types
  /\ \A f \in Scenarios : \A r, q \in Resource : None \in {f[r], f[q]} \/ Kind(f[r]) = Kind(f[q])
  /\ \A t \in Types : Nil \notin Plans(t)

VARIABLES
  type,     \* the scenario
  host,     \* what each host holds
  key,      \* the host key each host presents
  up,       \* the hosts that can be reached
  tf,       \* the state Terraform keeps of each resource, or Nil
  priv,     \* the private state: the destroy permission ModifyPlan stored
  dirty,    \* resources whose last operation failed on the host, whose file another
            \* operation left torn, or whose host was rebuilt (history)
  met,      \* the key of the host at the last operation on the resource there (history)
  faults

vars == <<type, host, key, up, tf, priv, dirty, met, faults>>

Permission == {"null", "yes", "no"}

Faulty == \E r \in Resource : type[r] \in FaultTypes
Targets == IF Faulty THEN Host ELSE {MainHost}

HostsOf(f) == Hosts(f[CHOOSE r \in Resource : f[r] # None])

Init ==
  /\ type \in Scenarios
  /\ \E h \in HostsOf(type) : host = [x \in Host |-> h]
  /\ key = [x \in Host |-> 1]
  /\ up = Host
  /\ tf = [r \in Resource |-> Nil]
  /\ priv = [r \in Resource |-> "null"]
  /\ dirty = {}
  /\ met = [r \in Resource |-> 0]
  /\ faults = 0

-----------------------------------------------------------------------------
destroySafetyUsesAllowFlag(t) == destroySafety(t) \in {"critical_object", "explicit_allow"}

Permissions(t) ==
  CASE t \in VaryAllow -> Permission
    [] t \notin VaryAllow /\ destroySafetyUsesAllowFlag(t) -> {"yes"}
    [] OTHER -> {"null"}

\* The private state ModifyPlan leaves: a permission that is not set changes nothing.
storeGenericAllowDestroyFromConfig(r, allow) ==
  IF allow = "null" THEN priv[r] ELSE allow

allowDestructiveDestroyFromStateOrPrivate(r) == tf[r].allow = "yes" \/ priv[r] = "yes"

checkDestroySafety(t, s, allow) ==
  CASE destroySafety(t) = "none" -> TRUE
    [] destroySafety(t) = "no_destroy" -> FALSE
    [] OTHER -> allow \/ ~Guard(t, s)

\* A configuration gives its resources different objects.
Free(r, at, p) ==
  \A q \in Resource \ {r} :
     tf[q] # Nil /\ tf[q].at = at /\ type[q] = type[r] => ~Clash(type[r], tf[q].s, p)

\* The session to a host: it answers, and presents the key recorded with the resource,
\* if one is (0 is none), for the same host.
\* Mutant: the key is checked when it is given, and never given.
applyNoFingerprint(at, r) == TRUE
applyPinnedHostKeyFingerprint(at, r) == tf[r] # Nil /\ tf[r].at = at /\ tf[r].fp # 0 => key[at] = tf[r].fp
sendOperation(at, r) == at \in up /\ applyPinnedHostKeyFingerprint(at, r)

\* What is recorded when the session has left the pool before its key is asked for:
\* the key of the prior state, if that was of the same host.
\* Mutant: nothing is.
FallbackNull(at, r) == 0
FallbackFingerprint(at, r) == IF tf[r] # Nil /\ tf[r].at = at THEN tf[r].fp ELSE 0

\* The key found after an operation.  Where no host is rebuilt, which is recorded makes
\* no difference.
observedHostKeyFingerprintValue(at, r) == {key[at]} \cup (IF Faulty THEN {FallbackFingerprint(at, r)} ELSE {})

\* The state recorded after a write.  Some types are read back first.
readBackState(t, h, s) == IF t \in ReadAfterWrite THEN ReadOp(t, h, s) ELSE s

Recorded(s, at, fp, allow) == [s |-> s, at |-> at, fp |-> fp, allow |-> allow]

\* Whose state the failed operation o of r on host at leaves in doubt: that of r, and of
\* all that share the file it tore.
Spoiled(r, at, o) ==
  {q \in Resource : tf[q] # Nil /\ (q = r \/ (tf[q].at = at /\ Tears(type[r], host[at], o) /\ o.h # host[at]))}

Failure(r, at, o) == dirty' = IF o.out = Refused THEN dirty ELSE dirty \cup Spoiled(r, at, o)

\* The key r has met on host at, if it is there afterwards.
Meet(r, at) == met' = [met EXCEPT ![r] = CASE tf'[r] = Nil -> 0 [] tf'[r] # Nil /\ tf'[r].at = at -> key[at] [] OTHER -> @]

\* The outcome o of a write of r on host at: the state s replaces the old one, or
\* the write failed and the old state stays.
Record(r, at, o, allow) ==
  LET s == IF IsState(o.out) THEN readBackState(type[r], o.h, o.out) ELSE o.out
  IN /\ host' = [host EXCEPT ![at] = o.h]
     /\ \/ /\ IsState(s)
           /\ \E fp \in observedHostKeyFingerprintValue(at, r) : tf' = [tf EXCEPT ![r] = Recorded(s, at, fp, allow)]
           /\ dirty' = dirty \ {r}
        \/ /\ ~IsState(s) \/ type[r] \in ReadAfterWrite     \* the read back may fail
           /\ Failure(r, at, o)
           /\ UNCHANGED tf
     /\ Meet(r, at)

\* The probe of ModifyPlan for an existing object is made when the plan is, and says
\* nothing of the apply: the packs look themselves.
Create(r) ==
  /\ type[r] # None /\ tf[r] = Nil
  /\ \E at \in Targets, p \in Plans(type[r]), allow \in Permissions(type[r]) :
       /\ sendOperation(at, r) /\ Free(r, at, p)
       /\ \E o \in CreateOp(type[r], host[at], p) :
            /\ Record(r, at, o, allow)
            /\ priv' = [priv EXCEPT ![r] = IF tf'[r] = Nil THEN "null" ELSE storeGenericAllowDestroyFromConfig(r, allow)]
  /\ UNCHANGED <<type, key, up, faults>>

\* The prior state is sent to the host the plan names, which may be another one.
Update(r) ==
  /\ type[r] # None /\ tf[r] # Nil
  /\ \E at \in Targets, p \in Plans(type[r]), allow \in Permissions(type[r]) :
       /\ sendOperation(at, r) /\ Free(r, at, p)
       /\ \E o \in UpdateOp(type[r], host[at], tf[r].s, p) : Record(r, at, o, allow)
       /\ priv' = [priv EXCEPT ![r] = storeGenericAllowDestroyFromConfig(r, allow)]
  /\ UNCHANGED <<type, key, up, faults>>

Forget(r) ==
  /\ tf' = [tf EXCEPT ![r] = Nil]
  /\ priv' = [priv EXCEPT ![r] = "null"]
  /\ dirty' = dirty \ {r}

\* Mutant: an answer without a state is taken for one.
AlwaysFound(s) == FALSE
NotFound(s) == s = Nil

\* A refresh: the state becomes what the host reports; an object that is gone is
\* forgotten, and so is every object of a host that cannot be dialled.
Read(r) ==
  /\ type[r] # None /\ tf[r] # Nil
  /\ LET at == tf[r].at
         s == ReadOp(type[r], host[at], tf[r].s)
     IN \/ /\ sendOperation(at, r) /\ s \notin {Refused, Failed} /\ ~NotFound(s)
           /\ \E fp \in observedHostKeyFingerprintValue(at, r) : tf' = [tf EXCEPT ![r] = Recorded(s, at, fp, @.allow)]
           /\ dirty' = dirty \ {r}
           /\ UNCHANGED priv
        \/ /\ at \notin up \/ (sendOperation(at, r) /\ NotFound(s))
           /\ Forget(r)
  /\ Meet(r, tf[r].at)
  /\ UNCHANGED <<type, host, key, up, faults>>

\* The state records that the object is not there.
isAbsentResourceState(s) == "ensure" \in DOMAIN s /\ s.ensure = "absent"
Removable(r) == tf[r] # Nil /\ ~isAbsentResourceState(tf[r].s)

\* A resource recorded as absent is forgotten, and its host is not asked.
Delete(r) ==
  /\ type[r] # None /\ tf[r] # Nil
  /\ LET at == tf[r].at
     IN \/ ~Removable(r) /\ Forget(r) /\ UNCHANGED host
        \/ /\ Removable(r)
           /\ checkDestroySafety(type[r], tf[r].s, allowDestructiveDestroyFromStateOrPrivate(r))
           /\ sendOperation(at, r)
           /\ \E o \in DeleteOp(type[r], host[at], tf[r].s) :
                /\ host' = [host EXCEPT ![at] = o.h]
                /\ \/ o.out = Nil /\ Forget(r)
                   \/ o.out # Nil /\ Failure(r, at, o) /\ UNCHANGED <<tf, priv>>
  /\ Meet(r, tf[r].at)
  /\ UNCHANGED <<type, key, up, faults>>

ImportState(r) ==
  /\ type[r] # None /\ tf[r] = Nil
  /\ \E at \in Targets, id \in ImportIds(type[r]) :
       LET s == ReadOp(type[r], host[at], id)
       IN /\ sendOperation(at, r) /\ IsState(s) /\ Free(r, at, s)
          /\ \E fp \in observedHostKeyFingerprintValue(at, r) : tf' = [tf EXCEPT ![r] = Recorded(s, at, fp, "null")]
          /\ Meet(r, at)
  /\ dirty' = dirty \ {r}
  /\ UNCHANGED <<type, host, key, up, priv, faults>>

\* A host becomes unreachable or reachable, or is rebuilt: what it held and its key
\* are new.
HostFault(h) ==
  /\ Faulty /\ faults < MaxFaults
  /\ faults' = faults + 1
  /\ \/ /\ up' = IF h \in up THEN up \ {h} ELSE up \cup {h}
        /\ UNCHANGED <<host, key, dirty>>
     \/ /\ key' = [key EXCEPT ![h] = @ + 1]
        /\ \E x \in HostsOf(type) : host' = [host EXCEPT ![h] = x]
        /\ dirty' = dirty \cup {r \in Resource : tf[r] # Nil /\ tf[r].at = h}
        /\ UNCHANGED up
  /\ UNCHANGED <<type, tf, priv, met>>

Next ==
  \/ \E r \in Resource : Create(r) \/ Update(r) \/ Read(r) \/ Delete(r) \/ ImportState(r)
  \/ \E h \in Host : HostFault(h)

Spec == Init /\ [][Next]_vars

-----------------------------------------------------------------------------
\* Every host holds something of its scenario's kind, permissions are permissions, and
\* a recorded state names a host and a key it has had, or none.
EngineTypeOK ==
  /\ type \in Scenarios /\ up \subseteq Host /\ dirty \subseteq Resource
  /\ key \in [Host -> 1 .. MaxFaults + 1] /\ met \in [Resource -> 0 .. MaxFaults + 1] /\ faults \in 0 .. MaxFaults
  /\ priv \in [Resource -> Permission]
  /\ \A r \in Resource :
       tf[r] # Nil => IsState(tf[r].s) /\ tf[r].at \in Host /\ tf[r].fp \in 0 .. key[tf[r].at] /\ tf[r].allow \in Permission

\* The states a read reports in another form than the write that made them: a hosts
\* comment that was written with its leading '#', the groups a user had beside those
\* that were added, and a user or group that was renamed and removed in one update.
Denormal(t, s) ==
  \/ t = "hosts_entry" /\ s.v = "#c"
  \/ t = "user" /\ (s.append \/ s.ensure = "absent")
  \/ t = "group" /\ s.ensure = "absent"

\* What Terraform keeps of a resource is what a refresh would report, until an
\* operation on it fails, its host is rebuilt, or a failed write tears the file it is
\* in, which cannot be renamed over: no other operation of another resource in the same
\* file changes it, failed or not, and no write reports what it did not do.
StateMatchesHost ==
  \A r \in Resource :
    tf[r] # Nil /\ r \notin dirty /\ ~Denormal(type[r], tf[r].s)
      => ReadOp(type[r], host[tf[r].at], tf[r].s) = tf[r].s

\* The operations on r that could come next on host at, as <<type, objects named, host
\* before, outcomes>>, and those on all resources of some types.
OpsOf(r, at) ==
  {<<type[r], {IdOf(type[r], p)}, host[at], CreateOp(type[r], host[at], p)>> :
      p \in IF tf[r] = Nil THEN Plans(type[r]) ELSE {}}
  \cup {<<type[r], {IdOf(type[r], p), IdOf(type[r], tf[r].s)}, host[at], UpdateOp(type[r], host[at], tf[r].s, p)>> :
      p \in IF tf[r] = Nil THEN {} ELSE Plans(type[r])}
  \cup {<<type[r], {IdOf(type[r], s.s)}, host[at], DeleteOp(type[r], host[at], s.s)>> :
      s \in IF Removable(r) THEN {tf[r]} ELSE {}}

NextOps(types) == UNION {OpsOf(r, at) : r \in {q \in Resource : type[q] \in types}, at \in Targets}

\* Whatever an operation does, and wherever it stops, the lines of other objects and
\* those nobody manages stay, in their order, and no job of the user's own leaves a
\* crontab other than into the block that adopts it.  The exception is the write of a
\* file that cannot be renamed over: it is rewritten in place, and when that fails the
\* lines of others may be gone with the rest (Tears).
OthersKept ==
  \A op \in NextOps(SharedTypes) : \A o \in op[4] :
    /\ Tears(op[1], op[3], o) \/ Kept(op[1], o.h, op[2]) = Kept(op[1], op[3], op[2])
    /\ \A u \in CronUser :
         Cardinality({j \in KeptJobs(op[1], op[3], op[2]) : j[1] = u})
           <= Cardinality({j \in KeptJobs(op[1], o.h, {}) : j[1] = u})

\* An operation that is refused (the object exists, the validation command or sshd
\* rejects the content, an entry is ambiguous) leaves the host as it was, rollback
\* and removal of temporary files included.
RefusalIsHarmless == \A op \in NextOps(Types) : \A o \in op[4] : o.out = Refused => o.h = op[3]

\* Types and states without an object of their own to remove.
NothingToRemove(t, s) ==
  \/ t \in {"swap", "sshd_config", "systemd_unit", "timezone", "timesync"}
  \/ t = "command" /\ ~s.del

\* A delete that reports success leaves nothing a refresh would find again.
DeletedIsGone ==
  \A r \in Resource :
    Removable(r) /\ ~NothingToRemove(type[r], tf[r].s) =>
      \A o \in DeleteOp(type[r], host[tf[r].at], tf[r].s) :
        o.out = Nil => ReadOp(type[r], o.h, tf[r].s) = Nil

\* A key that a source on the host names stays as long as one does, whichever
\* repository's change or removal cleans up after itself, and wherever it stops.
KeysInUseStay ==
  \A op \in NextOps({"apt_repository"}) :
    \A o \in op[4], f \in RepoFile :
      o.h.files[f] # Nil /\ o.h.files[f].by \in op[3].rings => o.h.files[f].by \in o.h.rings

\* A firewall change that is not marked allow_ssh_disconnect and succeeds does not
\* take the last rule that admits SSH, as long as no rule of the new name is there
\* that the state does not know of.
SSHStaysAllowed ==
  \A r \in Resource, at \in Targets :
    LET h == host[at]
        s == IF tf[r] = Nil THEN Nil ELSE tf[r].s
        known(p) == (s # Nil /\ s.k = p.k) \/ Managed(h, p.k) = {}
        ops == {applyUFWRule(h, s, p) : p \in {q \in UfwPlan : ~q.cut /\ known(q)}}
               \cup {UfwDelete(h, x) : x \in {y \in {s} : y # Nil /\ ~y.cut}}
    IN type[r] = "ufw_rule" /\ h.active /\ h.deny /\ SSHRules(h) # {} =>
         \A op \in ops : \A o \in op : o.out \notin {Refused, Failed} => SSHRules(o.h) # {}

\* A write that reports success is in effect as well as on disk: the modules are
\* loaded, the sysctls set, the swap areas off, timesyncd and the firewall run with
\* what the state says.  Three types do not promise it: sshd_config and trusted_cert,
\* retried after the reload or the rebuild failed, find the file unchanged and leave it
\* at that, and a unit whose plan leaves the state open is not restarted.
WrittenIsInEffect ==
  \A op \in NextOps(EffectTypes \ {"sshd_config", "trusted_cert", "systemd_unit"}) :
    \A o \in op[4] : IsState(o.out) => InEffect(op[1], o.h, o.out)

\* The operations r may ask of a host, as plans; Nil is its delete.
Asked(r) == Plans(type[r]) \cup (IF Removable(r) THEN {Nil} ELSE {})
Prior(r) == IF tf[r] = Nil THEN Nil ELSE tf[r].s

LocksOf(r, p) == planResourceLocks(type[r], "write", Prior(r), p)

ChangedBy(r, h, p) ==
  Touched(type[r], h, IF p = Nil THEN DeleteOp(type[r], h, tf[r].s)
                      ELSE IF tf[r] = Nil THEN CreateOp(type[r], h, p) ELSE UpdateOp(type[r], h, tf[r].s, p))

\* Operations of two resources that may change the same file, table entry or running
\* configuration ask for locks that conflict, so that the journal of module
\* OperationJournal, whose rule it is, runs one after the other.
LocksKeepApart ==
  \A r \in Resource, q \in Resource : r # q /\ type[r] # None /\ type[q] # None =>
    \A x \in {LocksOf(r, a) : a \in Asked(r)}, y \in {LocksOf(q, b) : b \in Asked(q)} :
      \/ Conflict(x, y)
      \/ \A at \in Targets, a \in {c \in Asked(r) : LocksOf(r, c) = x}, b \in {c \in Asked(q) : LocksOf(q, c) = y} :
           ChangedBy(r, host[at], a) \cap ChangedBy(q, host[at], b) = {}

\* The host that a resource with a recorded key was last read, written or asked to be
\* deleted on, whether that succeeded or failed, is the one with that key: a host rebuilt
\* under the same address is neither changed nor reported on behalf of the old one.
OnlyTheKnownHost == \A r \in Resource : tf[r] # Nil /\ tf[r].fp # 0 => met[r] = tf[r].fp

\* A recorded key is neither lost nor replaced as long as the resource stays on its
\* host, also when the session was gone before the key was asked for; and the resource
\* is only dropped from the state by that host's answer, because the host cannot be
\* dialled, or because it was recorded as absent.
PinHolds ==
  [][\A r \in Resource :
       tf[r] # Nil /\ tf[r].fp # 0 =>
         IF tf'[r] = Nil
         THEN tf[r].at \notin up \/ isAbsentResourceState(tf[r].s) \/ key[tf[r].at] = tf[r].fp
         ELSE tf'[r].at = tf[r].at => tf'[r].fp = tf[r].fp]_vars
=============================================================================
