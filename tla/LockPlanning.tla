---------------------------- MODULE LockPlanning ----------------------------
(***************************************************************************)
(* Which locks an operation asks for (providers/shared/catalog/locks.go    *)
(* and engine/locks.go): from the plan p and the prior state s, Nil if     *)
(* there is none, every resource type plans the keys of what it works on.  *)
(* The executors on the host compare the keys (module HostLocks).          *)
(***************************************************************************)
EXTENDS GuestPacks

Locks == INSTANCE HostLocks WITH Key <- {"", "host", "reboot:host"}

\* An attribute is looked up in the plan, then in the state.
StringAttr(s, p) == IF p # Nil THEN p ELSE s

PathLock(path) == "path:" \o path
CrontabLock(user) == "crontab:user:" \o user
CertificateLocks(name) == {PathLock(name \o "-fullchain.pem"), PathLock(name \o ".key")}
KeyringLocks(ring) == IF ring = "" THEN {} ELSE {PathLock(ring)}

\* Keys are made with a prefix: none is the empty one, which locks nothing.
ASSUME LockKeyAssumption ==
  /\ \A path \in {"/etc/hosts", "/etc/sysctl.conf", "/etc/fstab", "/path"} : PathLock(path) # ""
  /\ \A user \in CronUser : CrontabLock(user) # ""
  /\ \A name \in TlsName : "" \notin CertificateLocks(name)

\* Mutant: the crontab an entry moves out of is not locked.
crontabPlanLocks(s, p) == {CrontabLock(StringAttr(s, p).u)}

\* An entry may move from the crontab of one user to that of another.
crontabEntryLockPlanner(s, p) == {CrontabLock(x.u) : x \in {s, p} \ {Nil}}

LockPlanner(t, s, p) ==
  LET a == StringAttr(s, p)
  IN CASE t = "hosts_entry" -> {PathLock("/etc/hosts")}
       [] t = "package" -> {"pkgmgr:system"} \cup KeyringLocks(a.ring)
       [] t = "package_lock" -> {"pkgmgr:system"}
       [] t \in {"user", "group"} -> {"identity:system"}
       [] t = "sshd_config" -> {"sshd:config", "service:sshd"}
       [] t = "sysctl_entry" -> {PathLock("/etc/sysctl.conf"), "sysctl:" \o a.k}
       [] t = "network_stack" -> {PathLock("network-stack.conf"), "network:stack"} \cup {"sysctl:" \o k : k \in ToSet(NetKey)}
       [] t = "ufw_rule" -> {"network:system", "firewall:ufw", "firewall:ufw:rule:" \o a.k}
       [] t = "fstab_entry" -> {PathLock("/etc/fstab")}
       [] t = "swap" -> {"swap:system", PathLock("/etc/fstab")}
       [] t = "crontab_entry" -> crontabEntryLockPlanner(s, p)
       [] t \in {"file", "symlink"} -> {PathLock("/path")}
       [] t = "kernel_modules" -> {"kernel-modules:system", PathLock(a.k)}
       [] t = "command" -> {"command:name"}
       [] t = "systemd_unit" -> {"service:name"}
       [] t = "timezone" -> {"time:timezone"}
       [] t = "timesync" -> {"time:timesync", PathLock("timesync.conf"), "service:systemd-timesyncd"}
       [] t = "apt_repository" -> {"pkgmgr:system", PathLock(a.k)} \cup KeyringLocks(managedSignedByPath(a))
       [] t = "trusted_cert" -> {"trust-store:debian", PathLock(a.k)}
       [] t = "tls_identity" -> CertificateLocks(a.k)

\* Creates, updates and deletes lock exclusively, reads share; nothing planned is a
\* lock on the whole host.
LockModeForAction(action) == IF action = "read" THEN "shared" ELSE "exclusive"

planResourceLocks(t, action, s, p) ==
  LET keys == LockPlanner(t, s, p)
  IN {[key |-> k, mode |-> LockModeForAction(action)] : k \in IF keys = {} THEN {"host"} ELSE keys}

Conflict(xs, ys) == \E x \in xs, y \in ys : Locks!locksConflict(x, y)

-----------------------------------------------------------------------------
\* The field of a host that is a table with an object of its own for every key; every
\* other field is one file, or one thing the kernel or a daemon holds.
Table(t) ==
  CASE t \in {"kernel_modules", "trusted_cert", "tls_identity"} -> "file"
    [] t = "package" -> "ver" [] t = "user" -> "user" [] t = "group" -> "gid" [] t = "apt_repository" -> "files"
    [] t = "crontab_entry" -> "tabs" [] t = "sysctl_entry" -> "live" [] OTHER -> ""

Parts(t, h) ==
  {<<<<f, "">>, h[f]>> : f \in DOMAIN h \ {Table(t)}}
  \cup UNION {{<<<<f, k>>, h[f][k]>> : k \in DOMAIN h[f]} : f \in DOMAIN h \cap {Table(t)}}

\* What the outcomes of an operation change on the host.
Touched(t, h, outcomes) == UNION {{x[1] : x \in Parts(t, o.h) \ Parts(t, h)} : o \in outcomes}
=============================================================================
