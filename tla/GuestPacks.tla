----------------------------- MODULE GuestPacks -----------------------------
(***************************************************************************)
(* The resource types the provider offers: which guest pack serves each    *)
(* type (the packs register their resources by name), what the resources   *)
(* of one scenario share on the host, and the policies the catalog gives   *)
(* them.                                                                   *)
(***************************************************************************)
EXTENDS FilesConfig, SystemServices, PackagePacks, AccessPacks

\* The types whose resources are told apart by a key; the others are one object.
FileTypes == {"kernel_modules", "hosts_entry", "sysctl_entry", "fstab_entry", "crontab_entry",
              "file", "symlink", "network_stack", "swap", "sshd_config"}
SystemTypes == {"package", "package_lock", "apt_repository", "trusted_cert", "tls_identity", "ufw_rule",
                "user", "group", "command", "systemd_unit", "timezone", "timesync"}
Types == FileTypes \cup SystemTypes
KeyedTypes ==
  Types \ {"file", "symlink", "network_stack", "swap", "sshd_config", "command", "systemd_unit", "timezone", "timesync"}

Hosts(t) ==
  CASE t = "file" -> FileHost [] t = "symlink" -> SymlinkHost [] t = "kernel_modules" -> ModulesHost
    [] t = "hosts_entry" -> HostsHost [] t = "sysctl_entry" -> SysctlHost [] t = "network_stack" -> NetHost
    [] t \in {"fstab_entry", "swap"} -> FstabHost [] t = "sshd_config" -> SshdHost
    [] t = "crontab_entry" -> CronHost
    [] t = "package" -> PkgHost [] t = "package_lock" -> LockHost [] t = "apt_repository" -> RepoHost
    [] t = "trusted_cert" -> CertHost [] t = "tls_identity" -> TlsHost [] t = "ufw_rule" -> UfwHost
    [] t = "user" -> UserHost [] t = "group" -> GroupHost [] t = "command" -> CommandHost
    [] t = "systemd_unit" -> UnitHost [] t = "timezone" -> ZoneHost [] t = "timesync" -> SyncHost

Plans(t) ==
  CASE t = "file" -> FilePlan [] t = "symlink" -> SymlinkPlan [] t = "kernel_modules" -> ModulesPlan
    [] t = "hosts_entry" -> HostsPlan [] t = "sysctl_entry" -> SysctlPlan [] t = "network_stack" -> NetPlan
    [] t = "fstab_entry" -> FstabPlan [] t = "swap" -> SwapPlan [] t = "sshd_config" -> SshdPlan
    [] t = "crontab_entry" -> CronPlan
    [] t = "package" -> PkgPlan [] t = "package_lock" -> LockPlan [] t = "apt_repository" -> RepoPlan
    [] t = "trusted_cert" -> CertPlan [] t = "tls_identity" -> TlsPlan [] t = "ufw_rule" -> UfwPlan
    [] t = "user" -> UserPlan [] t = "group" -> GroupPlan [] t = "command" -> CommandPlan
    [] t = "systemd_unit" -> UnitPlan [] t = "timezone" -> ZonePlan [] t = "timesync" -> SyncPlan

ReadOp(t, h, s) ==
  CASE t = "file" -> FileRead(h, s) [] t = "symlink" -> SymlinkRead(h, s) [] t = "kernel_modules" -> ModulesRead(h, s)
    [] t = "hosts_entry" -> HostsRead(h, s) [] t = "sysctl_entry" -> SysctlRead(h, s)
    [] t = "network_stack" -> NetRead(h, s) [] t = "fstab_entry" -> FstabRead(h, s) [] t = "swap" -> SwapRead(h, s)
    [] t = "sshd_config" -> SshdRead(h, s) [] t = "crontab_entry" -> CronRead(h, s)
    [] t = "package" -> PkgRead(h, s) [] t = "package_lock" -> LockRead(h, s) [] t = "apt_repository" -> RepoRead(h, s)
    [] t = "trusted_cert" -> CertRead(h, s) [] t = "tls_identity" -> readTLSIdentityState(h, s)
    [] t = "ufw_rule" -> UfwRead(h, s) [] t = "user" -> UserRead(h, s) [] t = "group" -> GroupRead(h, s)
    [] t = "command" -> CommandRead(h, s) [] t = "systemd_unit" -> UnitRead(h, s)
    [] t = "timezone" -> ZoneRead(h, s) [] t = "timesync" -> SyncRead(h, s)

CreateOp(t, h, p) ==
  CASE t = "file" -> FileCreate(h, p) [] t = "symlink" -> SymlinkCreate(h, p)
    [] t = "kernel_modules" -> applyKernelModules(h, p) [] t = "hosts_entry" -> HostsCreate(h, p)
    [] t = "sysctl_entry" -> SysctlCreate(h, p) [] t = "network_stack" -> NetCreate(h, p)
    [] t = "fstab_entry" -> FstabCreate(h, p) [] t = "swap" -> applySwap(h, p)
    [] t = "sshd_config" -> applyConfig(h, p) [] t = "crontab_entry" -> CronCreate(h, p)
    [] t = "package" -> applyPackage(h, Nil, p) [] t = "package_lock" -> applyPackageLock(h, Nil, p)
    [] t = "apt_repository" -> RepoCreate(h, p) [] t = "trusted_cert" -> CertCreate(h, p)
    [] t = "tls_identity" -> TlsCreate(h, p) [] t = "ufw_rule" -> applyUFWRule(h, Nil, p)
    [] t = "user" -> UserCreate(h, p) [] t = "group" -> GroupCreate(h, p) [] t = "command" -> CommandCreate(h, p)
    [] t = "systemd_unit" -> UnitCreate(h, p) [] t = "timezone" -> applyTimezone(h, p)
    [] t = "timesync" -> applyTimesync(h, p)

UpdateOp(t, h, s, p) ==
  CASE t = "file" -> applyFile(h, p) [] t = "symlink" -> applySymlink(h, p)
    [] t = "kernel_modules" -> applyKernelModules(h, p) [] t = "hosts_entry" -> HostsUpdate(h, s, p)
    [] t = "sysctl_entry" -> applySysctlEntry(h, p) [] t = "network_stack" -> applyNetworkStack(h, p)
    [] t = "fstab_entry" -> applyFstabEntry(h, p) [] t = "swap" -> applySwap(h, p)
    [] t = "sshd_config" -> applyConfig(h, p) [] t = "crontab_entry" -> CronUpdate(h, s, p)
    [] t = "package" -> applyPackage(h, s, p) [] t = "package_lock" -> applyPackageLock(h, s, p)
    [] t = "apt_repository" -> applyRepository(h, s, p) [] t = "trusted_cert" -> applyTrustedCert(h, p)
    [] t = "tls_identity" -> applyTLSIdentity(h, p) [] t = "ufw_rule" -> applyUFWRule(h, s, p)
    [] t = "user" -> UserUpdate(h, s, p) [] t = "group" -> GroupUpdate(h, s, p)
    [] t = "command" -> CommandUpdate(h, s, p) [] t = "systemd_unit" -> UnitUpdate(h, s, p)
    [] t = "timezone" -> applyTimezone(h, p) [] t = "timesync" -> applyTimesync(h, p)

DeleteOp(t, h, s) ==
  CASE t = "file" -> FileDelete(h, s) [] t = "symlink" -> SymlinkDelete(h, s)
    [] t = "kernel_modules" -> ModulesDelete(h, s) [] t = "hosts_entry" -> HostsDelete(h, s)
    [] t = "sysctl_entry" -> SysctlDelete(h, s) [] t = "network_stack" -> NetDelete(h, s)
    [] t = "fstab_entry" -> FstabDelete(h, s) [] t = "swap" -> SwapDelete(h, s)
    [] t = "sshd_config" -> SshdDelete(h, s) [] t = "crontab_entry" -> CronDelete(h, s)
    [] t = "package" -> PkgDelete(h, s) [] t = "package_lock" -> LockDelete(h, s)
    [] t = "apt_repository" -> RepoDelete(h, s) [] t = "trusted_cert" -> CertDelete(h, s)
    [] t = "tls_identity" -> removeTLSIdentity(h, s) [] t = "ufw_rule" -> UfwDelete(h, s)
    [] t = "user" -> UserDelete(h, s) [] t = "group" -> GroupDelete(h, s) [] t = "command" -> CommandDelete(h, s)
    [] t = "systemd_unit" -> UnitDelete(h, s) [] t = "timezone" -> ZoneDelete(h, s) [] t = "timesync" -> SyncDelete(h, s)

-----------------------------------------------------------------------------
\* The policies of the catalog.
ReadAfterWrite ==
  {"sshd_config", "network_stack", "systemd_unit", "timezone", "timesync", "tls_identity", "trusted_cert", "ufw_rule"}

destroySafety(t) ==
  CASE t \in {"swap", "crontab_entry", "package_lock", "timezone", "timesync"} -> "none"
    [] t = "network_stack" -> "no_destroy"
    [] t = "command" -> "explicit_allow"
    [] OTHER -> "critical_object"

\* The guards: which object of a type is protected.  Of a keyed type it is one of
\* the keys; a command is protected when it has something to run.
Guard(t, s) ==
  CASE t = "command" -> s.del
    [] t = "package_lock" -> FALSE
    [] OTHER -> t \in KeyedTypes => s.k \in {"p", "a", "m", "f1"}

\* What identifies the object of a state or plan, when two of them are about the same
\* object, and the states an import starts from; some types cannot be imported.
IdOf(t, s) ==
  CASE t = "crontab_entry" -> <<s.u, s.k>> [] t = "package_lock" -> <<s.pkgs>>
    [] t \in KeyedTypes \ {"crontab_entry", "package_lock"} -> <<s.k>> [] OTHER -> <<>>

Clash(t, x, y) ==
  CASE t = "package_lock" -> x.pkgs \cap y.pkgs # {}
    [] OTHER -> IdOf(t, x) = IdOf(t, y)

ImportIds(t) ==
  CASE t = "crontab_entry" -> [u : CronUser, k : {"a", "b"}, v : {""}]
    [] t \in {"ufw_rule", "command"} -> {}
    [] t = "package" -> [k : PkgName, ensure : {"present"}, ver : {""}, ring : {""}]
    [] t = "package_lock" -> [pkgs : {{"a"}, {"a", "b"}}, ensure : {"present"}]
    [] t = "apt_repository" -> [k : RepoFile, ensure : {"present"}, by : {""}, url : {FALSE}]
    [] t = "tls_identity" -> [k : TlsName, family : {"pem"}]
    [] t \in {"user", "group"} -> [k : UserName, ensure : {"present"}, append : {FALSE}]
    [] t = "systemd_unit" -> {[ident |-> ""]}
    [] t \in {"kernel_modules", "hosts_entry", "sysctl_entry", "fstab_entry", "trusted_cert"} -> {[k |-> p.k] : p \in Plans(t)}
    [] t = "file" -> {[validation |-> "none"]}
    [] OTHER -> {[id |-> t]}

-----------------------------------------------------------------------------
\* The types whose resources share a file or table with others, and those of which the
\* kernel or a daemon holds a copy.
SharedTypes == KeyedTypes \cup {"swap", "sshd_config"}
EffectTypes ==
  {"sysctl_entry", "kernel_modules", "network_stack", "swap", "sshd_config", "trusted_cert", "systemd_unit",
   "timesync", "ufw_rule"}

\* What an operation of type t on the objects ids must leave alone on host h: the
\* lines of other objects and of nobody, in their order.
Kept(t, h, ids) ==
  CASE t \in {"hosts_entry", "sysctl_entry", "fstab_entry"} ->
         At(h.doc, {i \in DOMAIN h.doc : ~(h.doc[i].t = "entry" /\ <<h.doc[i].k>> \in ids)})
    [] t = "swap" -> restoreManagedSwapEntries(h.doc)
    [] t = "sshd_config" -> At(h.doc, Unmanaged(h.doc))
    [] t = "crontab_entry" ->
         [u \in CronUser |->
            At(h.tabs[u], {i \in DOMAIN h.tabs[u] :
                             LET line == h.tabs[u][i] IN line.t # "job" /\ ~(line.t = "marker" /\ <<u, line.k>> \in ids)})]
    [] t = "kernel_modules" -> [x \in {y \in Path : <<y>> \notin ids} |-> h.file[x]]
    [] t = "package" -> [x \in {y \in PkgName : <<y>> \notin ids} |-> h.ver[x]]
    [] t = "package_lock" -> h.held \ UNION {id[1] : id \in ids}
    [] t = "apt_repository" -> [x \in {y \in RepoFile : <<y>> \notin ids} |-> h.files[x]]
    [] t \in {"trusted_cert", "tls_identity"} -> [x \in {y \in CertName : <<y>> \notin ids} |-> h.file[x]]
    [] t = "ufw_rule" -> At(h.rules, {i \in DOMAIN h.rules : <<h.rules[i].com>> \notin ids})
    [] t = "user" -> [x \in {y \in UserName : <<y>> \notin ids} |-> h.user[x]]
    [] t = "group" -> [x \in {y \in GroupName : <<y>> \notin ids} |-> h.gid[x]]
    [] OTHER -> <<>>

\* The jobs of a crontab that are not under a marker of ids.
KeptJobs(t, h, ids) ==
  IF t # "crontab_entry" THEN {}
  ELSE UNION {{<<u, i>> : i \in {j \in DOMAIN h.tabs[u] :
                 /\ h.tabs[u][j].t = "job"
                 /\ j > 1 => ~(h.tabs[u][j - 1].t = "marker" /\ <<u, h.tabs[u][j - 1].k>> \in ids)}} :
              u \in CronUser}

\* A failed write of a shared file that cannot be renamed over: what it leaves of the
\* file is what it had copied (TornWrite).
Tears(t, h, o) ==
  t \in {"hosts_entry", "sysctl_entry", "fstab_entry", "swap", "sshd_config"} /\ h.mount /\ o.out = Failed

\* The kernel, the swap areas or the daemon run with what the state says.
InEffect(t, h, s) ==
  CASE t = "sysctl_entry" -> h.live[s.k] = s.v
    [] t = "kernel_modules" -> ToSet(s.v) \subseteq h.live
    [] t = "network_stack" -> s = buildNetworkStackState(h.live)
    [] t = "swap" -> s.enabled = "off" => h.live = "off"
    [] t = "sshd_config" -> h.live = h.doc
    [] t = "trusted_cert" -> h.live[s.k] = s.v
    [] t = "systemd_unit" -> h.active /\ s.ident # "" => h.runs = s.ident
    [] t = "ufw_rule" ->
         s.ensure = "present" => \A i \in Managed(h, s.k) : h.rules[i] = desiredUFWRuleSpec(s)
    [] t = "timesync" -> s.enabled => h.live = s.servers
    [] OTHER -> TRUE
=============================================================================
