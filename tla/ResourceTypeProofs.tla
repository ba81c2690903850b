------------------------ MODULE ResourceTypeProofs -------------------------
(***************************************************************************)
(* What is proved of every resource type of the catalog: its operations    *)
(* leave the objects of others as they were, report what is there and in   *)
(* effect, delete what a refresh would find, and a refresh reports what it *)
(* would report again.                                                     *)
(***************************************************************************)
EXTENDS GuestPackProofs

-----------------------------------------------------------------------------
(* What is proved of every type. *)

\* What the hosts of a type hold, and what is known of a state of the type.
ModulesFile(h) == h = [file |-> h.file, live |-> h.live] /\ h.file = [x \in Path |-> h.file[x]]
NetFile(h) == h = [file |-> h.file, live |-> h.live] /\ h.live = [k \in ToSet(NetKey) |-> h.live[k]]
SshdFile(h) == h = [doc |-> h.doc, live |-> h.live, mount |-> h.mount] /\ h.doc \in Text
PkgTable(h) ==
    /\ h = [pm |-> h.pm, ver |-> h.ver, rings |-> h.rings, refs |-> h.refs]
    /\ h.ver = [x \in PkgName |-> h.ver[x]]
LockTable(h) == h = [pm |-> h.pm, held |-> h.held]
CertFile(h) == CertShape(h) /\ h.file = [x \in CertName |-> h.file[x]]
Chain == [act : {"allow", "deny"}, port : {"ssh", "web"}, proto : {"", "tcp"}, com : {"", "a", "b"}]
UfwTable(h) ==
    /\ h = [rules |-> h.rules, active |-> h.active, deny |-> h.deny] /\ h.rules \in Seq(Chain)
    /\ \A k \in {"a", "b"} : \A i, j \in Managed(h, k) : i = j
UserTable(h) == h = [groups |-> h.groups, user |-> h.user] /\ h.user = [x \in UserName |-> h.user[x]]
GroupTable(h) == h = [gid |-> h.gid] /\ h.gid = [x \in GroupName |-> h.gid[x]]
SyncFile(h) == h = [file |-> h.file, enabled |-> h.enabled, active |-> h.active, live |-> h.live]

\* What every host of a scenario with type t holds.
Holds(t, h) ==
    /\ t = "hosts_entry" => HostsFile(h)
    /\ t = "sysctl_entry" => SysctlFile(h)
    /\ t = "fstab_entry" => FstabFile(h)
    /\ t = "swap" => FstabFile(h)
    /\ t = "crontab_entry" => CronFile(h)
    /\ t = "kernel_modules" => ModulesFile(h)
    /\ t = "network_stack" => NetFile(h)
    /\ t = "sshd_config" => SshdFile(h)
    /\ t = "package" => PkgTable(h)
    /\ t = "package_lock" => LockTable(h)
    /\ t = "apt_repository" => RepoShape(h)
    /\ t = "trusted_cert" => CertFile(h)
    /\ t = "tls_identity" => TlsShape(h)
    /\ t = "ufw_rule" => UfwTable(h)
    /\ t = "user" => UserTable(h)
    /\ t = "group" => GroupTable(h)
    /\ t = "command" => h = [made |-> h.made]
    /\ t = "symlink" => h = [path |-> h.path]
    /\ t = "file" => FileShape(h)
    /\ t = "timesync" => SyncFile(h)
    /\ t = "timezone" => h = [zone |-> h.zone]

ModulesState(s) == s = [k |-> s.k, v |-> s.v] /\ s.k \in Path
PkgState(s) ==
    /\ s = [k |-> s.k, ensure |-> s.ensure, ver |-> s.ver, ring |-> s.ring]
    /\ s.k \in PkgName /\ s.ring \in {"", "k1"} /\ (s.k = "b" => s.ring = "")
    /\ s.ensure \in {"present", "latest", "absent"}
LockState(s) ==
    /\ s = [pkgs |-> s.pkgs, ensure |-> s.ensure] /\ s.ensure \in {"present", "absent"}
    /\ s.pkgs \subseteq {"a", "b", "c"}
RepoState(s) ==
    /\ s = [k |-> s.k, ensure |-> s.ensure, uri |-> s.uri, by |-> s.by, url |-> s.url]
    /\ s.k \in RepoFile /\ s.url \in BOOLEAN
CertState(s) == s = [k |-> s.k, v |-> s.v] /\ s.k \in CertName
TlsState(s) == s = [k |-> s.k, v |-> s.v, family |-> s.family] /\ s.k \in TlsName
UserRecord(s) ==
    /\ s = [k |-> s.k, ensure |-> s.ensure, shell |-> s.shell, groups |-> s.groups, append |-> s.append]
    /\ s.k \in UserName /\ s.append \in BOOLEAN
GroupRecord(s) == s = [k |-> s.k, ensure |-> s.ensure, gid |-> s.gid] /\ s.k \in GroupName

\* A state of type t.
Fits(t, s) ==
    /\ t = "hosts_entry" => HostsState(s)
    /\ t = "sysctl_entry" => SysctlState(s)
    /\ t = "fstab_entry" => FstabState(s)
    /\ t = "swap" => SwapState(s)
    /\ t = "crontab_entry" => CronState(s)
    /\ t = "kernel_modules" => ModulesState(s)
    /\ t = "package" => PkgState(s)
    /\ t = "package_lock" => LockState(s)
    /\ t = "apt_repository" => RepoState(s)
    /\ t = "trusted_cert" => CertState(s)
    /\ t = "tls_identity" => TlsState(s)
    /\ t = "ufw_rule" => s \in UfwPlan
    /\ t = "user" => UserRecord(s)
    /\ t = "group" => GroupRecord(s)
    /\ t = "command" => s \in CommandPlan

\* The objects of ids do not have that of s among them.
Apart(t, s, ids) ==
    /\ t = "package_lock" => \A id \in ids : id[1] \cap s.pkgs = {}
    /\ t # "package_lock" => IdOf(t, s) \notin ids

\* From h to x, an operation on the objects ids leaves the lines of the others, the
\* user's own jobs, and what is read of the others.
JobsStay(t, h, x, ids) ==
    \A u \in CronUser :
      Cardinality({j \in KeptJobs(t, h, ids) : j[1] = u}) <= Cardinality({j \in KeptJobs(t, x, {}) : j[1] = u})

\* The rest of what is there, the jobs and what is read of other objects.
Spares(t, h, x, ids) ==
    /\ Kept(t, x, ids) = Kept(t, h, ids) /\ JobsStay(t, h, x, ids)
    /\ MarksApart => \A s : Fits(t, s) /\ IsState(s) /\ Apart(t, s, ids) /\ ReadOp(t, h, s) = s => ReadOp(t, x, s) = s

\* The state s is about one of the objects ids.
Among(t, s, ids) ==
    /\ t = "package_lock" => \E id \in ids : s.pkgs \subseteq id[1]
    /\ t # "package_lock" => IdOf(t, s) \in ids

\* A state that is reported is in effect, and a refresh finds it.
Reported(t, h, s) ==
    /\ Fits(t, s)
    /\ MarksApart => t \in {"sshd_config", "trusted_cert", "systemd_unit"} \/ InEffect(t, h, s)
    /\ MarksApart => t \in ReadAfterWrite \/ Denormal(t, s) \/ ReadOp(t, h, s) = s

\* What is proved of every outcome: the others are spared, unless the operation failed
\* to write a file that it cannot replace.
Fine(t, h, ids, o) ==
    /\ Holds(t, o.h) /\ (Spares(t, h, o.h, ids) \/ Tears(t, h, o))
    /\ IsState(o.out) => Reported(t, o.h, o.out) /\ Among(t, o.out, ids)

\* and of a delete
Gone(t, o, s) ==
    MarksApart /\ ~isAbsentResourceState(s) /\ ~NothingToRemove(t, s) /\ o.out = Nil => ReadOp(t, o.h, s) = Nil

\* Of every create, update and delete, on any host, of any state.
Creates(t) ==
    \A h, p : Holds(t, h) /\ p \in Plans(t) => \A o \in CreateOp(t, h, p) : Fine(t, h, {IdOf(t, p)}, o)
Updates(t) ==
    \A h, s, p : Holds(t, h) /\ Fits(t, s) /\ p \in Plans(t)
                   => \A o \in UpdateOp(t, h, s, p) : Fine(t, h, {IdOf(t, p), IdOf(t, s)}, o)
Deletes(t) ==
    \A h, s : Holds(t, h) /\ Fits(t, s) => \A o \in DeleteOp(t, h, s) : Fine(t, h, {IdOf(t, s)}, o) /\ Gone(t, o, s)
\* A refresh reports what it would report again.
Reads(t) ==
    \A h, s : Holds(t, h) /\ (Fits(t, s) \/ s \in ImportIds(t)) /\ IsState(ReadOp(t, h, s)) =>
        /\ Fits(t, ReadOp(t, h, s)) /\ Among(t, ReadOp(t, h, s), {IdOf(t, s)})
        /\ MarksApart => ReadOp(t, h, ReadOp(t, h, s)) = ReadOp(t, h, s)
Starts(t) == /\ \A h \in Hosts(t) : Holds(t, h)
             /\ \A p \in Plans(t) : Fits(t, p)

\* What is proved of type t.
Served(t) == Starts(t) /\ Creates(t) /\ Updates(t) /\ Deletes(t) /\ Reads(t)

\* Only crontabs have jobs to keep.
LEMMA NoJobs ==
    ASSUME NEW t, t # "crontab_entry", NEW h, NEW x, NEW ids
    PROVE  JobsStay(t, h, x, ids)
<1>1. \A y, all, u : {j \in KeptJobs(t, y, all) : j[1] = u} = {}
  BY DEF KeptJobs
<1>2. Cardinality({}) <= Cardinality({})
  BY FS_EmptySet
<1>3. QED
  BY <1>1, <1>2 DEF JobsStay

\* For the types without a shared file there is nothing to keep.
Alone == Types \ SharedTypes

\* A type without a shared file has no other objects to spare.
LEMMA AloneSpares ==
    ASSUME NEW t \in Alone, NEW h, NEW x, NEW ids, NEW s, IdOf(t, s) \in ids
    PROVE  Spares(t, h, x, ids)
<1>1. t \in Types \ (KeyedTypes \cup {"swap", "sshd_config"})
  BY DEF Alone, SharedTypes
<1>2. t \in {"file", "symlink", "network_stack", "command", "systemd_unit", "timezone", "timesync"}
  BY <1>1 DEF KeyedTypes
<1>3. Kept(t, h, ids) = Kept(t, x, ids)
  BY <1>2 DEF Kept
<1>4. t # "package_lock" /\ t # "crontab_entry"
  BY <1>2
<1>5. \A q : IdOf(t, q) = <<>>
  BY <1>1, <1>4 DEF IdOf
<1>6. \A q : ~Apart(t, q, ids)
  BY <1>4, <1>5 DEF Apart
<1>7. JobsStay(t, h, x, ids)
  BY <1>4, NoJobs
<1>8. \A q : Fits(t, q) /\ IsState(q) /\ Apart(t, q, ids) /\ ReadOp(t, h, q) = q => ReadOp(t, x, q) = q
  BY <1>6
<1>9. QED
  BY <1>3, <1>7, <1>8, Zenon DEF Spares

-----------------------------------------------------------------------------
(* Types without a shared file. *)

\* What has to be shown of a type without a shared file.
Safe(t, o) == Holds(t, o.h) /\ (IsState(o.out) => Reported(t, o.h, o.out))

\* of all its operations.
AloneOps(t) ==
    /\ \A h, p : Holds(t, h) /\ p \in Plans(t) => \A o \in CreateOp(t, h, p) : Safe(t, o)
    /\ \A h, s, p : Holds(t, h) /\ Fits(t, s) /\ p \in Plans(t) => \A o \in UpdateOp(t, h, s, p) : Safe(t, o)
    /\ \A h, s : Holds(t, h) /\ Fits(t, s) => \A o \in DeleteOp(t, h, s) : Safe(t, o) /\ Gone(t, o, s)
    /\ \A h, s : Holds(t, h) /\ (Fits(t, s) \/ s \in ImportIds(t)) /\ IsState(ReadOp(t, h, s)) =>
         Fits(t, ReadOp(t, h, s)) /\ (MarksApart => ReadOp(t, h, ReadOp(t, h, s)) = ReadOp(t, h, s))

\* A type without a shared file is served when its operations report what is there.
LEMMA AloneServed ==
    ASSUME NEW t \in Alone, Starts(t), AloneOps(t)
    PROVE  Served(t)
<1>1. t \in Types \ (KeyedTypes \cup {"swap", "sshd_config"})
  BY DEF Alone, SharedTypes
<1>2. t \in {"file", "symlink", "network_stack", "command", "systemd_unit", "timezone", "timesync"}
  BY <1>1 DEF KeyedTypes
<1>3. \A q : IdOf(t, q) = <<>>
  BY <1>1, <1>2 DEF IdOf
<1>4. ASSUME NEW h, NEW ids, <<>> \in ids, NEW o, Safe(t, o)
      PROVE  Fine(t, h, ids, o)
  <2>1. Spares(t, h, o.h, ids)
    BY <1>3, <1>4, AloneSpares
  <2>2. Among(t, o.out, ids)
    BY <1>2, <1>3, <1>4 DEF Among
  <2>3. QED
    BY <1>4, <2>1, <2>2 DEF Fine, Safe
<1>5. Creates(t)
  BY <1>3, <1>4 DEF AloneOps, Creates
<1>6. Updates(t)
  BY <1>3, <1>4 DEF AloneOps, Updates
<1>7. Deletes(t)
  BY <1>3, <1>4 DEF AloneOps, Deletes
<1>8. Reads(t)
  <2>1. \A s, x : Among(t, s, {IdOf(t, x)})
    BY <1>2, <1>3 DEF Among
  <2>2. QED
    BY <2>1 DEF AloneOps, Reads
<1>9. QED
  BY <1>5, <1>6, <1>7, <1>8 DEF Served

\* The timezone pack does what is asked of it.
LEMMA ZoneServed == Served("timezone")
<1> DEFINE t == "timezone"
<1>1. \A h : Holds(t, h) <=> h = [zone |-> h.zone]
  BY DEF Holds
<1>2. \A s : Fits(t, s)
  BY DEF Fits
<1>3. \A h, s : Reported(t, h, s)
  BY <1>2 DEF Reported, InEffect, ReadAfterWrite
<1>4. \A h, s, p : /\ CreateOp(t, h, p) = applyTimezone(h, p) /\ UpdateOp(t, h, s, p) = applyTimezone(h, p)
                   /\ DeleteOp(t, h, s) = ZoneDelete(h, s) /\ ReadOp(t, h, s) = ZoneRead(h, s)
  BY DEF CreateOp, UpdateOp, DeleteOp, ReadOp
<1>5. Starts(t)
  BY <1>1, <1>2 DEF Starts, Hosts, ZoneHost
<1>6. ASSUME NEW h, Holds(t, h), NEW p, NEW o \in applyTimezone(h, p)
      PROVE  Holds(t, o.h)
  <2> DEFINE w == [h EXCEPT !.zone = p.zone]
  <2>1. h = [zone |-> h.zone]
    BY <1>1, <1>6
  <2>2. w = [zone |-> p.zone]
    BY <2>1
  <2>3. w = [zone |-> w.zone]
    BY <2>2
  <2>4. o \in Run(<<h, w>>, p) \/ o = Outcome(w, Failed)
    BY <1>6 DEF applyTimezone
  <2> HIDE DEF w
  <2>5. o.h = h \/ o.h = w
    BY <2>4, RunOfTwo DEF Outcome
  <2>6. QED
    BY <1>1, <1>6, <2>3, <2>5
<1>7. AloneOps(t)
  <2>1. \A h, s, o : o \in ZoneDelete(h, s) => o.h = h /\ o.out \in {Nil, Failed} /\ Gone(t, o, s)
    BY AnswerOutcome DEF ZoneDelete, Gone, NothingToRemove
  <2>2. QED
    BY <1>2, <1>3, <1>4, <1>6, <2>1 DEF AloneOps, Safe, IsState, ZoneRead
<1>8. t \in Alone
  BY DEF Alone, Types, FileTypes, SystemTypes, SharedTypes, KeyedTypes
<1>9. QED
  BY <1>5, <1>7, <1>8, AloneServed

\* The systemd_unit pack does what is asked of it.
LEMMA UnitServed == Served("systemd_unit")
<1> DEFINE t == "systemd_unit"
<1>1. \A h : Holds(t, h)
  BY DEF Holds
<1>2. \A s : Fits(t, s)
  BY DEF Fits
<1>3. \A h, s : Reported(t, h, s)
  BY <1>2 DEF Reported, ReadAfterWrite
<1>4. \A o, s : Gone(t, o, s)
  BY DEF Gone, NothingToRemove
<1>5. \A h, s : ReadOp(t, h, s) = UnitRead(h, s)
  BY DEF ReadOp
<1>6. ASSUME NEW h, NEW s, IsState(UnitRead(h, s))
      PROVE  UnitRead(h, UnitRead(h, s)) = UnitRead(h, s)
  <2> DEFINE x == UnitRead(h, s)
             ident == IF h.drop = Nil THEN "" ELSE h.drop
  <2>1. /\ Exists(h)
        /\ ~(h.drop = Nil /\ hasServiceIdentityState(s))
        /\ ~(h.drop # Nil /\ ~validateServiceIdentityDropInMatchesState(h, s))
        /\ validateNoLaterServiceIdentityDropIns(h, s)
        /\ \A y : IF \/ h.drop = Nil /\ hasServiceIdentityState(y)
                     \/ h.drop # Nil /\ ~validateServiceIdentityDropInMatchesState(h, y)
                     \/ ~validateNoLaterServiceIdentityDropIns(h, y)
                  THEN UnitRead(h, y) = Refused
                  ELSE UnitRead(h, y) = x
    BY <1>6 DEF UnitRead, IsState
  <2>2. x.ident = ident
    BY <2>1 DEF UnitRead
  <2>3. x # Nil
    BY <1>6 DEF IsState
  <2> HIDE DEF x
  <2>4. h.drop = Nil => ~hasServiceIdentityState(x) /\ validateNoLaterServiceIdentityDropIns(h, x)
    BY <2>2 DEF hasServiceIdentityState, validateNoLaterServiceIdentityDropIns
  <2>5. h.drop # Nil => validateServiceIdentityDropInMatchesState(h, x) /\ validateNoLaterServiceIdentityDropIns(h, x)
    BY <2>1, <2>2, <2>3 DEF hasServiceIdentityState, validateNoLaterServiceIdentityDropIns,
                            validateServiceIdentityDropInMatchesState
  <2>6. UnitRead(h, x) = x
    BY <2>1, <2>4, <2>5
  <2>7. QED
    BY <2>6 DEF x
<1>7. AloneOps(t)
  BY <1>1, <1>2, <1>3, <1>4, <1>5, <1>6 DEF AloneOps, Safe
<1>8. Starts(t) /\ t \in Alone
  BY <1>1, <1>2 DEF Starts, Alone, Types, FileTypes, SystemTypes, SharedTypes, KeyedTypes
<1>9. QED
  BY <1>7, <1>8, AloneServed

\* timesyncd runs with the servers of a plan that is reported.
LEMMA SyncApplied ==
    ASSUME NEW h, SyncFile(h), NEW p \in SyncPlan, NEW o \in applyTimesync(h, p)
    PROVE  /\ SyncFile(o.h)
           /\ IsState(o.out) => (MarksApart => InEffect("timesync", o.h, o.out))
<1> DEFINE w == [h EXCEPT !.file = p.servers]
           first == [w EXCEPT !.enabled = IF p.enabled THEN TRUE ELSE @, !.active = IF p.enabled THEN @ ELSE FALSE]
           done == [first EXCEPT !.enabled = p.enabled, !.active = p.enabled, !.live = IF p.enabled THEN p.servers ELSE @]
           on == IF p.enabled THEN TRUE ELSE w.enabled
           runs == IF p.enabled THEN w.active ELSE FALSE
           live == IF p.enabled THEN p.servers ELSE first.live
           mid == [w EXCEPT !.enabled = on]
           end == [first EXCEPT !.enabled = p.enabled]
           next == [end EXCEPT !.active = p.enabled]
<1>1. h = [file |-> h.file, enabled |-> h.enabled, active |-> h.active, live |-> h.live]
  BY DEF SyncFile
<1>2. w = [file |-> p.servers, enabled |-> h.enabled, active |-> h.active, live |-> h.live]
  BY <1>1
<1>3. o \in Change(<<h, w, first, done>>, SyncRead(done, p)) \/ o = Outcome(done, Failed)
  BY DEF applyTimesync
<1> HIDE DEF w
<1>4. first = [file |-> p.servers, enabled |-> on, active |-> runs, live |-> h.live]
  <2>1. first = [mid EXCEPT !.active = runs]
    OBVIOUS
  <2> HIDE DEF on, runs
  <2>2. mid = [file |-> p.servers, enabled |-> on, active |-> h.active, live |-> h.live]
    BY <1>2
  <2> HIDE DEF mid
  <2>3. [mid EXCEPT !.active = runs] = [file |-> p.servers, enabled |-> on, active |-> runs, live |-> h.live]
    BY <2>2
  <2>4. QED
    BY <2>1, <2>3
<1> HIDE DEF first, on, runs
<1>5. done = [file |-> p.servers, enabled |-> p.enabled, active |-> p.enabled, live |-> live]
  <2>1. done = [next EXCEPT !.live = live]
    OBVIOUS
  <2> HIDE DEF live
  <2>2. end = [file |-> p.servers, enabled |-> p.enabled, active |-> runs, live |-> h.live]
    BY <1>4
  <2> HIDE DEF end
  <2>3. next = [file |-> p.servers, enabled |-> p.enabled, active |-> p.enabled, live |-> h.live]
    BY <2>2
  <2> HIDE DEF next
  <2>4. [next EXCEPT !.live = live] = [file |-> p.servers, enabled |-> p.enabled, active |-> p.enabled, live |-> live]
    BY <2>3
  <2>5. QED
    BY <2>1, <2>4
<1> HIDE DEF done
<1>6. SyncFile(w) /\ SyncFile(first) /\ SyncFile(done)
  BY <1>2, <1>4, <1>5 DEF SyncFile
<1>7. \/ o.h \in {h, w, first, done} /\ o.out = Failed
      \/ o.h = done /\ o.out = SyncRead(done, p)
  BY <1>3, ChangeOfFour DEF Outcome
<1>8. MarksApart => InEffect("timesync", done, SyncRead(done, p))
  <2>1. MarksApart => p.servers # Nil
    BY DEF MarksApart
  <2>2. done.file = p.servers /\ done.enabled = p.enabled
    BY <1>5
  <2> DEFINE on1 == done.enabled /\ done.active
             sv == readTimesyncdConfig(done)
  <2>7. SyncRead(done, p) = [enabled |-> on1, servers |-> sv]
    BY Zenon DEF SyncRead, timesyncdEnabled
  <2>8. on1 => done.enabled
    OBVIOUS
  <2>9. MarksApart => sv = p.servers
    BY <2>1, <2>2 DEF readTimesyncdConfig
  <2> HIDE DEF on1, sv
  <2>10. SyncRead(done, p).enabled = on1 /\ SyncRead(done, p).servers = sv
    BY <2>7
  <2>3. done.live = IF p.enabled THEN p.servers ELSE first.live
    BY <1>5 DEF live
  <2>4. MarksApart => SyncRead(done, p).servers = p.servers /\ (SyncRead(done, p).enabled => p.enabled)
    BY <2>2, <2>8, <2>9, <2>10, Zenon
  <2>5. MarksApart /\ SyncRead(done, p).enabled => done.live = SyncRead(done, p).servers
    BY <2>3, <2>4
  <2>6. QED
    BY <2>5 DEF InEffect
<1>9. QED
  BY <1>6, <1>7, <1>8 DEF IsState

\* The timesync pack does what is asked of it.
LEMMA SyncServed == Served("timesync")
<1> DEFINE t == "timesync"
<1>1. \A h : Holds(t, h) <=> SyncFile(h)
  BY DEF Holds
<1>2. \A s : Fits(t, s)
  BY DEF Fits
<1>3. \A h, s : (MarksApart => InEffect(t, h, s)) => Reported(t, h, s)
  BY <1>2 DEF Reported, ReadAfterWrite
<1>4. \A h, s, p : /\ CreateOp(t, h, p) = applyTimesync(h, p) /\ UpdateOp(t, h, s, p) = applyTimesync(h, p)
                   /\ DeleteOp(t, h, s) = SyncDelete(h, s) /\ ReadOp(t, h, s) = SyncRead(h, s)
                   /\ Plans(t) = SyncPlan
  BY DEF CreateOp, UpdateOp, DeleteOp, ReadOp, Plans
<1>5. Starts(t)
  BY <1>1, <1>2 DEF Starts, Hosts, SyncHost, SyncFile
<1>6. AloneOps(t)
  <2>1. \A h, s, o : o \in SyncDelete(h, s) => o.h = h /\ o.out \in {Nil, Failed} /\ Gone(t, o, s)
    BY AnswerOutcome DEF SyncDelete, Gone, NothingToRemove
  <2>2. \A h, p, o : Holds(t, h) /\ p \in SyncPlan /\ o \in applyTimesync(h, p) => Safe(t, o)
    BY <1>1, <1>3, SyncApplied DEF Safe
  <2>3. \A h, s, x : SyncRead(h, s) = SyncRead(h, x)
    BY DEF SyncRead
  <2>4. \A h, s, o : Holds(t, h) /\ o \in SyncDelete(h, s) => Safe(t, o) /\ Gone(t, o, s)
    BY <2>1 DEF Safe, IsState
  <2>5. QED
    BY <1>2, <1>4, <2>2, <2>3, <2>4 DEF AloneOps
<1>7. t \in Alone
  BY DEF Alone, Types, FileTypes, SystemTypes, SharedTypes, KeyedTypes
<1>8. QED
  BY <1>5, <1>6, <1>7, AloneServed

\* A symlink that is reported is read back.
LEMMA LinkApplied ==
    ASSUME NEW h, h = [path |-> h.path], NEW p \in SymlinkPlan, NEW o \in applySymlink(h, p)
    PROVE  /\ o.h = [path |-> o.h.path]
           /\ IsState(o.out) => (MarksApart => SymlinkRead(o.h, o.out) = o.out)
<1> DEFINE link == [c |-> p.target, own |-> "link"]
           linked == [h EXCEPT !.path = link]
           gone == [h EXCEPT !.path = Nil]
<1>1. linked = [path |-> link] /\ gone = [path |-> Nil]
  OBVIOUS
<1>2. o \in Run(<<h, linked>>, p) \/ o \in Run(<<h, gone, linked>>, p)
  BY DEF applySymlink, FileSymlink
<1> HIDE DEF linked, gone
<1>3. \/ o.h \in {h, gone, linked} /\ o.out = Failed
      \/ o.h = linked /\ o.out = p
  BY <1>2, RunOfTwo, RunOfThree
<1>4. MarksApart => link # Nil
  <2>1. link = [i \in DOMAIN link |-> link[i]]
    OBVIOUS
  <2> HIDE DEF link
  <2>2. QED
    BY <2>1 DEF MarksApart
<1>5. linked.path = link /\ link.own = "link" /\ link.c = p.target
  BY <1>1
<1> HIDE DEF link
<1>6. MarksApart => SymlinkRead(linked, p) = [target |-> p.target]
  BY <1>4, <1>5 DEF SymlinkRead, symlinkTarget
<1>7. p = [target |-> p.target]
  BY DEF SymlinkPlan
<1>8. QED
  BY <1>1, <1>3, <1>6, <1>7 DEF IsState

\* The symlink pack does what is asked of it.
LEMMA LinkServed == Served("symlink")
<1> DEFINE t == "symlink"
<1>1. \A h : Holds(t, h) <=> h = [path |-> h.path]
  BY DEF Holds
<1>2. \A s : Fits(t, s)
  BY DEF Fits
<1>4. \A h, s, p : /\ CreateOp(t, h, p) = SymlinkCreate(h, p) /\ UpdateOp(t, h, s, p) = applySymlink(h, p)
                   /\ DeleteOp(t, h, s) = SymlinkDelete(h, s) /\ ReadOp(t, h, s) = SymlinkRead(h, s)
                   /\ Plans(t) = SymlinkPlan
  BY DEF CreateOp, UpdateOp, DeleteOp, ReadOp, Plans
<1>3. \A h, s : (MarksApart => SymlinkRead(h, s) = s) => Reported(t, h, s)
  <2>1. \A h, s : InEffect(t, h, s)
    BY DEF InEffect
  <2>2. QED
    BY <1>2, <1>4, <2>1 DEF Reported
<1>5. Starts(t)
  <2>1. \A h \in SymlinkHost : h = [path |-> h.path]
    BY DEF SymlinkHost
  <2>2. Hosts(t) = SymlinkHost
    BY DEF Hosts
  <2>3. QED
    BY <1>1, <1>2, <2>1, <2>2 DEF Starts
<1>6. ASSUME NEW h, Holds(t, h), NEW s, NEW o \in SymlinkDelete(h, s)
      PROVE  Safe(t, o) /\ Gone(t, o, s)
  <2> DEFINE w == [h EXCEPT !.path = Nil]
  <2>1. w = [path |-> Nil]
    BY <1>1, <1>6
  <2>2. \/ o \in Answers(h, Nil) /\ h.path = Nil
        \/ o \in Run(<<h, w>>, Nil)
        \/ o \in Refuse(h)
    BY <1>6 DEF SymlinkDelete, symlinkTarget
  <2> HIDE DEF w
  <2>3. /\ o.h \in {h, w} /\ o.out \in {Nil, Failed, Refused}
        /\ o.out \in {Failed, Refused} \/ o.h.path = Nil
    BY <2>1, <2>2, RunOfTwo, AnswerOutcome, RefuseOutcome
  <2>4. Holds(t, o.h)
    BY <1>1, <1>6, <2>1, <2>3
  <2>5. o.h.path = Nil => SymlinkRead(o.h, s) = Nil
    BY DEF SymlinkRead, symlinkTarget
  <2>6. QED
    BY <1>4, <2>3, <2>4, <2>5 DEF Safe, Gone, IsState, MarksApart
<1>7. AloneOps(t)
  <2>1. \A h, p, o : Holds(t, h) /\ p \in SymlinkPlan /\ o \in applySymlink(h, p) => Safe(t, o)
    BY <1>1, <1>3, LinkApplied DEF Safe
  <2>2. \A h, p, o : Holds(t, h) /\ o \in Refuse(h) => Safe(t, o)
    BY RefuseOutcome DEF Safe, IsState
  <2>3. \A h, p, o : Holds(t, h) /\ p \in SymlinkPlan /\ o \in SymlinkCreate(h, p) => Safe(t, o)
    BY <2>1, <2>2 DEF SymlinkCreate
  <2>4. \A h, s, x : SymlinkRead(h, s) = SymlinkRead(h, x)
    BY DEF SymlinkRead
  <2>5. QED
    BY <1>2, <1>4, <1>6, <2>1, <2>3, <2>4 DEF AloneOps
<1>8. t \in Alone
  BY DEF Alone, Types, FileTypes, SystemTypes, SharedTypes, KeyedTypes
<1>9. QED
  BY <1>5, <1>7, <1>8, AloneServed

\* A run of any number of calls.
LEMMA RunOf ==
    ASSUME NEW S, NEW hs \in Seq(S), Len(hs) > 0, NEW out, NEW o \in Run(hs, out)
    PROVE  o.h \in S /\ (o.out = Failed \/ (o.h = hs[Len(hs)] /\ o.out = out))
<1>1. /\ Len(hs) \in Nat /\ DOMAIN hs = 1 .. Len(hs) /\ \A i \in 1 .. Len(hs) : hs[i] \in S
  BY SeqShape
<1>2. \/ \E i \in 1 .. Len(hs) : o = Outcome(hs[i], Failed)
      \/ o = Outcome(hs[Len(hs)], out)
  BY <1>1 DEF Run, Last
<1>3. QED
  BY <1>1, <1>2 DEF Outcome

\* The hosts that follow a first one,
LEMMA Follow ==
    ASSUME NEW S, NEW s \in Seq(S), Len(s) > 0, NEW m \in Nat, NEW f \in [1 .. m -> S]
    PROVE  /\ s \o f \in Seq(S) /\ Len(s \o f) = Len(s) + m /\ Len(s \o f) > 0
           /\ m = 0 => (s \o f)[Len(s \o f)] = s[Len(s)]
           /\ m # 0 => (s \o f)[Len(s \o f)] = f[m]
<1>1. f \in Seq(S) /\ Len(f) = m
  OBVIOUS
<1>2. s \o f \in Seq(S) /\ Len(s \o f) = Len(s) + m /\ Len(s) \in Nat
  BY <1>1
<1>3. \A i \in 1 .. Len(s) + m : (s \o f)[i] = IF i <= Len(s) THEN s[i] ELSE f[i - Len(s)]
  BY <1>1
<1>4. Len(s) + m \in 1 .. Len(s) + m
  BY <1>2
<1>5. (s \o f)[Len(s) + m] = IF m = 0 THEN s[Len(s)] ELSE f[m]
  BY <1>2, <1>3, <1>4
<1>6. QED
  BY <1>2, <1>5

\* The kernel runs with the values of a plan that is reported.
LEMMA NetApplied ==
    ASSUME NEW h, NetFile(h), NEW p, NEW o \in applyNetworkStack(h, p)
    PROVE  /\ NetFile(o.h)
           /\ IsState(o.out) => InEffect("network_stack", o.h, o.out)
<1> DEFINE f == networkStackManagedValues(p)
           w == [h EXCEPT !.file = f]
           live(n) == [k \in ToSet(NetKey) |-> IF \E i \in 1 .. n : NetKey[i] = k THEN f[k] ELSE h.live[k]]
           set(n) == [w EXCEPT !.live = [k \in DOMAIN @ |-> IF \E i \in 1 .. n : NetKey[i] = k THEN f[k] ELSE @[k]]]
           steps == [n \in 1 .. 4 |-> set(n - 1)]
           S == {h} \cup {set(n) : n \in 0 .. 3}
           new(n) == [file |-> f, live |-> live(n)]
<1>1. w = [file |-> f, live |-> h.live]
  BY DEF NetFile
<1>2. o \in Run(<<h>> \o [n \in 1 .. Len(NetKey) + 1 |-> set(n - 1)], buildNetworkStackState(f))
  BY DEF applyNetworkStack
<1>3. Len(NetKey) + 1 = 4
  BY DEF NetKey
<1>4. o \in Run(<<h>> \o steps, buildNetworkStackState(f))
  BY <1>2, <1>3
<1> HIDE DEF f, w
<1>5. \A n : set(n) = new(n)
  <2> TAKE n
  <2> DEFINE l == live(n)
  <2>1. set(n) = [w EXCEPT !.live = [k \in DOMAIN w.live |-> IF \E i \in 1 .. n : NetKey[i] = k THEN f[k] ELSE w.live[k]]]
    OBVIOUS
  <2>2. w.live = h.live /\ DOMAIN h.live = ToSet(NetKey)
    BY <1>1 DEF NetFile
  <2>3. set(n) = [w EXCEPT !.live = l]
    BY <2>1, <2>2
  <2> HIDE DEF l
  <2>4. [w EXCEPT !.live = l] = [file |-> f, live |-> l]
    BY <1>1
  <2>5. QED
    BY <2>3, <2>4 DEF l
<1>6. \A n : NetFile(new(n))
  BY DEF NetFile
<1>7. \A k \in ToSet(NetKey) : \E i \in 1 .. 3 : NetKey[i] = k
  BY DEF ToSet, NetKey
<1>8. live(3) = [k \in ToSet(NetKey) |-> f[k]]
  BY <1>7
<1>9. "ip_forward" \in ToSet(NetKey) /\ "v6all" \in ToSet(NetKey) /\ "v6default" \in ToSet(NetKey)
  <2>1. NetKey[1] = "ip_forward" /\ NetKey[2] = "v6all" /\ NetKey[3] = "v6default" /\ DOMAIN NetKey = 1 .. 3
    BY DEF NetKey
  <2>2. QED
    BY <2>1 DEF ToSet
<1>10. buildNetworkStackState(f) = buildNetworkStackState(new(3).live)
  BY <1>8, <1>9 DEF buildNetworkStackState
<1>11. S = {h} \cup {new(n) : n \in 0 .. 3} /\ steps = [n \in 1 .. 4 |-> new(n - 1)]
  <2> HIDE DEF set, new
  <2>1. {set(n) : n \in 0 .. 3} = {new(n) : n \in 0 .. 3}
    BY <1>5
  <2>2. [n \in 1 .. 4 |-> set(n - 1)] = [n \in 1 .. 4 |-> new(n - 1)]
    BY <1>5
  <2>3. QED
    BY <2>1, <2>2
<1> HIDE DEF live, set, steps, S, new
<1>12. steps \in [1 .. 4 -> S] /\ steps[4] = new(3)
  <2>1. \A n \in 1 .. 4 : n - 1 \in 0 .. 3
    OBVIOUS
  <2>2. QED
    BY <1>11, <2>1
<1> DEFINE one == <<h>>
           hs == one \o steps
<1>13. one \in Seq(S) /\ Len(one) > 0 /\ 4 \in Nat /\ 4 # 0
  BY <1>11
<1> HIDE DEF one
<1>14. hs \in Seq(S) /\ Len(hs) > 0 /\ hs[Len(hs)] = new(3)
  <2> DEFINE m == 4
  <2>1. steps \in [1 .. m -> S] /\ m \in Nat /\ m # 0 /\ steps[m] = new(3)
    BY <1>12
  <2> HIDE DEF m
  <2>2. QED
    BY <1>13, <2>1, Follow
<1>19. o \in Run(hs, buildNetworkStackState(f))
  BY <1>4 DEF one
<1> HIDE DEF hs
<1>15. o.h \in S /\ (o.out = Failed \/ (o.h = new(3) /\ o.out = buildNetworkStackState(f)))
  BY <1>14, <1>19, RunOf
<1>16. InEffect("network_stack", new(3), buildNetworkStackState(f))
  BY <1>10 DEF InEffect
<1>17. NetFile(o.h)
  BY <1>6, <1>11, <1>15
<1>18. QED
  BY <1>15, <1>16, <1>17 DEF IsState

\* The network_stack pack does what is asked of it.
LEMMA NetServed == Served("network_stack")
<1> DEFINE t == "network_stack"
<1>1. \A h : Holds(t, h) <=> NetFile(h)
  BY DEF Holds
<1>2. \A s : Fits(t, s)
  BY DEF Fits
<1>3. \A h, s : InEffect(t, h, s) => Reported(t, h, s)
  BY <1>2 DEF Reported, ReadAfterWrite
<1>4. \A h, s, p : /\ CreateOp(t, h, p) = NetCreate(h, p) /\ UpdateOp(t, h, s, p) = applyNetworkStack(h, p)
                   /\ DeleteOp(t, h, s) = NetDelete(h, s) /\ ReadOp(t, h, s) = NetRead(h, s)
  BY DEF CreateOp, UpdateOp, DeleteOp, ReadOp
<1>5. Starts(t)
  <2>1. \A h \in NetHost : NetFile(h)
    BY DEF NetHost, NetFile
  <2>2. Hosts(t) = NetHost
    BY DEF Hosts
  <2>3. QED
    BY <1>1, <1>2, <2>1, <2>2 DEF Starts
<1>6. ASSUME NEW h, Holds(t, h), NEW s, NEW o \in NetDelete(h, s)
      PROVE  Safe(t, o) /\ Gone(t, o, s)
  <2> DEFINE w == [h EXCEPT !.file = Nil]
  <2>1. w = [file |-> Nil, live |-> h.live]
    BY <1>1, <1>6 DEF NetFile
  <2>2. \/ o \in Answers(h, Nil) /\ h.file = Nil
        \/ o \in Run(<<h, w>>, Nil)
    BY <1>6 DEF NetDelete
  <2> HIDE DEF w
  <2>3. o.h \in {h, w} /\ o.out \in {Nil, Failed} /\ (o.out = Failed \/ o.h.file = Nil)
    BY <2>1, <2>2, RunOfTwo, AnswerOutcome
  <2>4. Holds(t, w)
    BY <1>1, <1>6, <2>1 DEF NetFile
  <2>5. o.h.file = Nil => NetRead(o.h, s) = Nil
    BY DEF NetRead
  <2>6. QED
    BY <1>4, <1>6, <2>3, <2>4, <2>5 DEF Safe, Gone, IsState, MarksApart
<1>7. AloneOps(t)
  <2>1. \A h, p, o : Holds(t, h) /\ o \in applyNetworkStack(h, p) => Safe(t, o)
    BY <1>1, <1>3, NetApplied DEF Safe
  <2>2. \A h, p, o : Holds(t, h) /\ o \in Refuse(h) => Safe(t, o)
    BY RefuseOutcome DEF Safe, IsState
  <2>3. \A h, p, o : Holds(t, h) /\ o \in NetCreate(h, p) => Safe(t, o)
    BY <2>1, <2>2 DEF NetCreate
  <2>4. \A h, s, x : NetRead(h, s) = NetRead(h, x)
    BY DEF NetRead
  <2>5. QED
    BY <1>2, <1>4, <1>6, <2>1, <2>3, <2>4 DEF AloneOps
<1>8. t \in Alone
  BY DEF Alone, Types, FileTypes, SystemTypes, SharedTypes, KeyedTypes
<1>9. QED
  BY <1>5, <1>7, <1>8, AloneServed

\* What an install leaves at the path, when it is done.
Installed(p) == [c |-> p.c, own |-> p.own]

InstallDone(p, o) == o.out \in {Failed, Refused} \/ (o.out = FileState(o.h, p) /\ o.h.path = Installed(p))

\* The managed file is written beside the old one and renamed: the host before, with the candidate, and after.
LEMMA CandidateIs ==
    ASSUME NEW h, FileShape(h), NEW p
    PROVE  \E new : writeManagedFile(h, p) = <<h, new, FileHostOf(h.path, Installed(p), Nil, h.left)>>
<1> DEFINE b == [c |-> p.c, own |-> "executor"]
           new == [h EXCEPT !.cand = b]
<1>1. new = FileHostOf(h.path, b, Nil, h.left)
  BY FileChanged DEF FileShape
<1>2. Chowned(new, "cand", p.own) = [new EXCEPT !.cand = [new.cand EXCEPT !.own = p.own]]
  BY DEF Chowned
<1> HIDE DEF new
<1>3. new.cand = b
  BY <1>1, FileChanged
<1>4. [b EXCEPT !.own = p.own] = Installed(p)
  BY DEF Installed
<1> HIDE DEF b
<1>5. Chowned(new, "cand", p.own) = FileHostOf(h.path, Installed(p), Nil, h.left)
  BY <1>1, <1>2, <1>3, <1>4, FileChanged
<1>6. writeManagedFile(h, p) = <<h, new, Chowned(new, "cand", p.own)>>
  BY DEF writeManagedFile, new, b
<1>7. QED
  BY <1>5, <1>6

\* A file validated in a staging copy is installed when its install succeeds.
LEMMA StagedDone ==
    ASSUME NEW h, FileShape(h), NEW p, NEW o \in applyFileWithStagedValidation(h, p)
    PROVE  InstallDone(p, o)
<1> DEFINE w == FileHostOf(h.path, Installed(p), Nil, h.left)
           done == FileRename(w, "cand", "path")
           clean == [w EXCEPT !.cand = Nil]
<1>1. PICK new : writeManagedFile(h, p) = <<h, new, w>>
  BY CandidateIs
<1>2. done.path = Installed(p)
  BY FileChanged, FileRenamed
<1>3. Last(<<h, new, w>>) = w
  BY DEF Last
<1> HIDE DEF w, done, clean
<1>4. \/ o \in Then(<<h, new, w>>, {Outcome(clean, Refused)})
      \/ o \in Then(<<h, new, w>>, Answers(done, FileState(done, p)))
      \/ o \in Then(<<h, new, w>>, {Outcome(x, Failed) : x \in {clean, w}})
  BY <1>1, <1>3 DEF applyFileWithStagedValidation, Then, Cleanup, clean, done, w
<1>5. o.out \in {Failed, Refused} \/ (o.h = done /\ o.out = FileState(done, p))
  BY <1>4, ThenOfThree DEF Outcome, Answers
<1>6. QED
  BY <1>2, <1>5 DEF InstallDone

\* A file validated in place is installed when the validation passes; rejected or failed, it is not reported.
LEMMA InPlaceDone ==
    ASSUME NEW h, FileShape(h), NEW p, NEW o \in applyFileWithInPlaceValidation(h, p)
    PROVE  InstallDone(p, o)
<1> DEFINE left == h.left
           hs == writeManagedFile(h, p)
           w == Last(hs)
           existed == h.path # Nil
           moved == IF existed THEN FileRename(w, "path", "back") ELSE w
           placed == FileRename(moved, "cand", "path")
           done == [placed EXCEPT !.back = Nil]
           restored == IF existed THEN FileRename(moved, "back", "path") ELSE moved
           rollback == rollbackValidatedFile(placed, existed)
           swept == UNION {{Outcome(x, Failed) : x \in Cleanup(m)} : m \in {w, moved, restored}}
           passed == Run(<<placed, done>>, FileState(done, p))
           undone == Run(rollback, Refused)
           f == swept \cup IF runFileValidation(p.c) THEN passed ELSE undone
<1>1. applyFileWithInPlaceValidation(h, p) = Then(hs, f)
  BY DEF applyFileWithInPlaceValidation
<1>2. PICK new : hs = <<h, new, FileHostOf(h.path, Installed(p), Nil, left)>>
  BY CandidateIs
<1>3. w = FileHostOf(h.path, Installed(p), Nil, left) /\ hs = <<h, new, w>>
  BY <1>2 DEF Last
<1> HIDE DEF hs, w
<1>4. o.out \in {Failed, Refused} \/ (o.h = done /\ o.out = FileState(done, p))
  <2>1. o \in swept => o.out = Failed
    <3> HIDE DEF moved, restored
    <3>1. QED
      BY DEF Outcome
  <2>2. o \in passed => o.out = Failed \/ (o.h = done /\ o.out = FileState(done, p))
    <3> HIDE DEF placed, done
    <3>1. QED
      BY RunOfTwo DEF Outcome
  <2>3. o \in undone => o.out \in {Failed, Refused}
    <3> HIDE DEF rollback
    <3>1. QED
      BY DEF Run, Outcome
  <2> HIDE DEF swept, passed, undone, done
  <2>4. o \in f => o \in swept \/ o \in passed \/ o \in undone
    OBVIOUS
  <2> HIDE DEF f
  <2>5. o.out = Failed \/ o \in f
    BY <1>1, <1>3, ThenOfThree
  <2>6. QED
    BY <2>1, <2>2, <2>3, <2>4, <2>5
<1>5. done.path = Installed(p)
  <2>1. placed \in {FileHostOf(Installed(p), Nil, h.path, left), FileHostOf(Installed(p), Nil, Nil, left)}
    <3>1. existed => moved = FileHostOf(Nil, Installed(p), h.path, left)
      BY <1>3, FileRenamed
    <3>2. ~existed => moved = FileHostOf(h.path, Installed(p), Nil, left)
      BY <1>3
    <3> HIDE DEF moved
    <3>3. existed => placed = FileHostOf(Installed(p), Nil, h.path, left)
      BY <3>1, FileRenamed
    <3>4. ~existed => placed = FileHostOf(Installed(p), Nil, Nil, left)
      BY <3>2, FileRenamed
    <3> HIDE DEF placed
    <3>5. QED
      BY <3>3, <3>4, Zenon
  <2> HIDE DEF placed
  <2>2. done = FileHostOf(Installed(p), Nil, Nil, left)
    BY <2>1, FileChanged
  <2> HIDE DEF done
  <2>3. QED
    BY <2>2, FileChanged
<1> HIDE DEF done
<1>6. QED
  BY <1>4, <1>5 DEF InstallDone

\* A file without a validation is installed when its install succeeds.
LEMMA PlainDone ==
    ASSUME NEW h, FileShape(h), NEW p, p.validation \notin {"staged", "in_place"}, NEW o \in FileInstall(h, p)
    PROVE  InstallDone(p, o)
<1> DEFINE cut == [h EXCEPT !["path"] = Torn]
           b == [c |-> p.c, own |-> "executor"]
           new == [h EXCEPT !["path"] = b]
           done(hs) == Chowned(Last(hs), "path", p.own)
           owned == [new EXCEPT !.path = [new.path EXCEPT !.own = p.own]]
<1>1. PICK hs \in FileWrite(h, "path", p.c) : o \in Run(Append(hs, done(hs)), FileState(done(hs), p))
  BY DEF FileInstall
<1>2. hs = <<h, new>> \/ hs = <<h, cut, new>>
  BY <1>1 DEF FileWrite
<1>3. owned.path = Installed(p)
  <2>1. new = FileHostOf(b, Nil, Nil, h.left)
    <3>1. new = [h EXCEPT !.path = b]
      OBVIOUS
    <3> HIDE DEF b
    <3>2. QED
      BY <3>1, FileChanged DEF FileShape
  <2> HIDE DEF new
  <2>2. new.path = b
    BY <2>1, FileChanged
  <2>3. [b EXCEPT !.own = p.own] = Installed(p)
    BY DEF Installed
  <2> HIDE DEF b
  <2> DEFINE v == [new.path EXCEPT !.own = p.own]
  <2>4. v = Installed(p)
    BY <2>2, <2>3, Zenon
  <2>5. owned = [new EXCEPT !.path = v]
    OBVIOUS
  <2> HIDE DEF v, owned
  <2>6. owned = FileHostOf(Installed(p), Nil, Nil, h.left)
    BY <2>1, <2>4, <2>5, FileChanged
  <2>7. QED
    BY <2>6, FileChanged
<1> HIDE DEF cut, new
<1>4. done(hs) = owned
  <2>1. Last(hs) = new
    BY <1>2 DEF Last
  <2>2. QED
    BY <2>1 DEF Chowned
<1> HIDE DEF owned, done
<1>5. o.out = Failed \/ (o.h = owned /\ o.out = FileState(owned, p))
  <2> DEFINE out == FileState(done(hs), p)
  <2>1. Append(hs, owned) = <<h, new, owned>> \/ Append(hs, owned) = <<h, cut, new, owned>>
    <3>1. CASE hs = <<h, new>>
      BY <3>1, AppendToTwo, Zenon
    <3>2. CASE hs = <<h, cut, new>>
      BY <3>2, AppendToThree, Zenon
    <3>3. QED
      BY <1>2, <3>1, <3>2
  <2>2. o \in Run(<<h, new, owned>>, out) \/ o \in Run(<<h, cut, new, owned>>, out)
    BY <1>1, <1>4, <2>1, Zenon
  <2>3. out = FileState(owned, p)
    BY <1>4
  <2> HIDE DEF out
  <2>4. QED
    BY <2>2, <2>3, RunOfThree, RunOfFour
<1>6. QED
  BY <1>3, <1>5 DEF InstallDone

\* A file that is reported as written is read back as it was reported.
LEMMA FileIsRead ==
    ASSUME NEW h, FileShape(h), NEW p \in FilePlan, NEW o \in applyFile(h, p), MarksApart, IsState(o.out)
    PROVE  FileRead(o.h, o.out) = o.out
<1>1. PICK q \in FileInstall(h, p) \cup {Outcome(h, Failed)} : o = Outcome(fileValidationTempPath(q.h), q.out)
  BY DEF applyFile
<1>2. o.h = fileValidationTempPath(q.h) /\ o.out = q.out
  BY <1>1 DEF Outcome
<1>3. InstallDone(p, q) /\ InstallStops(h, q)
  <2>1. CASE q = Outcome(h, Failed)
    BY <2>1, FileChanged DEF Outcome, InstallStops, FileShape, InstallDone
  <2>2. CASE p.validation = "staged" /\ q \in FileInstall(h, p)
    BY <2>2, StagedStops, StagedDone DEF FileInstall
  <2>3. CASE p.validation = "in_place" /\ q \in FileInstall(h, p)
    BY <2>3, InPlaceStops, InPlaceDone DEF FileInstall
  <2>4. CASE p.validation \notin {"staged", "in_place"} /\ q \in FileInstall(h, p)
    BY <2>4, PlainStops, PlainDone
  <2>5. QED
    BY <1>1, <2>1, <2>2, <2>3, <2>4
<1>4. q.out = FileState(q.h, p) /\ q.h.path = Installed(p)
  BY <1>2, <1>3 DEF InstallDone, IsState
<1>5. fileValidationTempPath(q.h).path = q.h.path
  <2>1. q.h = FileHostOf(q.h.path, q.h.cand, q.h.back, q.h.left)
    BY <1>3 DEF InstallStops, FileFields
  <2>2. DOMAIN q.h = {"path", "cand", "back", "left"}
    BY <2>1 DEF FileHostOf
  <2>3. QED
    BY <2>2, Zenon DEF fileValidationTempPath
<1>6. o.out = FileState(o.h, p) /\ o.h.path # Nil
  <2>1. Installed(p) = [i \in DOMAIN Installed(p) |-> Installed(p)[i]]
    BY DEF Installed
  <2>2. Installed(p) # Nil
    BY <2>1 DEF MarksApart
  <2>3. QED
    BY <1>2, <1>4, <1>5, <2>2 DEF FileState
<1>7. o.out.validation = p.validation
  BY <1>6 DEF FileState
<1>8. QED
  BY <1>6, <1>7 DEF FileRead, FileState

\* The file pack does what is asked of it.
LEMMA FileServed == Served("file")
<1> DEFINE t == "file"
<1>1. \A h : Holds(t, h) <=> FileShape(h)
  BY DEF Holds
<1>2. \A s : Fits(t, s)
  BY DEF Fits
<1>4. \A h, s, p : /\ CreateOp(t, h, p) = FileCreate(h, p) /\ UpdateOp(t, h, s, p) = applyFile(h, p)
                   /\ DeleteOp(t, h, s) = FileDelete(h, s) /\ ReadOp(t, h, s) = FileRead(h, s)
                   /\ Plans(t) = FilePlan
  BY DEF CreateOp, UpdateOp, DeleteOp, ReadOp, Plans
<1>3. \A h, s : (MarksApart => FileRead(h, s) = s) => Reported(t, h, s)
  <2>1. \A h, s : InEffect(t, h, s)
    BY DEF InEffect
  <2>2. QED
    BY <1>2, <1>4, <2>1 DEF Reported
<1>5. Starts(t)
  <2>1. \A h \in FileHost : FileShape(h)
    BY DEF FileHost, FileShape, FileHostOf
  <2>2. Hosts(t) = FileHost
    BY DEF Hosts
  <2>3. QED
    BY <1>1, <1>2, <2>1, <2>2 DEF Starts
<1>6. ASSUME NEW h, Holds(t, h), NEW s, NEW o \in FileDelete(h, s)
      PROVE  Safe(t, o) /\ Gone(t, o, s)
  <2> DEFINE w == [h EXCEPT !.path = Nil]
  <2>1. w.path = Nil
    BY <1>1, <1>6, FileChanged DEF FileShape
  <2>2. \/ o \in Answers(h, Nil) /\ h.path = Nil
        \/ o \in Run(<<h, w>>, Nil)
    BY <1>6 DEF FileDelete
  <2>3. Holds(t, o.h)
    BY <1>1, <1>6, FileDeleted
  <2> HIDE DEF w
  <2>4. o.out \in {Nil, Failed} /\ (o.out = Failed \/ o.h.path = Nil)
    BY <2>1, <2>2, RunOfTwo, AnswerOutcome
  <2>5. o.h.path = Nil => FileRead(o.h, s) = Nil
    BY DEF FileRead
  <2>6. QED
    BY <1>4, <2>3, <2>4, <2>5 DEF Safe, Gone, IsState, MarksApart
<1>7. AloneOps(t)
  <2>1. \A h, p, o : Holds(t, h) /\ p \in FilePlan /\ o \in applyFile(h, p) => Safe(t, o)
    BY <1>1, <1>3, FileIsRead, FileApplied DEF Safe
  <2>2. \A h, p, o : Holds(t, h) /\ o \in Refuse(h) => Safe(t, o)
    BY RefuseOutcome DEF Safe, IsState
  <2>3. \A h, p, o : Holds(t, h) /\ p \in FilePlan /\ o \in FileCreate(h, p) => Safe(t, o)
    BY <2>1, <2>2 DEF FileCreate
  <2>4. \A h, s : MarksApart /\ IsState(FileRead(h, s)) => FileRead(h, FileRead(h, s)) = FileRead(h, s)
    BY DEF FileRead, FileState, IsState
  <2>5. QED
    BY <1>2, <1>4, <1>6, <2>1, <2>3, <2>4 DEF AloneOps
<1>8. t \in Alone
  BY DEF Alone, Types, FileTypes, SystemTypes, SharedTypes, KeyedTypes
<1>9. QED
  BY <1>5, <1>7, <1>8, AloneServed

\* A command that is reported has run, and its guard is satisfied.
LEMMA CommandUpdated ==
    ASSUME NEW h, h = [made |-> h.made], NEW s, NEW p \in CommandPlan, NEW o \in CommandUpdate(h, s, p)
    PROVE  /\ o.h = [made |-> o.h.made]
           /\ IsState(o.out) => o.out = p /\ guardSatisfied(o.h)
<1> DEFINE w == runManagedCommand(h, p.cmd)
           out == IF guardSatisfied(w) THEN p ELSE Failed
<1>1. w = [made |-> w.made]
  BY DEF runManagedCommand
<1>2. o \in Change(<<h, w>>, out) \/ o \in {Outcome(h, Failed), Outcome(w, Failed)}
  BY DEF CommandUpdate
<1> HIDE DEF w, out
<1>3. o.h \in {h, w} /\ (o.out = Failed \/ (o.h = w /\ o.out = out))
  BY <1>2, ChangeOfTwo DEF Outcome
<1>4. QED
  BY <1>1, <1>3 DEF IsState, out

\* The command pack does what is asked of it.
LEMMA CommandServed == Served("command")
<1> DEFINE t == "command"
<1>1. \A h : Holds(t, h) <=> h = [made |-> h.made]
  BY DEF Holds
<1>2. \A s : Fits(t, s) <=> s \in CommandPlan
  BY DEF Fits
<1>4. \A h, s, p : /\ CreateOp(t, h, p) = CommandCreate(h, p) /\ UpdateOp(t, h, s, p) = CommandUpdate(h, s, p)
                   /\ DeleteOp(t, h, s) = CommandDelete(h, s) /\ ReadOp(t, h, s) = CommandRead(h, s)
                   /\ Plans(t) = CommandPlan /\ ImportIds(t) = {}
  BY DEF CreateOp, UpdateOp, DeleteOp, ReadOp, Plans, ImportIds
<1>3. \A h, s : s \in CommandPlan /\ guardSatisfied(h) => Reported(t, h, s)
  <2>1. \A h, s : InEffect(t, h, s)
    BY DEF InEffect
  <2>2. \A h, s : guardSatisfied(h) => ReadOp(t, h, s) = s
    BY <1>4 DEF CommandRead
  <2>3. QED
    BY <1>2, <2>1, <2>2 DEF Reported
<1>5. Starts(t)
  <2>1. \A h \in CommandHost : h = [made |-> h.made]
    BY DEF CommandHost
  <2>2. Hosts(t) = CommandHost
    BY DEF Hosts
  <2>3. QED
    BY <1>1, <1>2, <1>4, <2>1, <2>2 DEF Starts
<1>6. ASSUME NEW h, Holds(t, h), NEW s, NEW o \in CommandDelete(h, s)
      PROVE  Safe(t, o) /\ Gone(t, o, s)
  <2> DEFINE w == [h EXCEPT !.made = Nil]
  <2>1. w = [made |-> Nil]
    BY <1>1, <1>6
  <2>2. IF s.del THEN o \in Change(<<h, w>>, Nil) ELSE o \in Answers(h, Nil)
    BY <1>6 DEF CommandDelete
  <2> HIDE DEF w
  <2>3. o.h \in {h, w} /\ o.out \in {Nil, Failed} /\ (s.del => o.out = Failed \/ o.h.made = Nil)
    BY <2>1, <2>2, ChangeOfTwo, AnswerOutcome
  <2>4. Holds(t, o.h)
    BY <1>1, <1>6, <2>1, <2>3
  <2>5. o.h.made = Nil => CommandRead(o.h, s) = Nil
    BY DEF CommandRead, guardSatisfied
  <2>6. QED
    BY <1>4, <2>3, <2>4, <2>5 DEF Safe, Gone, IsState, MarksApart, NothingToRemove
<1>7. AloneOps(t)
  <2>1. \A h, s, p, o : Holds(t, h) /\ p \in CommandPlan /\ o \in CommandUpdate(h, s, p) => Safe(t, o)
    <3> SUFFICES ASSUME NEW h, Holds(t, h), NEW s, NEW p \in CommandPlan, NEW o \in CommandUpdate(h, s, p)
                 PROVE  Safe(t, o)
      OBVIOUS
    <3>1. h = [made |-> h.made]
      BY <1>1
    <3>2. /\ o.h = [made |-> o.h.made]
          /\ IsState(o.out) => o.out = p /\ guardSatisfied(o.h)
      BY <3>1, CommandUpdated
    <3>3. Holds(t, o.h) /\ (IsState(o.out) => Reported(t, o.h, o.out))
      BY <1>1, <1>3, <3>2
    <3>4. QED
      BY <3>3 DEF Safe
  <2>2. \A h, p, o : Holds(t, h) /\ p \in CommandPlan /\ guardSatisfied(h) /\ o \in Answers(h, p) => Safe(t, o)
    BY <1>3, AnswerOutcome DEF Safe, IsState
  <2>3. \A h, p, o : Holds(t, h) /\ p \in CommandPlan /\ o \in CommandCreate(h, p) => Safe(t, o)
    BY <2>1, <2>2 DEF CommandCreate
  <2>4. \A h, s : IsState(CommandRead(h, s)) => CommandRead(h, s) = s /\ CommandRead(h, CommandRead(h, s)) = CommandRead(h, s)
    BY DEF CommandRead, IsState
  <2>5. QED
    BY <1>2, <1>4, <1>6, <2>1, <2>3, <2>4 DEF AloneOps
<1>8. t \in Alone
  BY DEF Alone, Types, FileTypes, SystemTypes, SharedTypes, KeyedTypes
<1>9. QED
  BY <1>5, <1>7, <1>8, AloneServed

-----------------------------------------------------------------------------
(* Types whose objects have a key. *)

\* The types whose objects are named by one key.
Keyed == KeyedTypes \ {"crontab_entry", "package_lock"}

\* From h to x only objects with the keys K change.
KeyOnly(t, h, x, K) ==
    /\ \A ids : (\A k \in K : <<k>> \in ids) => Kept(t, x, ids) = Kept(t, h, ids)
    /\ MarksApart => \A s : Fits(t, s) /\ IsState(s) /\ s.k \notin K /\ ReadOp(t, h, s) = s => ReadOp(t, x, s) = s

\* What has to be shown of a type whose objects have a key.
KeySafe(t, h, K, o) ==
    /\ Holds(t, o.h) /\ (KeyOnly(t, h, o.h, K) \/ Tears(t, h, o))
    /\ IsState(o.out) => Reported(t, o.h, o.out) /\ o.out.k \in K

\* of all its operations.
KeyedOps(t) ==
    /\ \A h, p : Holds(t, h) /\ p \in Plans(t) => \A o \in CreateOp(t, h, p) : KeySafe(t, h, {p.k}, o)
    /\ \A h, s, p : Holds(t, h) /\ Fits(t, s) /\ p \in Plans(t) => \A o \in UpdateOp(t, h, s, p) : KeySafe(t, h, {p.k, s.k}, o)
    /\ \A h, s : Holds(t, h) /\ Fits(t, s) => \A o \in DeleteOp(t, h, s) : KeySafe(t, h, {s.k}, o) /\ Gone(t, o, s)
    /\ \A h, s : Holds(t, h) /\ (Fits(t, s) \/ s \in ImportIds(t)) /\ IsState(ReadOp(t, h, s)) =>
         /\ Fits(t, ReadOp(t, h, s)) /\ ReadOp(t, h, s).k = s.k
         /\ MarksApart => ReadOp(t, h, ReadOp(t, h, s)) = ReadOp(t, h, s)

\* A type whose objects have a key is served when its operations change no object but that of their keys.
LEMMA KeyedServed ==
    ASSUME NEW t \in Keyed, Starts(t), KeyedOps(t)
    PROVE  Served(t)
<1>1. t # "crontab_entry" /\ t # "package_lock"
  BY DEF Keyed
<1>2. \A q : IdOf(t, q) = <<q.k>>
  <2>1. t \in KeyedTypes \ {"crontab_entry", "package_lock"}
    BY DEF Keyed
  <2>2. QED
    BY <1>1, <2>1, Zenon DEF IdOf
<1>3. ASSUME NEW h, NEW K, NEW o, KeySafe(t, h, K, o), NEW ids, \A k \in K : <<k>> \in ids
      PROVE  Fine(t, h, ids, o)
  <2>1. JobsStay(t, h, o.h, ids) /\ (KeyOnly(t, h, o.h, K) => Kept(t, o.h, ids) = Kept(t, h, ids))
    BY <1>1, <1>3, NoJobs DEF KeyOnly
  <2>2. \A s : Apart(t, s, ids) => s.k \notin K
    BY <1>1, <1>2, <1>3 DEF Apart
  <2>3. KeyOnly(t, h, o.h, K) => Spares(t, h, o.h, ids)
    BY <2>1, <2>2 DEF Spares, KeyOnly
  <2>4. \A s : s.k \in K => Among(t, s, ids)
    BY <1>1, <1>2, <1>3 DEF Among
  <2>5. QED
    BY <1>3, <2>3, <2>4 DEF Fine, KeySafe
<1>4. Creates(t)
  <2> SUFFICES ASSUME NEW h, NEW p, Holds(t, h), p \in Plans(t), NEW o \in CreateOp(t, h, p)
               PROVE  Fine(t, h, {IdOf(t, p)}, o)
    BY DEF Creates
  <2>1. KeySafe(t, h, {p.k}, o)
    BY DEF KeyedOps
  <2>2. \A k \in {p.k} : <<k>> \in {IdOf(t, p)}
    BY <1>2
  <2>3. QED
    BY <1>3, <2>1, <2>2
<1>5. Updates(t)
  <2> SUFFICES ASSUME NEW h, NEW s, NEW p, Holds(t, h), Fits(t, s), p \in Plans(t), NEW o \in UpdateOp(t, h, s, p)
               PROVE  Fine(t, h, {IdOf(t, p), IdOf(t, s)}, o)
    BY DEF Updates
  <2>1. KeySafe(t, h, {p.k, s.k}, o)
    BY DEF KeyedOps
  <2>2. \A k \in {p.k, s.k} : <<k>> \in {IdOf(t, p), IdOf(t, s)}
    BY <1>2
  <2>3. QED
    BY <1>3, <2>1, <2>2
<1>6. Deletes(t)
  <2> SUFFICES ASSUME NEW h, NEW s, Holds(t, h), Fits(t, s), NEW o \in DeleteOp(t, h, s)
               PROVE  Fine(t, h, {IdOf(t, s)}, o) /\ Gone(t, o, s)
    BY DEF Deletes
  <2>1. KeySafe(t, h, {s.k}, o) /\ Gone(t, o, s)
    BY DEF KeyedOps
  <2>2. \A k \in {s.k} : <<k>> \in {IdOf(t, s)}
    BY <1>2
  <2>3. QED
    BY <1>3, <2>1, <2>2
<1>7. Reads(t)
  <2>1. \A s, x : s.k = x.k => Among(t, s, {IdOf(t, x)})
    BY <1>1, <1>2 DEF Among
  <2>2. QED
    BY <2>1 DEF KeyedOps, Reads
<1>8. QED
  BY <1>4, <1>5, <1>6, <1>7 DEF Served

\* The lines of others, in the types that share a file of entries.
LEMMA KeptRest ==
    ASSUME NEW t \in {"hosts_entry", "sysctl_entry", "fstab_entry"}, NEW h, NEW ids
    PROVE  Kept(t, h, ids) = Rest(h.doc, ids)
<1> DEFINE S == {i \in DOMAIN h.doc : ~(h.doc[i].t = "entry" /\ <<h.doc[i].k>> \in ids)}
<1>1. S = Others(h.doc, ids)
  BY Zenon DEF Others
<1>2. Kept(t, h, ids) = At(h.doc, S)
  <2> HIDE DEF S
  <2>1. QED
    BY DEF Kept, S
<1>3. QED
  BY <1>1, <1>2, Zenon DEF Rest

\* A write of such a file answers what it should, or fails.
LEMMA WriteAnswer ==
    ASSUME NEW h, NEW doc, NEW out, NEW o \in writeLines(h, doc, out)
    PROVE  o.out \in {out, Failed}
<1>1. o \in Run(<<h, [h EXCEPT !.doc = doc]>>, out) \/ o \in TornWrite(h, doc)
  BY DEF writeLines
<1>2. o \in TornWrite(h, doc) => o.out = Failed
  BY DEF TornWrite, Outcome
<1>3. QED
  BY <1>1, <1>2, RunOfTwo

\* The hosts_entry pack does what is asked of it.
LEMMA HostsServed == Served("hosts_entry")
<1> DEFINE t == "hosts_entry"
<1>1. \A h : Holds(t, h) <=> HostsFile(h)
  BY DEF Holds
<1>2. \A s : Fits(t, s) <=> HostsState(s)
  BY DEF Fits
<1>3. \A h, s, p : /\ CreateOp(t, h, p) = HostsCreate(h, p) /\ UpdateOp(t, h, s, p) = HostsUpdate(h, s, p)
                   /\ DeleteOp(t, h, s) = HostsDelete(h, s) /\ ReadOp(t, h, s) = HostsRead(h, s)
                   /\ Plans(t) = HostsPlan /\ ImportIds(t) = {[k |-> q.k] : q \in HostsPlan} /\ Hosts(t) = HostsHost
  BY DEF CreateOp, UpdateOp, DeleteOp, ReadOp, Plans, ImportIds, Hosts
<1>4. \A h, ids : Kept(t, h, ids) = Rest(h.doc, ids)
  BY KeptRest
<1>5. \A p \in HostsPlan : HostsState(p)
  <2> TAKE p \in HostsPlan
  <2>1. p = [k |-> p.k, v |-> p.v] /\ p.k \in {"a", "b"} /\ p.v \in {"", "c", "#c"}
    BY DEF HostsPlan
  <2>2. QED
    BY <2>1, Zenon DEF HostsState
<1>6. Starts(t)
  <2> DEFINE l == RawLine("x")
             m == Entry("a", "#c")
             n == Entry("a", "")
  <2>1. l \in Line /\ m \in Line /\ n \in Line
    BY LineMade DEF Word, RawLine, Entry
  <2>2. HostsHost = [doc : {<<l>>, <<m, l, n>>}, mount : BOOLEAN]
    BY DEF HostsHost
  <2> HIDE DEF l, m, n
  <2>5. <<l>> \in Text /\ <<m, l, n>> \in Text
    BY <2>1 DEF Text
  <2>3. \A h \in HostsHost : HostsFile(h)
    BY <2>2, <2>5 DEF HostsFile
  <2>4. QED
    BY <1>1, <1>2, <1>3, <1>5, <2>3 DEF Starts
<1>7. ASSUME NEW h, HostsFile(h), NEW x, HostsFile(x), NEW k, NEW K, k \in K, DocOnly(h, x, k)
      PROVE  KeyOnly(t, h, x, K)
  <2>1. \A ids : (\A j \in K : <<j>> \in ids) => Kept(t, x, ids) = Kept(t, h, ids)
    BY <1>4, <1>7 DEF DocOnly
  <2>2. \A s : s.k \notin K => ReadOp(t, x, s) = ReadOp(t, h, s)
    <3> SUFFICES ASSUME NEW s, s.k \notin K PROVE ReadOp(t, x, s) = ReadOp(t, h, s)
      OBVIOUS
    <3>1. s.k # k
      BY <1>7
    <3>2. QED
      BY <1>3, <1>7, <3>1, HostsReadOther
  <2>3. QED
    BY <2>1, <2>2 DEF KeyOnly
<1>8. ASSUME NEW h, NEW s, HostsState(s), s.v # "#c" => HostsRead(h, s) = s
      PROVE  Reported(t, h, s)
  <2>1. InEffect(t, h, s)
    BY DEF InEffect
  <2>2. QED
    BY <1>2, <1>3, <1>8, <2>1 DEF Reported, Denormal
<1>9. KeyedOps(t)
  <2>1. ASSUME NEW h, HostsFile(h), NEW p \in HostsPlan, NEW o \in HostsCreate(h, p)
        PROVE  KeySafe(t, h, {p.k}, o)
    <3>1. /\ HostsFile(o.h) /\ (DocOnly(h, o.h, p.k) \/ Cut(h, o))
          /\ IsState(o.out) => o.out = p /\ (p.v # "#c" => HostsRead(o.h, p) = p)
      BY <1>5, <2>1, HostsCreated
    <3>2. KeyOnly(t, h, o.h, {p.k}) \/ Tears(t, h, o)
      BY <1>7, <2>1, <3>1 DEF Cut, Tears
    <3>3. IsState(o.out) => Reported(t, o.h, o.out) /\ o.out.k \in {p.k}
      BY <1>5, <1>8, <2>1, <3>1
    <3>4. QED
      BY <1>1, <3>1, <3>2, <3>3 DEF KeySafe
  <2>2. ASSUME NEW h, HostsFile(h), NEW s, HostsState(s), NEW p \in HostsPlan, NEW o \in HostsUpdate(h, s, p)
        PROVE  KeySafe(t, h, {p.k, s.k}, o)
    <3> DEFINE new == [k |-> s.k, v |-> p.v]
    <3>1. /\ HostsFile(o.h) /\ (DocOnly(h, o.h, s.k) \/ Cut(h, o))
          /\ IsState(o.out) => o.out = new /\ (p.v # "#c" => HostsRead(o.h, new) = new)
      BY <1>5, <2>2, HostsUpdated
    <3>2. KeyOnly(t, h, o.h, {p.k, s.k}) \/ Tears(t, h, o)
      BY <1>7, <2>2, <3>1 DEF Cut, Tears
    <3>3. HostsState(new) /\ new.k = s.k /\ new.v = p.v
      BY <1>5, <2>2 DEF HostsState
    <3> HIDE DEF new
    <3>4. IsState(o.out) => Reported(t, o.h, o.out) /\ o.out.k \in {p.k, s.k}
      BY <1>8, <2>2, <3>1, <3>3
    <3>5. QED
      BY <1>1, <3>1, <3>2, <3>4 DEF KeySafe
  <2>3. ASSUME NEW h, HostsFile(h), NEW s, HostsState(s), NEW o \in HostsDelete(h, s)
        PROVE  KeySafe(t, h, {s.k}, o) /\ Gone(t, o, s)
    <3>1. /\ HostsFile(o.h) /\ (DocOnly(h, o.h, s.k) \/ Cut(h, o))
          /\ o.out = Failed \/ HostsRead(o.h, s) = Nil
      BY <2>3, HostsDeleted
    <3>2. o.out \in {Nil, Failed}
      BY <2>3, WriteAnswer DEF HostsDelete
    <3>3. KeyOnly(t, h, o.h, {s.k}) \/ Tears(t, h, o)
      BY <1>7, <2>3, <3>1 DEF Cut, Tears
    <3>4. ~IsState(o.out)
      BY <3>2 DEF IsState
    <3>5. KeySafe(t, h, {s.k}, o)
      BY <1>1, <3>1, <3>3, <3>4 DEF KeySafe
    <3>6. Gone(t, o, s)
      BY <1>3, <3>1 DEF Gone, MarksApart
    <3>7. QED
      BY <3>5, <3>6
  <2>4. ASSUME NEW h, HostsFile(h), NEW s, HostsState(s) \/ s \in {[k |-> q.k] : q \in HostsPlan}, IsState(HostsRead(h, s))
        PROVE  /\ HostsState(HostsRead(h, s)) /\ HostsRead(h, s).k = s.k
               /\ HostsRead(h, HostsRead(h, s)) = HostsRead(h, s)
    <3>1. s.k \in {"a", "b"}
      <4>1. CASE HostsState(s)
        BY <4>1 DEF HostsState
      <4>2. ASSUME NEW q \in HostsPlan, s = [k |-> q.k] PROVE s.k = q.k /\ q.k \in {"a", "b"}
        BY <1>5, <4>2 DEF HostsState
      <4>3. QED
        BY <2>4, <4>1, <4>2
    <3>2. QED
      BY <2>4, <3>1, HostsReads DEF IsState
  <2>5. QED
    BY <1>1, <1>2, <1>3, <2>1, <2>2, <2>3, <2>4 DEF KeyedOps
<1>10. t \in Keyed
  BY DEF Keyed, KeyedTypes, Types, FileTypes, SystemTypes
<1>11. QED
  BY <1>6, <1>9, <1>10, KeyedServed

-----------------------------------------------------------------------------
(* sysctl_entry and fstab_entry *)

\* The sysctl_entry pack does what is asked of it.
LEMMA SysctlServed == Served("sysctl_entry")
<1> DEFINE t == "sysctl_entry"
<1>1. \A h : Holds(t, h) <=> SysctlFile(h)
  BY DEF Holds
<1>2. \A s : Fits(t, s) <=> SysctlState(s)
  BY DEF Fits
<1>3. \A h, s, p : /\ CreateOp(t, h, p) = SysctlCreate(h, p) /\ UpdateOp(t, h, s, p) = applySysctlEntry(h, p)
                   /\ DeleteOp(t, h, s) = SysctlDelete(h, s) /\ ReadOp(t, h, s) = SysctlRead(h, s)
                   /\ Plans(t) = SysctlPlan /\ ImportIds(t) = {[k |-> q.k] : q \in SysctlPlan} /\ Hosts(t) = SysctlHost
  BY DEF CreateOp, UpdateOp, DeleteOp, ReadOp, Plans, ImportIds, Hosts
<1>5. \A p \in SysctlPlan : SysctlState(p)
  <2> TAKE p \in SysctlPlan
  <2>1. p = [k |-> p.k, v |-> p.v] /\ p.k \in SysctlKey /\ p.v \in {"0", "1"}
    BY DEF SysctlPlan
  <2>2. QED
    BY <2>1 DEF SysctlState, Word
<1>6. Starts(t)
  <2> DEFINE l == RawLine("x")
             m == Entry("a", "0")
             n == Entry("a", "1")
  <2>1. l \in Line /\ m \in Line /\ n \in Line
    BY LineMade DEF Word, RawLine, Entry
  <2>2. SysctlHost = [doc : {<<l>>, <<m, l, n>>}, live : [SysctlKey -> {"0"}], mount : BOOLEAN]
    BY DEF SysctlHost
  <2> HIDE DEF l, m, n
  <2>3. <<l>> \in Text /\ <<m, l, n>> \in Text
    BY <2>1 DEF Text
  <2>4. \A h \in SysctlHost : SysctlFile(h)
    BY <2>2, <2>3 DEF SysctlFile
  <2>5. QED
    BY <1>1, <1>2, <1>3, <1>5, <2>4 DEF Starts
<1>7. ASSUME NEW h, SysctlFile(h), NEW x, SysctlFile(x), NEW k, DocOnly(h, x, k), NEW K, k \in K
      PROVE  KeyOnly(t, h, x, K)
  <2>1. \A ids : (\A j \in K : <<j>> \in ids) => Kept(t, x, ids) = Kept(t, h, ids)
    BY <1>7, KeptRest DEF DocOnly
  <2>2. \A s : s.k \notin K => ReadOp(t, x, s) = ReadOp(t, h, s)
    <3> SUFFICES ASSUME NEW s, s.k \notin K PROVE ReadOp(t, x, s) = ReadOp(t, h, s)
      OBVIOUS
    <3>1. s.k # k /\ h.doc \in Text /\ x.doc \in Text
      BY <1>7 DEF SysctlFile
    <3>2. QED
      BY <1>3, <1>7, <3>1, SysctlReadOther
  <2>3. QED
    BY <2>1, <2>2 DEF KeyOnly
<1>8. ASSUME NEW h, NEW s, SysctlState(s), SysctlRead(h, s) = s, h.live[s.k] = s.v
      PROVE  Reported(t, h, s)
  <2>1. InEffect(t, h, s)
    BY <1>8 DEF InEffect
  <2>2. QED
    BY <1>2, <1>3, <1>8, <2>1 DEF Reported
<1>9. ASSUME NEW h, SysctlFile(h), NEW p, SysctlState(p), NEW o, NEW K, p.k \in K,
             /\ SysctlFile(o.h) /\ (DocOnly(h, o.h, p.k) \/ Cut(h, o))
             /\ IsState(o.out) => o.out = p /\ SysctlRead(o.h, p) = p /\ o.h.live[p.k] = p.v
      PROVE  KeySafe(t, h, K, o)
  <2>1. KeyOnly(t, h, o.h, K) \/ Tears(t, h, o)
    BY <1>7, <1>9 DEF Cut, Tears
  <2>2. IsState(o.out) => Reported(t, o.h, o.out) /\ o.out.k \in K
    BY <1>8, <1>9
  <2>3. QED
    BY <1>1, <1>9, <2>1, <2>2 DEF KeySafe
<1>10. KeyedOps(t)
  <2>1. ASSUME NEW h, SysctlFile(h), NEW p \in SysctlPlan, NEW o \in SysctlCreate(h, p)
        PROVE  KeySafe(t, h, {p.k}, o)
    <3>1. SysctlState(p) /\ p.k \in {p.k}
      BY <1>5
    <3>2. QED
      BY <1>9, <2>1, <3>1, SysctlCreated
  <2>2. ASSUME NEW h, SysctlFile(h), NEW s, SysctlState(s), NEW p \in SysctlPlan, NEW o \in applySysctlEntry(h, p)
        PROVE  KeySafe(t, h, {p.k, s.k}, o)
    <3>1. SysctlState(p) /\ p.k \in {p.k, s.k}
      BY <1>5
    <3>2. QED
      BY <1>9, <2>2, <3>1, SysctlApplied
  <2>3. ASSUME NEW h, SysctlFile(h), NEW s, SysctlState(s), NEW o \in SysctlDelete(h, s)
        PROVE  KeySafe(t, h, {s.k}, o) /\ Gone(t, o, s)
    <3>1. /\ SysctlFile(o.h) /\ (DocOnly(h, o.h, s.k) \/ Cut(h, o))
          /\ o.out = Failed \/ SysctlRead(o.h, s) = Nil
      BY <2>3, SysctlDeleted
    <3>2. o.out \in {Nil, Failed}
      BY <2>3, WriteAnswer DEF SysctlDelete
    <3>3. KeyOnly(t, h, o.h, {s.k}) \/ Tears(t, h, o)
      BY <1>7, <2>3, <3>1 DEF Cut, Tears
    <3>4. ~IsState(o.out)
      BY <3>2 DEF IsState
    <3>5. KeySafe(t, h, {s.k}, o)
      BY <1>1, <3>1, <3>3, <3>4 DEF KeySafe
    <3>6. Gone(t, o, s)
      BY <1>3, <3>1 DEF Gone, MarksApart
    <3>7. QED
      BY <3>5, <3>6
  <2>4. ASSUME NEW h, SysctlFile(h), NEW s, SysctlState(s) \/ s \in {[k |-> q.k] : q \in SysctlPlan}, IsState(SysctlRead(h, s))
        PROVE  /\ SysctlState(SysctlRead(h, s)) /\ SysctlRead(h, s).k = s.k
               /\ SysctlRead(h, SysctlRead(h, s)) = SysctlRead(h, s)
    <3>1. s.k \in SysctlKey
      <4>1. CASE SysctlState(s)
        BY <4>1 DEF SysctlState
      <4>2. ASSUME NEW q \in SysctlPlan, s = [k |-> q.k] PROVE s.k = q.k /\ q.k \in SysctlKey
        BY <1>5, <4>2 DEF SysctlState
      <4>3. QED
        BY <2>4, <4>1, <4>2
    <3>2. QED
      BY <2>4, <3>1, SysctlReads DEF IsState
  <2>5. QED
    BY <1>1, <1>2, <1>3, <2>1, <2>2, <2>3, <2>4 DEF KeyedOps
<1>11. t \in Keyed
  BY DEF Keyed, KeyedTypes, Types, FileTypes, SystemTypes
<1>12. QED
  BY <1>6, <1>10, <1>11, KeyedServed

\* The fstab_entry pack does what is asked of it.
LEMMA FstabServed == Served("fstab_entry")
<1> DEFINE t == "fstab_entry"
<1>1. \A h : Holds(t, h) <=> FstabFile(h)
  BY DEF Holds
<1>2. \A s : Fits(t, s) <=> FstabState(s)
  BY DEF Fits
<1>3. \A h, s, p : /\ CreateOp(t, h, p) = FstabCreate(h, p) /\ UpdateOp(t, h, s, p) = applyFstabEntry(h, p)
                   /\ DeleteOp(t, h, s) = FstabDelete(h, s) /\ ReadOp(t, h, s) = FstabRead(h, s)
                   /\ Plans(t) = FstabPlan /\ ImportIds(t) = {[k |-> q.k] : q \in FstabPlan} /\ Hosts(t) = FstabHost
  BY DEF CreateOp, UpdateOp, DeleteOp, ReadOp, Plans, ImportIds, Hosts
<1>5. \A p \in FstabPlan : FstabState(p)
  <2> TAKE p \in FstabPlan
  <2>1. p = [k |-> p.k, v |-> p.v] /\ p.k \in MountPoint /\ p.v \in {"ext4", "xfs"}
    BY DEF FstabPlan, MountPoint
  <2>2. QED
    BY <2>1 DEF FstabState, Word
<1>6. Starts(t)
  <2> DEFINE l == RawLine("x")
             m == Entry("none", "swap")
             n == Entry("m", "ext4")
  <2>1. /\ l = [t |-> "raw", k |-> "", v |-> "x"] /\ l \in Line
        /\ m = [t |-> "entry", k |-> "none", v |-> "swap"] /\ m \in Line
        /\ n = [t |-> "entry", k |-> "m", v |-> "ext4"] /\ n \in Line
    BY LineMade DEF Word, RawLine, Entry
  <2>2. FstabHost = [doc : {<<l, m>>, <<>>}, live : {"on"}, mount : BOOLEAN]
                      \cup [doc : {<<n, m>>}, live : {"off"}, mount : BOOLEAN]
    BY DEF FstabHost
  <2> HIDE DEF l, m, n
  <2>3. <<l, m>> \in Text /\ <<n, m>> \in Text /\ <<>> \in Text
    <3>1. l \in Line /\ m \in Line /\ n \in Line
      BY <2>1
    <3>2. <<l, m>> \in Text /\ <<n, m>> \in Text
      BY <3>1 DEF Text
    <3>3. <<>> \in Text
      BY DEF Text
    <3>4. QED
      BY <3>2, <3>3
  <2>4. l.k \notin MountPoint /\ m.k \notin MountPoint /\ n.v # "swap" /\ n.t # "disabled"
    BY <2>1 DEF MountPoint
  <2>5. Mounts(<<l, m>>) /\ Mounts(<<n, m>>) /\ Mounts(<<>>)
    <3>1. \A d : d = <<l, m>> => Mounts(d)
      BY <2>4 DEF Mounts
    <3>2. \A d : d = <<n, m>> => Mounts(d)
      BY <2>4 DEF Mounts
    <3>3. \A d : d = <<>> => Mounts(d)
      BY DEF Mounts
    <3>4. QED
      BY <3>1, <3>2, <3>3, Zenon
  <2>6. \A h \in FstabHost : FstabFile(h)
    BY <2>2, <2>3, <2>5 DEF FstabFile
  <2>7. QED
    BY <1>1, <1>2, <1>3, <1>5, <2>6 DEF Starts
<1>7. ASSUME NEW h, FstabFile(h), NEW x, FstabFile(x), NEW k, DocOnly(h, x, k), NEW K, k \in K
      PROVE  KeyOnly(t, h, x, K)
  <2>1. \A ids : (\A j \in K : <<j>> \in ids) => Kept(t, x, ids) = Kept(t, h, ids)
    BY <1>7, KeptRest DEF DocOnly
  <2>2. \A s : s.k \notin K => ReadOp(t, x, s) = ReadOp(t, h, s)
    <3> SUFFICES ASSUME NEW s, s.k \notin K PROVE ReadOp(t, x, s) = ReadOp(t, h, s)
      OBVIOUS
    <3>1. s.k # k /\ h.doc \in Text /\ x.doc \in Text
      BY <1>7 DEF FstabFile
    <3>2. QED
      BY <1>3, <1>7, <3>1, SysctlReadOther
  <2>3. QED
    BY <2>1, <2>2 DEF KeyOnly
<1>8. ASSUME NEW h, NEW s, FstabState(s), FstabRead(h, s) = s
      PROVE  Reported(t, h, s)
  <2>1. InEffect(t, h, s)
    BY DEF InEffect
  <2>2. QED
    BY <1>2, <1>3, <1>8, <2>1 DEF Reported
<1>9. ASSUME NEW h, FstabFile(h), NEW p, FstabState(p), NEW o, NEW K, p.k \in K,
             /\ FstabFile(o.h) /\ (DocOnly(h, o.h, p.k) \/ Cut(h, o))
             /\ IsState(o.out) => o.out = p /\ FstabRead(o.h, p) = p
      PROVE  KeySafe(t, h, K, o)
  <2>1. KeyOnly(t, h, o.h, K) \/ Tears(t, h, o)
    BY <1>7, <1>9 DEF Cut, Tears
  <2>2. IsState(o.out) => Reported(t, o.h, o.out) /\ o.out.k \in K
    BY <1>8, <1>9
  <2>3. QED
    BY <1>1, <1>9, <2>1, <2>2 DEF KeySafe
<1>10. KeyedOps(t)
  <2>1. ASSUME NEW h, FstabFile(h), NEW p \in FstabPlan, NEW o \in FstabCreate(h, p)
        PROVE  KeySafe(t, h, {p.k}, o)
    <3>1. FstabState(p) /\ p.k \in {p.k}
      BY <1>5
    <3>2. QED
      BY <1>9, <2>1, <3>1, FstabCreated
  <2>2. ASSUME NEW h, FstabFile(h), NEW s, FstabState(s), NEW p \in FstabPlan, NEW o \in applyFstabEntry(h, p)
        PROVE  KeySafe(t, h, {p.k, s.k}, o)
    <3>1. FstabState(p) /\ p.k \in {p.k, s.k}
      BY <1>5
    <3>2. QED
      BY <1>9, <2>2, <3>1, FstabApplied
  <2>3. ASSUME NEW h, FstabFile(h), NEW s, FstabState(s), NEW o \in FstabDelete(h, s)
        PROVE  KeySafe(t, h, {s.k}, o) /\ Gone(t, o, s)
    <3>1. /\ FstabFile(o.h) /\ (DocOnly(h, o.h, s.k) \/ Cut(h, o))
          /\ o.out = Failed \/ FstabRead(o.h, s) = Nil
      BY <2>3, FstabDeleted
    <3>2. o.out \in {Nil, Failed}
      BY <2>3, WriteAnswer DEF FstabDelete
    <3>3. KeyOnly(t, h, o.h, {s.k}) \/ Tears(t, h, o)
      BY <1>7, <2>3, <3>1 DEF Cut, Tears
    <3>4. ~IsState(o.out)
      BY <3>2 DEF IsState
    <3>5. KeySafe(t, h, {s.k}, o)
      BY <1>1, <3>1, <3>3, <3>4 DEF KeySafe
    <3>6. Gone(t, o, s)
      BY <1>3, <3>1 DEF Gone, MarksApart
    <3>7. QED
      BY <3>5, <3>6
  <2>4. ASSUME NEW h, FstabFile(h), NEW s, FstabState(s) \/ s \in {[k |-> q.k] : q \in FstabPlan}, IsState(FstabRead(h, s))
        PROVE  /\ FstabState(FstabRead(h, s)) /\ FstabRead(h, s).k = s.k
               /\ FstabRead(h, FstabRead(h, s)) = FstabRead(h, s)
    <3>1. s.k \in MountPoint
      <4>1. CASE FstabState(s)
        BY <4>1 DEF FstabState
      <4>2. ASSUME NEW q \in FstabPlan, s = [k |-> q.k] PROVE s.k = q.k /\ q.k \in MountPoint
        BY <1>5, <4>2 DEF FstabState
      <4>3. QED
        BY <2>4, <4>1, <4>2
    <3>2. QED
      BY <2>4, <3>1, FstabReads DEF IsState
  <2>5. QED
    BY <1>1, <1>2, <1>3, <2>1, <2>2, <2>3, <2>4 DEF KeyedOps
<1>11. t \in Keyed
  BY DEF Keyed, KeyedTypes, Types, FileTypes, SystemTypes
<1>12. QED
  BY <1>6, <1>10, <1>11, KeyedServed

-----------------------------------------------------------------------------
(* swap and crontab_entry *)

\* The swap pack does what is asked of it.
LEMMA SwapServed == Served("swap")
<1> DEFINE t == "swap"
<1>1. \A h : Holds(t, h) <=> FstabFile(h)
  BY DEF Holds
<1>2. \A s : Fits(t, s) <=> SwapState(s)
  BY DEF Fits
<1>3. \A h, s, p : /\ CreateOp(t, h, p) = applySwap(h, p) /\ UpdateOp(t, h, s, p) = applySwap(h, p)
                   /\ DeleteOp(t, h, s) = SwapDelete(h, s) /\ ReadOp(t, h, s) = SwapRead(h, s)
                   /\ Plans(t) = SwapPlan /\ Hosts(t) = FstabHost /\ Hosts("fstab_entry") = FstabHost
  BY DEF CreateOp, UpdateOp, DeleteOp, ReadOp, Plans, Hosts
<1>4. \A q : IdOf(t, q) = <<>>
  BY DEF IdOf, KeyedTypes
<1>5. \A p \in SwapPlan : SwapState(p)
  BY DEF SwapPlan, SwapState
<1>6. Starts(t)
  <2>1. \A h \in FstabHost : FstabFile(h)
    BY <1>3, FstabServed DEF Served, Starts, Holds
  <2>2. QED
    BY <1>1, <1>2, <1>3, <1>5, <2>1 DEF Starts
<1>7. ASSUME NEW h, FstabFile(h), NEW x, SwapLeaves(h, x), NEW ids, <<>> \in ids
      PROVE  Spares(t, h, x, ids)
  <2>1. \A y : Kept(t, y, ids) = restoreManagedSwapEntries(y.doc)
    BY DEF Kept
  <2>2. Kept(t, x, ids) = Kept(t, h, ids)
    BY <1>7, <2>1 DEF SwapLeaves, SwapOnly
  <2>3. \A s : ~Apart(t, s, ids)
    BY <1>4, <1>7 DEF Apart
  <2>4. JobsStay(t, h, x, ids)
    BY NoJobs
  <2>5. QED
    BY <2>2, <2>3, <2>4, Zenon DEF Spares
<1>8. ASSUME NEW h, FstabFile(h), NEW p \in SwapPlan, NEW o \in applySwap(h, p), NEW ids, <<>> \in ids
      PROVE  Fine(t, h, ids, o)
  <2>1. SwapState(p)
    BY <1>5
  <2>2. /\ FstabFile(o.h) /\ (SwapLeaves(h, o.h) \/ Cut(h, o))
        /\ IsState(o.out) => o.out = p /\ SwapRead(o.h, p) = p /\ (p.enabled = "off" => o.h.live = "off")
    BY <1>8, <2>1, SwapApplied
  <2>3. Holds(t, o.h)
    BY <1>1, <2>2
  <2>4. IsState(o.out) => InEffect(t, o.h, o.out)
    BY <2>2 DEF InEffect
  <2>5. IsState(o.out) => Reported(t, o.h, o.out)
    BY <1>2, <1>3, <2>1, <2>2, <2>4 DEF Reported
  <2>6. Among(t, o.out, ids)
    BY <1>4, <1>8 DEF Among
  <2>7. Spares(t, h, o.h, ids) \/ Tears(t, h, o)
    BY <1>7, <1>8, <2>2 DEF Cut, Tears
  <2>8. QED
    BY <2>3, <2>5, <2>6, <2>7 DEF Fine
<1>9. Creates(t)
  BY <1>1, <1>3, <1>4, <1>8 DEF Creates
<1>10. Updates(t)
  BY <1>1, <1>3, <1>4, <1>8 DEF Updates
<1>11. Deletes(t)
  <2> SUFFICES ASSUME NEW h, NEW s, FstabFile(h), SwapState(s), NEW o \in SwapDelete(h, s)
               PROVE  Fine(t, h, {IdOf(t, s)}, o) /\ Gone(t, o, s)
    BY <1>1, <1>2, <1>3 DEF Deletes
  <2>1. FstabFile(o.h) /\ (SwapLeaves(h, o.h) \/ Cut(h, o))
    BY SwapDeleted
  <2>2. o.out \in {Nil, Failed, Refused}
    <3>1. CASE s.enabled = "on"
      BY <3>1, AnswerOutcome DEF SwapDelete
    <3>2. CASE s.enabled # "on"
      <4>1. o \in enableManagedSwap(h, FALSE, Nil) /\ FALSE \in BOOLEAN
        BY <3>2 DEF SwapDelete
      <4>2. QED
        BY <4>1, SwapSwitchedOn
    <3>3. QED
      BY <3>1, <3>2
  <2>3. Holds(t, o.h)
    BY <1>1, <2>1
  <2>4. Spares(t, h, o.h, {IdOf(t, s)}) \/ Tears(t, h, o)
    BY <1>4, <1>7, <2>1 DEF Cut, Tears
  <2>5. Gone(t, o, s)
    BY DEF Gone, NothingToRemove
  <2>6. QED
    BY <2>2, <2>3, <2>4, <2>5 DEF Fine, IsState
<1>12. Reads(t)
  <2>1. \A h, s : SwapState(SwapRead(h, s)) /\ SwapRead(h, SwapRead(h, s)) = SwapRead(h, s)
    BY SwapReads
  <2>2. \A s, x : Among(t, s, {IdOf(t, x)})
    BY <1>4 DEF Among
  <2>3. QED
    BY <1>2, <1>3, <2>1, <2>2 DEF Reads
<1>13. QED
  BY <1>6, <1>9, <1>10, <1>11, <1>12 DEF Served

\* The crontab_entry pack does what is asked of it.
LEMMA CronServed == Served("crontab_entry")
<1> DEFINE t == "crontab_entry"
<1>1. \A h : Holds(t, h) <=> CronFile(h)
  BY DEF Holds
<1>2. \A s : Fits(t, s) <=> CronState(s)
  BY DEF Fits
<1>3. \A h, s, p : /\ CreateOp(t, h, p) = CronCreate(h, p) /\ UpdateOp(t, h, s, p) = CronUpdate(h, s, p)
                   /\ DeleteOp(t, h, s) = CronDelete(h, s) /\ ReadOp(t, h, s) = CronRead(h, s)
                   /\ Plans(t) = CronPlan /\ Hosts(t) = CronHost
  BY DEF CreateOp, UpdateOp, DeleteOp, ReadOp, Plans, Hosts
<1>14. \A s \in ImportIds(t) : s \in [u : CronUser, k : {"a", "b"}, v : {""}]
  BY DEF ImportIds
<1>4. \A q : IdOf(t, q) = <<q.u, q.k>>
  BY DEF IdOf
<1>5. \A s : s \in CronPlan \cup ImportIds(t) => CronState(s)
  <2> SUFFICES ASSUME NEW s \in CronPlan \cup ImportIds(t) PROVE CronState(s)
    OBVIOUS
  <2>1. s = [u |-> s.u, k |-> s.k, v |-> s.v] /\ s.u \in CronUser /\ s.k \in {"a", "b"} /\ s.v \in {"", "j1", "j2"}
    <3>1. CASE s \in CronPlan
      BY <3>1 DEF CronPlan
    <3>2. CASE s \in [u : CronUser, k : {"a", "b"}, v : {""}]
      BY <3>2
    <3>3. QED
      BY <1>3, <1>14, <3>1, <3>2
  <2>2. QED
    BY <2>1 DEF CronState, Word
<1>6. Starts(t)
  <2> DEFINE l == RawLine("x")
             m == Job("j1")
             n == Marker("a")
             D == {<<>>, <<l, m>>, <<m, m>>, <<n, m>>}
  <2>1. l \in Line /\ m \in Line /\ n \in Line
    BY LineMade DEF Word, RawLine, Job, Marker
  <2>2. CronHost = [tabs : {[u1 |-> d, u2 |-> <<>>] : d \in D}]
    BY DEF CronHost
  <2> HIDE DEF l, m, n
  <2>3. <<l, m>> \in Text /\ <<m, m>> \in Text /\ <<n, m>> \in Text
    BY <2>1 DEF Text
  <2>4. <<>> \in Text
    BY DEF Text
  <2>5. \A d \in D : d \in Text
    BY <2>3, <2>4
  <2> HIDE DEF D
  <2>6. ASSUME NEW h \in CronHost PROVE CronFile(h)
    <3>1. PICK d \in D : h = [tabs |-> [u1 |-> d, u2 |-> <<>>]]
      BY <2>2
    <3>2. h.tabs = [u1 |-> d, u2 |-> <<>>]
      BY <3>1
    <3>3. DOMAIN h.tabs = CronUser /\ h.tabs["u1"] = d /\ h.tabs["u2"] = <<>>
      BY <3>2 DEF CronUser
    <3>4. h.tabs = [u \in CronUser |-> h.tabs[u]]
      BY <3>2, <3>3
    <3>5. h = [tabs |-> h.tabs]
      BY <3>1
    <3>6. \A u \in CronUser : h.tabs[u] \in Text
      BY <2>4, <2>5, <3>3 DEF CronUser
    <3>7. QED
      BY <3>4, <3>5, <3>6 DEF CronFile, CronShape, TabsOfText
  <2>7. QED
    BY <1>1, <1>2, <1>3, <1>5, <2>6 DEF Starts
<1>7. ASSUME NEW h, CronFile(h), NEW x, NEW ids, CronKeeps(h, x, ids)
      PROVE  Holds(t, x) /\ Spares(t, h, x, ids)
  <2>1. Kept(t, x, ids) = Kept(t, h, ids) /\ JobsStay(t, h, x, ids)
    BY <1>7, CronOthersKept DEF JobsStay
  <2>2. ASSUME NEW s, CronState(s), IsState(s), Apart(t, s, ids), CronRead(h, s) = s
        PROVE  CronRead(x, s) = s
    <3>1. <<s.u, s.k>> \notin ids
      BY <1>4, <2>2 DEF Apart
    <3>2. QED
      BY <1>7, <2>2, <3>1, CronReadOther
  <2>3. CronFile(x)
    BY <1>7 DEF CronKeeps
  <2>4. QED
    BY <1>1, <1>2, <1>3, <2>1, <2>2, <2>3 DEF Spares
<1>8. ASSUME NEW h, CronFile(h), NEW ids, NEW p, CronState(p), <<p.u, p.k>> \in ids, NEW o,
             CronKeeps(h, o.h, ids), IsState(o.out) => o.out = p /\ CronRead(o.h, p) = p
      PROVE  Fine(t, h, ids, o)
  <2>1. IsState(o.out) => InEffect(t, o.h, o.out)
    BY DEF InEffect
  <2>2. IsState(o.out) => Reported(t, o.h, o.out)
    BY <1>2, <1>3, <1>8, <2>1 DEF Reported
  <2>3. IsState(o.out) => Among(t, o.out, ids)
    BY <1>4, <1>8 DEF Among
  <2>4. QED
    BY <1>7, <1>8, <2>2, <2>3 DEF Fine
<1>9. Creates(t)
  <2> SUFFICES ASSUME NEW h, NEW p \in CronPlan, CronFile(h), NEW o \in CronCreate(h, p)
               PROVE  Fine(t, h, {<<p.u, p.k>>}, o)
    BY <1>1, <1>3, <1>4 DEF Creates
  <2>1. CronState(p)
    BY <1>5
  <2> DEFINE ids == {<<p.u, p.k>>}
  <2>2. <<p.u, p.k>> \in ids
    OBVIOUS
  <2>3. CronKeeps(h, o.h, ids) /\ (IsState(o.out) => o.out = p /\ CronRead(o.h, p) = p)
    BY <2>1, CronCreates
  <2> HIDE DEF ids
  <2>4. Fine(t, h, ids, o)
    BY <1>8, <2>1, <2>2, <2>3
  <2>5. QED
    BY <2>4 DEF ids
<1>10. Updates(t)
  <2> SUFFICES ASSUME NEW h, NEW s, NEW p \in CronPlan, CronFile(h), CronState(s), NEW o \in CronUpdate(h, s, p)
               PROVE  Fine(t, h, {IdOf(t, p), IdOf(t, s)}, o)
    BY <1>1, <1>2, <1>3 DEF Updates
  <2>1. CronState(p) /\ s.u \in CronUser
    BY <1>5 DEF CronState
  <2> DEFINE ids == {<<s.u, s.k>>, <<p.u, p.k>>}
  <2>2. <<p.u, p.k>> \in ids /\ {IdOf(t, p), IdOf(t, s)} = ids
    BY <1>4
  <2>3. CronKeeps(h, o.h, ids) /\ (IsState(o.out) => o.out = p /\ CronRead(o.h, p) = p)
    BY <2>1, CronUpdates, ZenonT(40)
  <2> HIDE DEF ids
  <2>4. Fine(t, h, ids, o)
    BY <1>8, <2>1, <2>2, <2>3
  <2>5. QED
    BY <2>2, <2>4
<1>11. Deletes(t)
  <2> SUFFICES ASSUME NEW h, NEW s, CronFile(h), CronState(s), NEW o \in CronDelete(h, s)
               PROVE  Fine(t, h, {<<s.u, s.k>>}, o) /\ Gone(t, o, s)
    BY <1>1, <1>2, <1>3, <1>4 DEF Deletes
  <2> DEFINE ids == {<<s.u, s.k>>}
  <2>1. /\ CronKeeps(h, o.h, ids)
        /\ MarksApart => o.out \in {Failed, Refused} \/ CronRead(o.h, s) = Nil
    BY CronDeletes
  <2>2. o.out \in {Nil, Failed, Refused}
    <3> DEFINE new == removeManagedCrontabEntry(h.tabs[s.u], s.k)
    <3>1. o \in Answers(h, Nil) \/ o \in WriteOne(h, s.u, new, Nil)
      BY DEF CronDelete
    <3> HIDE DEF new
    <3>2. CronShape(h)
      BY DEF CronFile
    <3>3. o \in WriteOne(h, s.u, new, Nil) => o.out \in {Nil, Refused, Failed}
      BY <3>2, CronWriteOne
    <3>4. QED
      BY <3>1, <3>3, AnswerOutcome
  <2> HIDE DEF ids
  <2>3. Holds(t, o.h) /\ Spares(t, h, o.h, ids)
    BY <1>7, <2>1
  <2>4. ~IsState(o.out)
    BY <2>2 DEF IsState
  <2>5. Fine(t, h, ids, o)
    BY <2>3, <2>4 DEF Fine
  <2>6. Gone(t, o, s)
    BY <1>3, <2>1 DEF Gone, MarksApart
  <2>7. QED
    BY <2>5, <2>6 DEF ids
<1>12. Reads(t)
  <2> SUFFICES ASSUME NEW h, NEW s, CronFile(h), CronState(s), IsState(CronRead(h, s))
               PROVE  /\ CronState(CronRead(h, s)) /\ Among(t, CronRead(h, s), {IdOf(t, s)})
                      /\ CronRead(h, CronRead(h, s)) = CronRead(h, s)
    <3>1. \A s : Fits(t, s) \/ s \in ImportIds(t) => CronState(s)
      BY <1>2, <1>5
    <3>2. QED
      BY <1>1, <1>2, <1>3, <3>1 DEF Reads
  <2> DEFINE x == CronRead(h, s)
  <2>1. CronState(x) /\ x.u = s.u /\ x.k = s.k /\ HoldsJob(h.tabs[s.u], s.k, x.v)
    BY CronJobRead
  <2> HIDE DEF x
  <2>2. CronRead(h, x) = x
    BY <2>1, CronReadJob
  <2>3. Among(t, x, {IdOf(t, s)})
    BY <1>4, <2>1 DEF Among
  <2>4. QED
    BY <2>1, <2>2, <2>3 DEF x
<1>13. QED
  BY <1>6, <1>9, <1>10, <1>11, <1>12 DEF Served

-----------------------------------------------------------------------------
(* trusted_cert *)

\* From the table f to g only the keys K change.
SameBut(P, f, g, K) == \A x \in P \ K : f[x] = g[x]

\* The entries of a table that are not named by ids.
TableOf(P, f, ids) == [x \in {y \in P : <<y>> \notin ids} |-> f[x]]

\* Tables that agree but on some keys agree on the rest.
LEMMA TableRest ==
    ASSUME NEW P, NEW f, NEW g, NEW K, SameBut(P, f, g, K), NEW ids, \A k \in K : <<k>> \in ids
    PROVE  TableOf(P, f, ids) = TableOf(P, g, ids)
<1> DEFINE S == {y \in P : <<y>> \notin ids}
<1>1. \A x \in S : f[x] = g[x]
  BY DEF SameBut
<1> HIDE DEF S
<1>2. [x \in S |-> f[x]] = [x \in S |-> g[x]]
  BY <1>1
<1>3. QED
  BY <1>2 DEF S, TableOf

\* A certificate is in its place, or the install stopped.
Placed(k, v, out, o) == o.out \in {Failed, Refused} \/ (o.out = out /\ (k \in CertName => o.h.file[k] = v))

\* A certificate is installed, or the install stops, and no other certificate changes.
LEMMA CertPlaced ==
    ASSUME NEW h, CertFile(h), NEW k, NEW v, NEW out, NEW o \in CertInstall(h, k, v, out)
    PROVE  /\ CertFile(o.h) /\ SameBut(CertName, h.file, o.h.file, {k})
           /\ Placed(k, v, out, o)
<1> DEFINE f == [h.file EXCEPT ![k] = v]
           w == [h EXCEPT !.file = f]
           w0 == [h EXCEPT !.file[k] = v]
           x == updateTrustStore(w)
           y == [w EXCEPT !.file = h.file]
<1>1. h = [file |-> h.file, live |-> h.live] /\ h.file = [n \in CertName |-> h.file[n]]
  BY DEF CertFile, CertShape
<1>2. f = [n \in CertName |-> f[n]] /\ SameBut(CertName, h.file, f, {k}) /\ (k \in CertName => f[k] = v)
  BY <1>1 DEF SameBut
<1>3. w0 = w
  OBVIOUS
<1>4. IF w0 = h THEN o \in Answers(h, out) ELSE o \in Run(<<h, w0, updateTrustStore(w0)>>, out) \cup restoreSnapshot(w0, h)
  BY DEF CertInstall
<1> HIDE DEF w0, f
<1>5. w = [file |-> f, live |-> h.live]
  BY <1>1
<1> HIDE DEF w
<1>6. x = [file |-> f, live |-> f] /\ y = [file |-> h.file, live |-> h.live]
  BY <1>5 DEF updateTrustStore
<1>7. restoreSnapshot(w, h) = Run(<<w, y>>, Refused)
  BY DEF restoreSnapshot
<1> HIDE DEF x, y
<1>8. IF w = h THEN o \in Answers(h, out) ELSE o \in Run(<<h, w, x>>, out) \/ o \in Run(<<w, y>>, Refused)
  BY <1>3, <1>4, <1>7 DEF x
<1>9. SameBut(CertName, h.file, h.file, {k})
  BY DEF SameBut
<1>10. \A z \in {h, w, x, y} : CertFile(z) /\ SameBut(CertName, h.file, z.file, {k})
  BY <1>1, <1>2, <1>5, <1>6, <1>9 DEF CertFile, CertShape
<1>11. CASE w = h
  <2>1. o.h = h /\ o.out \in {out, Failed}
    BY <1>8, <1>11, AnswerOutcome
  <2>2. h.file = f
    BY <1>5, <1>11
  <2>3. QED
    BY <1>2, <1>10, <2>1, <2>2 DEF Placed
<1>12. CASE w # h
  <2>1. o.h \in {h, w, x, y} /\ (o.out \in {Failed, Refused} \/ (o.out = out /\ o.h = x))
    BY <1>8, <1>12, RunOfTwo, RunOfThree
  <2>2. x.file = f
    BY <1>6
  <2>3. QED
    BY <1>2, <1>10, <2>1, <2>2 DEF Placed
<1>13. QED
  BY <1>11, <1>12 DEF Placed

\* The trusted_cert pack does what is asked of it.
LEMMA CertServed == Served("trusted_cert")
<1> DEFINE t == "trusted_cert"
<1>1. \A h : Holds(t, h) <=> CertFile(h)
  BY DEF Holds
<1>2. \A s : Fits(t, s) <=> CertState(s)
  BY DEF Fits
<1>3. \A h, s, p : /\ CreateOp(t, h, p) = CertCreate(h, p) /\ UpdateOp(t, h, s, p) = applyTrustedCert(h, p)
                   /\ DeleteOp(t, h, s) = CertDelete(h, s) /\ ReadOp(t, h, s) = CertRead(h, s)
                   /\ Plans(t) = CertPlan /\ ImportIds(t) = {[k |-> q.k] : q \in CertPlan} /\ Hosts(t) = CertHost
  BY DEF CreateOp, UpdateOp, DeleteOp, ReadOp, Plans, ImportIds, Hosts
<1>4. \A h, ids : Kept(t, h, ids) = TableOf(CertName, h.file, ids)
  BY DEF Kept, TableOf
<1>5. \A p \in CertPlan : CertState(p)
  BY DEF CertPlan, CertState
<1>6. Starts(t)
  <2>1. \A h \in CertHost : CertFile(h)
    BY DEF CertHost, CertFile, CertShape, CertName
  <2>2. QED
    BY <1>1, <1>2, <1>3, <1>5, <2>1 DEF Starts
<1>7. ASSUME NEW h, NEW x, NEW K, SameBut(CertName, h.file, x.file, K)
      PROVE  KeyOnly(t, h, x, K)
  <2>1. ASSUME NEW ids, \A j \in K : <<j>> \in ids PROVE Kept(t, x, ids) = Kept(t, h, ids)
    BY <1>4, <1>7, <2>1, TableRest
  <2>2. ASSUME NEW s, CertState(s), s.k \notin K PROVE ReadOp(t, x, s) = ReadOp(t, h, s)
    <3>1. h.file[s.k] = x.file[s.k]
      BY <1>7, <2>2 DEF SameBut, CertState
    <3>2. QED
      BY <1>3, <3>1 DEF CertRead
  <2>3. QED
    BY <1>2, <2>1, <2>2 DEF KeyOnly
<1>8. \A h, s : CertState(s) => Reported(t, h, s)
  BY <1>2 DEF Reported, ReadAfterWrite
<1>9. ASSUME NEW h, CertFile(h), NEW p \in CertPlan, NEW o \in applyTrustedCert(h, p), NEW K, p.k \in K
      PROVE  KeySafe(t, h, K, o)
  <2>1. /\ CertFile(o.h) /\ SameBut(CertName, h.file, o.h.file, {p.k})
        /\ o.out \in {Failed, Refused} \/ o.out = p
    <3>1. o \in CertInstall(h, p.k, p.v, p)
      BY <1>9 DEF applyTrustedCert
    <3>2. CertFile(o.h) /\ SameBut(CertName, h.file, o.h.file, {p.k}) /\ Placed(p.k, p.v, p, o)
      BY <1>9, <3>1, CertPlaced
    <3>3. QED
      BY <3>2 DEF Placed
  <2>2. SameBut(CertName, h.file, o.h.file, K)
    BY <1>9, <2>1 DEF SameBut
  <2>3. KeyOnly(t, h, o.h, K)
    BY <1>7, <2>2
  <2>4. QED
    BY <1>1, <1>5, <1>8, <1>9, <2>1, <2>3 DEF KeySafe, IsState
<1>10. ASSUME NEW h, CertFile(h), NEW K, NEW o \in Refuse(h)
       PROVE  KeySafe(t, h, K, o)
  <2>1. o.h = h /\ ~IsState(o.out)
    BY <1>10, RefuseOutcome DEF IsState
  <2>2. KeyOnly(t, h, h, K)
    BY DEF KeyOnly
  <2>3. QED
    BY <1>1, <1>10, <2>1, <2>2 DEF KeySafe
<1>11. KeyedOps(t)
  <2>1. \A h, p, o : CertFile(h) /\ p \in CertPlan /\ o \in CertCreate(h, p) => KeySafe(t, h, {p.k}, o)
    BY <1>9, <1>10 DEF CertCreate
  <2>2. \A h, s, p, o : CertFile(h) /\ p \in CertPlan /\ o \in applyTrustedCert(h, p) => KeySafe(t, h, {p.k, s.k}, o)
    BY <1>9
  <2>3. ASSUME NEW h, CertFile(h), NEW s, CertState(s), NEW o \in CertDelete(h, s)
        PROVE  KeySafe(t, h, {s.k}, o) /\ Gone(t, o, s)
    <3>1. /\ CertFile(o.h) /\ SameBut(CertName, h.file, o.h.file, {s.k})
          /\ o.out \in {Failed, Refused} \/ (o.out = Nil /\ o.h.file[s.k] = Nil)
      <4>1. o \in CertInstall(h, s.k, Nil, Nil) /\ s.k \in CertName
        BY <2>3 DEF CertDelete, CertState
      <4>2. CertFile(o.h) /\ SameBut(CertName, h.file, o.h.file, {s.k}) /\ Placed(s.k, Nil, Nil, o)
        BY <2>3, <4>1, CertPlaced
      <4>3. QED
        BY <4>1, <4>2 DEF Placed
    <3>2. KeyOnly(t, h, o.h, {s.k})
      BY <1>7, <3>1
    <3>3. KeySafe(t, h, {s.k}, o)
      BY <1>1, <3>1, <3>2 DEF KeySafe, IsState
    <3>4. o.h.file[s.k] = Nil => CertRead(o.h, s) = Nil
      BY DEF CertRead
    <3>5. Gone(t, o, s)
      BY <1>3, <3>1, <3>4 DEF Gone, MarksApart
    <3>6. QED
      BY <3>3, <3>5
  <2>4. ASSUME NEW h, NEW s, CertState(s) \/ s \in {[k |-> q.k] : q \in CertPlan}, IsState(CertRead(h, s))
        PROVE  /\ CertState(CertRead(h, s)) /\ CertRead(h, s).k = s.k
               /\ CertRead(h, CertRead(h, s)) = CertRead(h, s)
    <3>1. s.k \in CertName
      <4>1. CASE CertState(s)
        BY <4>1 DEF CertState
      <4>2. ASSUME NEW q \in CertPlan, s = [k |-> q.k] PROVE s.k = q.k /\ q.k \in CertName
        BY <1>5, <4>2 DEF CertState
      <4>3. QED
        BY <2>4, <4>1, <4>2
    <3> DEFINE x == [k |-> s.k, v |-> h.file[s.k]]
    <3>2. h.file[s.k] \notin {Nil, "bad"} /\ CertRead(h, s) = x
      BY <2>4 DEF CertRead, IsState
    <3>3. CertState(x) /\ x.k = s.k
      BY <3>1 DEF CertState
    <3>4. CertRead(h, x) = x
      BY <3>2 DEF CertRead
    <3>5. QED
      BY <3>2, <3>3, <3>4
  <2>5. QED
    BY <1>1, <1>2, <1>3, <2>1, <2>2, <2>3, <2>4 DEF KeyedOps
<1>12. t \in Keyed
  BY DEF Keyed, KeyedTypes, Types, FileTypes, SystemTypes
<1>13. QED
  BY <1>6, <1>11, <1>12, KeyedServed

-----------------------------------------------------------------------------
(* tls_identity *)

\* A pair that is deleted is not found again.
LEMMA TlsGone ==
    ASSUME NEW h, TlsShape(h), NEW s, s.k \in TlsName, NEW o \in removeTLSIdentity(h, s)
    PROVE  o.out \in {Nil, Failed} /\ (o.out = Failed \/ readTLSIdentityState(o.h, s) = Nil)
<1> DEFINE half == [h EXCEPT !.file[s.k].chain = Nil]
           f == [h.file EXCEPT ![s.k] = NoPair]
           gone == [h EXCEPT !.file[s.k] = NoPair]
<1>1. gone = [h EXCEPT !.file = f]
  OBVIOUS
<1>2. f[s.k] = NoPair
  BY DEF TlsShape
<1>3. o \in Change(<<h, half, gone>>, Nil) \/ o = Outcome(h, Failed)
  BY DEF removeTLSIdentity
<1> HIDE DEF f
<1>4. [h EXCEPT !.file = f].file = f
  BY DEF TlsShape
<1> HIDE DEF half, gone
<1>5. o.out = Failed \/ (o.out = Nil /\ o.h = gone)
  BY <1>3, ChangeOfThree DEF Outcome
<1>6. gone.file[s.k] = NoPair
  BY <1>1, <1>2, <1>4
<1>7. readTLSIdentityState(gone, s) = Nil
  <2>1. NoPair.chain = NoPair.key
    BY DEF NoPair
  <2>2. QED
    BY <1>6, <2>1 DEF readTLSIdentityState
<1>8. QED
  BY <1>5, <1>7

\* The tls_identity pack does what is asked of it.
LEMMA TlsServed == Served("tls_identity")
<1> DEFINE t == "tls_identity"
<1>1. \A h : Holds(t, h) <=> TlsShape(h)
  BY DEF Holds
<1>2. \A s : Fits(t, s) <=> TlsState(s)
  BY DEF Fits
<1>3. \A h, s, p : /\ CreateOp(t, h, p) = TlsCreate(h, p) /\ UpdateOp(t, h, s, p) = applyTLSIdentity(h, p)
                   /\ DeleteOp(t, h, s) = removeTLSIdentity(h, s) /\ ReadOp(t, h, s) = readTLSIdentityState(h, s)
                   /\ Plans(t) = TlsPlan /\ Hosts(t) = TlsHost
  BY DEF CreateOp, UpdateOp, DeleteOp, ReadOp, Plans, Hosts
<1>4. \A h, ids : Kept(t, h, ids) = TableOf(TlsName, h.file, ids)
  <2>1. \A h, ids : Kept(t, h, ids) = TableOf(CertName, h.file, ids)
    BY DEF Kept, TableOf
  <2>2. CertName = TlsName
    BY DEF CertName, TlsName
  <2>3. QED
    BY <2>1, <2>2
<1>5. \A p \in TlsPlan : TlsState(p)
  BY DEF TlsPlan, TlsState
<1>6. Starts(t)
  <2>1. ASSUME NEW h \in TlsHost PROVE TlsShape(h)
    <3>1. PICK x, y : h = [file |-> [a |-> x, b |-> y]]
      BY DEF TlsHost
    <3>2. h.file = [a |-> x, b |-> y] /\ h = [file |-> h.file]
      BY <3>1
    <3>3. h.file = [k \in TlsName |-> h.file[k]]
      BY <3>2 DEF TlsName
    <3>4. QED
      BY <3>2, <3>3 DEF TlsShape
  <2>2. QED
    BY <1>1, <1>2, <1>3, <1>5, <2>1 DEF Starts
<1>7. ASSUME NEW h, NEW x, NEW k, TlsOnly(h, x, {k}), NEW K, k \in K
      PROVE  Holds(t, x) /\ KeyOnly(t, h, x, K)
  <2>1. SameBut(TlsName, h.file, x.file, K)
    BY <1>7 DEF TlsOnly, SameBut
  <2>2. ASSUME NEW ids, \A j \in K : <<j>> \in ids PROVE Kept(t, x, ids) = Kept(t, h, ids)
    BY <1>4, <2>1, <2>2, TableRest
  <2>3. ASSUME NEW s, TlsState(s), s.k \notin K PROVE ReadOp(t, x, s) = ReadOp(t, h, s)
    <3>1. h.file[s.k] = x.file[s.k]
      BY <2>1, <2>3 DEF SameBut, TlsState
    <3>2. QED
      BY <1>3, <3>1 DEF readTLSIdentityState
  <2>4. QED
    BY <1>1, <1>2, <1>7, <2>2, <2>3 DEF KeyOnly, TlsOnly
<1>8. \A h, s : TlsState(s) => Reported(t, h, s)
  <2>1. \A h, s : InEffect(t, h, s)
    BY DEF InEffect
  <2>2. QED
    BY <1>2, <2>1 DEF Reported, ReadAfterWrite
<1>9. ASSUME NEW h, NEW p \in TlsPlan, NEW o, TlsOnly(h, o.h, {p.k}), o.out \in {p, Refused, Failed}, NEW K, p.k \in K
      PROVE  KeySafe(t, h, K, o)
  <2>1. Holds(t, o.h) /\ KeyOnly(t, h, o.h, K)
    BY <1>7, <1>9
  <2>2. IsState(o.out) => o.out = p
    BY <1>9 DEF IsState
  <2>3. QED
    BY <1>5, <1>8, <1>9, <2>1, <2>2 DEF KeySafe
<1>11. KeyedOps(t)
  <2>1. ASSUME NEW h, TlsShape(h), NEW p \in TlsPlan, NEW o \in TlsCreate(h, p) PROVE KeySafe(t, h, {p.k}, o)
    <3>1. TlsOnly(h, o.h, {p.k}) /\ o.out \in {p, Refused, Failed} /\ p.k \in {p.k}
      BY <2>1, TlsCreated
    <3>2. QED
      BY <1>9, <3>1
  <2>2. ASSUME NEW h, TlsShape(h), NEW s, NEW p \in TlsPlan, NEW o \in applyTLSIdentity(h, p)
        PROVE  KeySafe(t, h, {p.k, s.k}, o)
    <3>1. TlsOnly(h, o.h, {p.k}) /\ o.out \in {p, Refused, Failed} /\ p.k \in {p.k, s.k}
      BY <2>2, TlsApplied
    <3>2. QED
      BY <1>9, <3>1
  <2>3. ASSUME NEW h, TlsShape(h), NEW s, TlsState(s), NEW o \in removeTLSIdentity(h, s)
        PROVE  KeySafe(t, h, {s.k}, o) /\ Gone(t, o, s)
    <3>1. TlsOnly(h, o.h, {s.k}) /\ s.k \in {s.k} /\ s.k \in TlsName
      BY <2>3, TlsDeleted DEF TlsState
    <3>2. o.out \in {Nil, Failed} /\ (o.out = Failed \/ readTLSIdentityState(o.h, s) = Nil)
      BY <2>3, <3>1, TlsGone
    <3>3. Holds(t, o.h) /\ KeyOnly(t, h, o.h, {s.k})
      BY <1>7, <3>1
    <3>4. QED
      BY <1>3, <3>2, <3>3 DEF KeySafe, Gone, IsState, MarksApart
  <2>4. ASSUME NEW h, NEW s, TlsState(s) \/ s \in ImportIds(t), IsState(readTLSIdentityState(h, s))
        PROVE  /\ TlsState(readTLSIdentityState(h, s)) /\ readTLSIdentityState(h, s).k = s.k
               /\ readTLSIdentityState(h, readTLSIdentityState(h, s)) = readTLSIdentityState(h, s)
    <3>1. s.k \in TlsName
      <4>1. CASE TlsState(s)
        BY <4>1 DEF TlsState
      <4>2. CASE s \in [k : TlsName, family : {"pem"}]
        BY <4>2
      <4>3. QED
        BY <2>4, <4>1, <4>2 DEF ImportIds
    <3> DEFINE f == h.file[s.k]
               x == [k |-> s.k, v |-> f.chain, family |-> s.family]
    <3>2. f # NoPair /\ f.chain = f.key /\ readTLSIdentityState(h, s) = x
      BY <2>4 DEF readTLSIdentityState, IsState, tlsIdentityFamilyFromState
    <3>3. TlsState(x) /\ x.k = s.k /\ x.family = s.family
      BY <3>1 DEF TlsState
    <3>4. readTLSIdentityState(h, x) = x
      BY <3>2 DEF readTLSIdentityState, tlsIdentityFamilyFromState
    <3>5. QED
      BY <3>2, <3>3, <3>4
  <2>5. QED
    BY <1>1, <1>2, <1>3, <2>1, <2>2, <2>3, <2>4 DEF KeyedOps
<1>12. t \in Keyed
  BY DEF Keyed, KeyedTypes, Types, FileTypes, SystemTypes
<1>13. QED
  BY <1>6, <1>11, <1>12, KeyedServed

-----------------------------------------------------------------------------
(* apt_repository *)

\* From h to x only the source file k changes.
RepoOnly(h, x, k) == RepoShape(x) /\ SameBut(RepoFile, h.files, x.files, {k})

\* The removal of unused keyrings leaves the sources.
LEMMA CleanupFiles ==
    ASSUME NEW x, RepoShape(x), NEW s, NEW p, NEW absent
    PROVE  RepoShape(cleanupRepositoryKeyrings(x, s, p, absent)) /\ cleanupRepositoryKeyrings(x, s, p, absent).files = x.files
<1> DEFINE paths == CleanupPaths(managedSignedByPath(s), managedSignedByPath(p), absent)
           left == x.rings \ {ring \in paths : ~Referenced(x, ring)}
<1>1. cleanupRepositoryKeyrings(x, s, p, absent) = WithRings(x, left)
  BY DEF cleanupRepositoryKeyrings, removeRepositoryKeyringIfUnused, WithRings
<1> HIDE DEF left
<1>2. QED
  BY <1>1, RingsFields

\* One source is written.
LEMMA FileSet ==
    ASSUME NEW h, NEW x, RepoShape(x), x.files = h.files, NEW k, NEW v
    PROVE  RepoOnly(h, WithFile(x, k, v), k) /\ (k \in RepoFile => WithFile(x, k, v).files[k] = v)
<1>1. /\ WithFile(x, k, v).files = [x.files EXCEPT ![k] = v]
      /\ RepoShape(WithFile(x, k, v))
  BY DEF RepoShape, WithFile
<1>2. QED
  BY <1>1 DEF RepoShape, RepoOnly, SameBut

RepoDone(p, o) ==
    o.out = Failed \/ (o.out = p /\ o.h.files[p.k] = IF p.ensure = "absent" THEN Nil ELSE renderRepositoryFile(p))

\* A repository is written or half written, and the source files of the others stay.
LEMMA RepoWritten ==
    ASSUME NEW h, RepoShape(h), NEW s, NEW p, p.k \in RepoFile, NEW o \in applyRepository(h, s, p)
    PROVE  RepoOnly(h, o.h, p.k) /\ RepoDone(p, o)
<1> DEFINE keyed == WithRings(h, h.rings \cup ({managedSignedByPath(p)} \ {""}))
           v == renderRepositoryFile(p)
           written == WithFile(keyed, p.k, v)
           removed == WithFile(h, p.k, Nil)
           absent == p.ensure = "absent"
           last == IF absent THEN removed ELSE written
           done == cleanupRepositoryKeyrings(last, s, p, absent)
<1>1. RepoShape(keyed) /\ keyed.files = h.files
  BY RingsFields
<1>2. /\ IF absent THEN o \in Change(<<h, removed, done>>, p) ELSE o \in Change(<<h, keyed, written, done>>, p)
      \/ o \in {Outcome(h, Failed), Outcome(removed, Failed), Outcome(written, Failed)}
  BY DEF applyRepository, WithRings, WithFile
<1> HIDE DEF keyed, v
<1>3. RepoOnly(h, written, p.k) /\ written.files[p.k] = v
  BY <1>1, FileSet
<1>4. RepoOnly(h, removed, p.k) /\ removed.files[p.k] = Nil
  BY FileSet
<1>5. RepoOnly(h, h, p.k) /\ RepoOnly(h, keyed, p.k)
  BY <1>1 DEF RepoOnly, SameBut
<1> HIDE DEF written, removed
<1>6. RepoOnly(h, last, p.k) /\ last.files[p.k] = IF absent THEN Nil ELSE v
  BY <1>3, <1>4
<1> HIDE DEF last
<1>7. RepoShape(done) /\ done.files = last.files
  BY <1>6, CleanupFiles DEF RepoOnly
<1> HIDE DEF done
<1>8. RepoOnly(h, done, p.k) /\ done.files[p.k] = IF absent THEN Nil ELSE v
  BY <1>6, <1>7 DEF RepoOnly
<1>9. o.h \in {h, keyed, written, removed, done} /\ (o.out = Failed \/ (o.out = p /\ o.h = done))
  BY <1>2, ChangeOfThree, ChangeOfFour DEF Outcome
<1>10. QED
  BY <1>3, <1>4, <1>5, <1>8, <1>9 DEF RepoDone, v

\* A repository that is deleted has no source file; those of the others stay, wherever it stops.
LEMMA RepoGone ==
    ASSUME NEW h, RepoShape(h), NEW s, s.k \in RepoFile, NEW o \in RepoDelete(h, s)
    PROVE  RepoOnly(h, o.h, s.k) /\ o.out \in {Nil, Failed} /\ (o.out = Failed \/ o.h.files[s.k] = Nil)
<1> DEFINE removed == WithFile(h, s.k, Nil)
           done == cleanupRepositoryKeyrings(removed, s, s, TRUE)
<1>1. RepoOnly(h, h, s.k)
  BY DEF RepoOnly, SameBut
<1>2. RepoOnly(h, removed, s.k) /\ removed.files[s.k] = Nil
  BY FileSet
<1>3. o \in Change(<<h, removed, done>>, Nil) \/ o = Outcome(h, Failed)
  BY DEF RepoDelete, WithFile
<1> HIDE DEF removed
<1>4. RepoShape(done) /\ done.files = removed.files
  BY <1>2, CleanupFiles DEF RepoOnly
<1> HIDE DEF done
<1>5. RepoOnly(h, done, s.k) /\ done.files[s.k] = Nil
  BY <1>2, <1>4 DEF RepoOnly
<1>6. o.h \in {h, removed, done} /\ (o.out = Failed \/ (o.out = Nil /\ o.h = done))
  BY <1>3, ChangeOfThree DEF Outcome
<1>7. QED
  BY <1>1, <1>2, <1>5, <1>6

\* The apt_repository pack does what is asked of it.
LEMMA RepoServed == Served("apt_repository")
<1> DEFINE t == "apt_repository"
<1>1. \A h : Holds(t, h) <=> RepoShape(h)
  BY DEF Holds
<1>2. \A s : Fits(t, s) <=> RepoState(s)
  BY DEF Fits
<1>3. \A h, s, p : /\ CreateOp(t, h, p) = RepoCreate(h, p) /\ UpdateOp(t, h, s, p) = applyRepository(h, s, p)
                   /\ DeleteOp(t, h, s) = RepoDelete(h, s) /\ ReadOp(t, h, s) = RepoRead(h, s)
                   /\ Plans(t) = RepoPlan /\ Hosts(t) = RepoHost
  BY DEF CreateOp, UpdateOp, DeleteOp, ReadOp, Plans, Hosts
<1>4. \A h, ids : Kept(t, h, ids) = TableOf(RepoFile, h.files, ids)
  BY DEF Kept, TableOf
<1>5. ASSUME NEW p \in RepoPlan
      PROVE  RepoState(p) /\ p.uri # "junk" /\ p.ensure \in {"present", "absent"}
  <2>1. /\ p = [k |-> p.k, ensure |-> p.ensure, uri |-> p.uri, by |-> p.by, url |-> p.url]
        /\ p.k \in RepoFile /\ p.ensure \in {"present", "absent"} /\ p.uri \in {"u1", "u2"} /\ p.url \in BOOLEAN
    BY DEF RepoPlan
  <2>2. QED
    BY <2>1 DEF RepoState
<1>6. Starts(t)
  <2>1. \A h \in RepoHost : RepoShape(h)
    <3>1. \A f : f = [x \in RepoFile |-> Nil] => f = [x \in RepoFile |-> f[x]]
      OBVIOUS
    <3>2. \A x, y, f : f = [f1 |-> x, f2 |-> y] => f = [z \in RepoFile |-> f[z]]
      BY DEF RepoFile
    <3>3. ASSUME NEW h \in RepoHost PROVE h = [files |-> h.files, rings |-> h.rings] /\ h.files = [x \in RepoFile |-> h.files[x]]
      <4> DEFINE a == Source("u1", "k1", FALSE)
                 b == Source("junk", "", FALSE)
      <4>1. h \in [files : {[f \in RepoFile |-> Nil], [f1 |-> a, f2 |-> b]}, rings : {{"k1"}}]
        BY DEF RepoHost
      <4> HIDE DEF a, b
      <4>2. QED
        BY <3>1, <3>2, <4>1
    <3>4. QED
      BY <3>3 DEF RepoShape
  <2>2. QED
    BY <1>1, <1>2, <1>3, <1>5, <2>1 DEF Starts
<1>7. ASSUME NEW h, NEW x, NEW k, RepoOnly(h, x, k), NEW K, k \in K
      PROVE  Holds(t, x) /\ KeyOnly(t, h, x, K)
  <2>1. SameBut(RepoFile, h.files, x.files, K)
    BY <1>7 DEF RepoOnly, SameBut
  <2>2. ASSUME NEW ids, \A j \in K : <<j>> \in ids PROVE Kept(t, x, ids) = Kept(t, h, ids)
    BY <1>4, <2>1, <2>2, TableRest
  <2>3. ASSUME NEW s, RepoState(s), s.k \notin K PROVE ReadOp(t, x, s) = ReadOp(t, h, s)
    <3>1. h.files[s.k] = x.files[s.k]
      BY <2>1, <2>3 DEF SameBut, RepoState
    <3>2. QED
      BY <1>3, <3>1 DEF RepoRead
  <2>4. QED
    BY <1>1, <1>2, <1>7, <2>2, <2>3 DEF KeyOnly, RepoOnly
<1>8. ASSUME NEW h, NEW s, RepoState(s), MarksApart => RepoRead(h, s) = s
      PROVE  Reported(t, h, s)
  <2>1. InEffect(t, h, s)
    BY DEF InEffect
  <2>2. QED
    BY <1>2, <1>3, <1>8, <2>1 DEF Reported
\* What is read of a source written for p.
<1>9. ASSUME NEW h, NEW s, RepoState(s), s.ensure = "present", s.uri # "junk", h.files[s.k] = Source(s.uri, s.by, TRUE), MarksApart
      PROVE  RepoRead(h, s) = s
  <2> DEFINE f == Source(s.uri, s.by, TRUE)
  <2>1. f = [i \in DOMAIN f |-> f[i]] /\ f.uri = s.uri /\ f.by = s.by
    BY DEF Source
  <2> HIDE DEF f
  <2>2. f # Nil
    BY <1>9, <2>1 DEF MarksApart
  <2>3. RepoRead(h, s) = [k |-> s.k, ensure |-> "present", uri |-> f.uri, by |-> f.by, url |-> s.url /\ f.by = s.by]
    BY <1>9, <2>1, <2>2 DEF RepoRead, parseRepositoryFile, Ensures, f
  <2>4. s.url \in BOOLEAN
    BY <1>9 DEF RepoState
  <2>5. (s.url /\ f.by = s.by) = s.url
    BY <2>1, <2>4
  <2>6. RepoRead(h, s) = [k |-> s.k, ensure |-> s.ensure, uri |-> s.uri, by |-> s.by, url |-> s.url]
    BY <1>9, <2>1, <2>3, <2>5
  <2>7. QED
    BY <1>9, <2>6 DEF RepoState
<1>10. ASSUME NEW h, NEW p \in RepoPlan, NEW o, RepoOnly(h, o.h, p.k), RepoDone(p, o), NEW K, p.k \in K
       PROVE  KeySafe(t, h, K, o)
  <2>1. Holds(t, o.h) /\ KeyOnly(t, h, o.h, K)
    BY <1>7, <1>10
  <2>2. IsState(o.out) => o.out = p /\ o.h.files[p.k] = IF p.ensure = "absent" THEN Nil ELSE renderRepositoryFile(p)
    BY <1>10 DEF IsState, RepoDone
  <2>3. IsState(o.out) /\ p.ensure = "absent" => RepoRead(o.h, p) = p
    <3>1. MarksApart \/ ~MarksApart
      OBVIOUS
    <3>2. p = [i \in DOMAIN p |-> p[i]]
      BY <1>5 DEF RepoState
    <3>3. IsState(o.out) => p # Nil
      BY <2>2 DEF IsState
    <3>4. QED
      BY <2>2, <3>3 DEF RepoRead, Ensures
  <2>4. IsState(o.out) /\ p.ensure # "absent" /\ MarksApart => RepoRead(o.h, p) = p
    BY <1>5, <1>9, <2>2 DEF renderRepositoryFile
  <2>5. IsState(o.out) => Reported(t, o.h, o.out)
    BY <1>5, <1>8, <2>2, <2>3, <2>4
  <2>6. QED
    BY <1>10, <2>1, <2>2, <2>5 DEF KeySafe
<1>11. KeyedOps(t)
  <2>1. ASSUME NEW h, RepoShape(h), NEW p \in RepoPlan, NEW o \in RepoCreate(h, p) PROVE KeySafe(t, h, {p.k}, o)
    <3>1. RepoOnly(h, h, p.k)
      BY <2>1 DEF RepoOnly, SameBut
    <3>2. Holds(t, h) /\ KeyOnly(t, h, h, {p.k}) /\ p.k \in RepoFile
      BY <1>5, <1>7, <3>1 DEF RepoState
    <3>3. CASE o \in applyRepository(h, Nil, p)
      <4>1. RepoOnly(h, o.h, p.k) /\ RepoDone(p, o)
        BY <2>1, <3>2, <3>3, RepoWritten
      <4>2. QED
        BY <1>10, <4>1
    <3>4. CASE o \in Refuse(h)
      BY <3>2, <3>4, RefuseOutcome DEF KeySafe, IsState
    <3>5. CASE o \in Answers(h, [p EXCEPT !.ensure = "present"]) /\ h.files[p.k] = renderRepositoryFile(p)
      <4> DEFINE new == [p EXCEPT !.ensure = "present"]
      <4>1. /\ RepoState(new) /\ new.k = p.k /\ new.ensure = "present" /\ new.uri = p.uri /\ new.by = p.by
        BY <1>5 DEF RepoState
      <4> HIDE DEF new
      <4>2. o.h = h /\ o.out \in {new, Failed}
        BY <3>5, AnswerOutcome DEF new
      <4>3. MarksApart => RepoRead(h, new) = new
        BY <1>5, <1>9, <3>5, <4>1 DEF renderRepositoryFile
      <4>4. Reported(t, h, new)
        BY <1>8, <4>1, <4>3
      <4>5. QED
        BY <3>2, <4>1, <4>2, <4>4 DEF KeySafe, IsState
    <3>6. QED
      BY <2>1, <3>3, <3>4, <3>5 DEF RepoCreate, adoptExistingRepository
  <2>2. ASSUME NEW h, RepoShape(h), NEW s, NEW p \in RepoPlan, NEW o \in applyRepository(h, s, p)
        PROVE  KeySafe(t, h, {p.k, s.k}, o)
    <3>1. p.k \in RepoFile
      BY <1>5 DEF RepoState
    <3>2. RepoOnly(h, o.h, p.k) /\ RepoDone(p, o) /\ p.k \in {p.k, s.k}
      BY <2>2, <3>1, RepoWritten
    <3>3. QED
      BY <1>10, <3>2
  <2>3. ASSUME NEW h, RepoShape(h), NEW s, RepoState(s), NEW o \in RepoDelete(h, s)
        PROVE  KeySafe(t, h, {s.k}, o) /\ Gone(t, o, s)
    <3>1. s.k \in RepoFile /\ s.k \in {s.k}
      BY <2>3 DEF RepoState
    <3>2. RepoOnly(h, o.h, s.k) /\ o.out \in {Nil, Failed} /\ (o.out = Failed \/ o.h.files[s.k] = Nil)
      BY <2>3, <3>1, RepoGone
    <3>3. Holds(t, o.h) /\ KeyOnly(t, h, o.h, {s.k})
      BY <1>7, <3>1, <3>2
    <3>4. o.h.files[s.k] = Nil /\ ~isAbsentResourceState(s) => RepoRead(o.h, s) = Nil
      <4>1. s = [k |-> s.k, ensure |-> s.ensure, uri |-> s.uri, by |-> s.by, url |-> s.url]
        BY <2>3 DEF RepoState
      <4>2. ~isAbsentResourceState(s) => s.ensure # "absent"
        BY <4>1 DEF isAbsentResourceState
      <4>3. QED
        BY <4>2 DEF RepoRead, Ensures
    <3>5. QED
      BY <1>3, <3>2, <3>3, <3>4 DEF KeySafe, Gone, IsState, MarksApart
  <2>4. ASSUME NEW h, NEW s, RepoState(s) \/ s \in ImportIds(t), IsState(RepoRead(h, s))
        PROVE  /\ RepoState(RepoRead(h, s)) /\ RepoRead(h, s).k = s.k
               /\ MarksApart => RepoRead(h, RepoRead(h, s)) = RepoRead(h, s)
    <3>1. s.k \in RepoFile /\ s.url \in BOOLEAN
      <4>1. CASE RepoState(s)
        BY <4>1 DEF RepoState
      <4>2. CASE s \in [k : RepoFile, ensure : {"present"}, by : {""}, url : {FALSE}]
        BY <4>2
      <4>3. QED
        BY <2>4, <4>1, <4>2 DEF ImportIds
    <3> DEFINE f == h.files[s.k]
               u == s.url /\ f.by = s.by
               x == [k |-> s.k, ensure |-> "present", uri |-> f.uri, by |-> f.by, url |-> u]
    <3>2. CASE f = Nil
      <4>1. Ensures(s, "absent") /\ RepoRead(h, s) = s
        BY <2>4, <3>2 DEF RepoRead, IsState
      <4>2. ~(s \in [k : RepoFile, ensure : {"present"}, by : {""}, url : {FALSE}])
        BY <4>1 DEF Ensures
      <4>3. RepoState(s)
        BY <2>4, <4>2 DEF ImportIds
      <4>4. QED
        BY <4>1, <4>3
    <3>3. CASE f # Nil
      <4>1. parseRepositoryFile(f) /\ RepoRead(h, s) = x
        BY <2>4, <3>3 DEF RepoRead, IsState
      <4>2. u \in BOOLEAN
        OBVIOUS
      <4>3. x.k = s.k /\ x.by = f.by /\ x.url = u /\ x = [k |-> x.k, ensure |-> x.ensure, uri |-> x.uri, by |-> x.by, url |-> x.url]
        BY Zenon
      <4>4. (u /\ f.by = f.by) = u
        BY <4>2
      <4>5. RepoRead(h, x) = [k |-> x.k, ensure |-> "present", uri |-> f.uri, by |-> f.by, url |-> x.url /\ f.by = x.by]
        BY <3>3, <4>1, <4>3 DEF RepoRead
      <4>6. RepoRead(h, x) = x
        BY <4>3, <4>4, <4>5
      <4>7. RepoState(x)
        BY <3>1, <4>2, <4>3 DEF RepoState
      <4>8. QED
        BY <4>1, <4>3, <4>6, <4>7
    <3>4. QED
      BY <3>2, <3>3
  <2>5. QED
    BY <1>1, <1>2, <1>3, <2>1, <2>2, <2>3, <2>4 DEF KeyedOps
<1>12. t \in Keyed
  BY DEF Keyed, KeyedTypes, Types, FileTypes, SystemTypes
<1>13. QED
  BY <1>6, <1>11, <1>12, KeyedServed

-----------------------------------------------------------------------------
(* user *)

\* From h to x only the account k changes.
UserOnly(h, x, k) == UserTable(x) /\ SameBut(UserName, h.user, x.user, {k})

\* Setting one account leaves the others.
LEMMA UserSet ==
    ASSUME NEW h, UserTable(h), NEW k, NEW u
    PROVE  UserOnly(h, [h EXCEPT !.user[k] = u], k) /\ (k \in UserName => [h EXCEPT !.user[k] = u].user[k] = u)
<1> DEFINE f == [h.user EXCEPT ![k] = u]
           w == [h EXCEPT !.user[k] = u]
<1>1. h = [groups |-> h.groups, user |-> h.user] /\ h.user = [x \in UserName |-> h.user[x]]
  BY DEF UserTable
<1>2. f = [x \in UserName |-> f[x]] /\ SameBut(UserName, h.user, f, {k}) /\ (k \in UserName => f[k] = u)
  BY <1>1 DEF SameBut
<1>3. w = [h EXCEPT !.user = f]
  OBVIOUS
<1> HIDE DEF f
<1>4. w = [groups |-> h.groups, user |-> f]
  BY <1>1, <1>3
<1> HIDE DEF w
<1>5. QED
  BY <1>2, <1>4 DEF UserOnly, UserTable, w

\* What is reported of a user that was written for p.
UserReported(p, u, k) ==
    [k |-> k, ensure |-> "present", shell |-> u.shell,
     groups |-> IF p.groups = Unset THEN u.groups ELSE p.groups, append |-> p.append]

UserMade(p, u) == u = User(u.shell, u.groups) /\ (~p.append /\ p.groups # Unset => u.groups = p.groups)

\* What usermod or useradd writes is what is reported, and the other accounts stay.
LEMMA UserWritten ==
    ASSUME NEW h, UserTable(h), NEW k \in UserName, NEW u, NEW p \in UserPlan, UserMade(p, u), NEW o \in UserWrite(h, k, u, p)
    PROVE  /\ UserOnly(h, o.h, k)
           /\ o.out = Failed \/ (o.out = UserReported(p, u, k) /\ o.h.user[k] = u)
<1> DEFINE w == [h EXCEPT !.user[k] = u]
           state == [k |-> k, ensure |-> "present", shell |-> u.shell, groups |-> u.groups, append |-> p.append]
           new == [state EXCEPT !.groups = IF p.groups = Unset THEN @ ELSE p.groups, !.append = p.append]
<1>1. o \in Change(<<h, w>>, new) \/ o \in {Outcome(w, Failed), Outcome(h, Failed)}
  BY DEF UserWrite, carryUserPlanFields, UserState
<1>2. new = UserReported(p, u, k)
  <2> DEFINE g == IF p.groups = Unset THEN u.groups ELSE p.groups
             mid == [state EXCEPT !.groups = IF p.groups = Unset THEN @ ELSE p.groups]
  <2>1. new = [mid EXCEPT !.append = p.append]
    OBVIOUS
  <2>2. mid = [state EXCEPT !.groups = g]
    OBVIOUS
  <2> HIDE DEF new, mid, g
  <2>3. mid = [k |-> k, ensure |-> "present", shell |-> u.shell, groups |-> g, append |-> p.append]
    BY <2>2
  <2>4. new = [k |-> k, ensure |-> "present", shell |-> u.shell, groups |-> g, append |-> p.append]
    BY <2>1, <2>3
  <2>5. QED
    BY <2>4 DEF UserReported, g
<1>3. UserOnly(h, w, k) /\ w.user[k] = u
  BY UserSet
<1>4. UserOnly(h, h, k)
  BY DEF UserOnly, SameBut
<1> HIDE DEF w, new
<1>5. o.h \in {h, w} /\ (o.out = Failed \/ (o.h = w /\ o.out = new))
  BY <1>1, ChangeOfTwo DEF Outcome
<1>6. QED
  BY <1>2, <1>3, <1>4, <1>5

\* userdel removes the account, unless it is refused or fails, and no other.
LEMMA UserGone ==
    ASSUME NEW h, UserTable(h), NEW k, NEW out, NEW o \in userdel(h, k, out)
    PROVE  /\ UserOnly(h, o.h, k)
           /\ o.out \in {Refused, Failed} \/ (o.out = out /\ (k \in UserName => o.h.user[k] = Nil))
<1> DEFINE w == [h EXCEPT !.user[k] = Nil]
<1>1. o \in Refuse(h) \/ o \in Run(<<h, w>>, out)
  BY DEF userdel
<1>3. UserOnly(h, w, k) /\ (k \in UserName => w.user[k] = Nil)
  BY UserSet
<1>4. UserOnly(h, h, k)
  BY DEF UserOnly, SameBut
<1> HIDE DEF w
<1>5. \/ o.h = h /\ o.out = Refused
      \/ o.h \in {h, w} /\ (o.out = Failed \/ (o.h = w /\ o.out = out))
  BY <1>1, RefuseOutcome, RunOfTwo
<1>6. QED
  BY <1>3, <1>4, <1>5

\* The user pack does what is asked of it.
LEMMA UserServed == Served("user")
<1> DEFINE t == "user"
<1>1. \A h : Holds(t, h) <=> UserTable(h)
  BY DEF Holds
<1>2. \A s : Fits(t, s) <=> UserRecord(s)
  BY DEF Fits
<1>3. \A h, s, p : /\ CreateOp(t, h, p) = UserCreate(h, p) /\ UpdateOp(t, h, s, p) = UserUpdate(h, s, p)
                   /\ DeleteOp(t, h, s) = UserDelete(h, s) /\ ReadOp(t, h, s) = UserRead(h, s)
                   /\ Plans(t) = UserPlan /\ Hosts(t) = UserHost
  BY DEF CreateOp, UpdateOp, DeleteOp, ReadOp, Plans, Hosts
<1>0. ImportIds(t) = [k : UserName, ensure : {"present"}, append : {FALSE}]
  BY Zenon DEF ImportIds
<1>4. \A h, ids : Kept(t, h, ids) = TableOf(UserName, h.user, ids)
  BY DEF Kept, TableOf
<1>5. ASSUME NEW p \in UserPlan
      PROVE  UserRecord(p) /\ p.ensure \in {"present", "absent"}
  <2>1. /\ p = [k |-> p.k, ensure |-> p.ensure, shell |-> p.shell, groups |-> p.groups, append |-> p.append]
        /\ p.k \in UserName /\ p.append \in BOOLEAN /\ p.ensure \in {"present", "absent"}
    BY DEF UserPlan
  <2>2. QED
    BY <2>1 DEF UserRecord
<1>6. Starts(t)
  <2>1. ASSUME NEW h \in UserHost PROVE UserTable(h)
    <3> DEFINE u == User("sh", {"g2"})
               f == [x \in UserName |-> Nil]
               g == [a |-> u, b |-> Nil]
    <3>1. h \in [groups : {{"g1", "g2"}}, user : {f, g}]
      BY DEF UserHost
    <3>2. f = [x \in UserName |-> f[x]]
      OBVIOUS
    <3> HIDE DEF u
    <3>3. g = [x \in UserName |-> g[x]]
      BY DEF UserName
    <3> HIDE DEF f, g
    <3>4. QED
      BY <3>1, <3>2, <3>3 DEF UserTable
  <2>2. QED
    BY <1>1, <1>2, <1>3, <1>5, <2>1 DEF Starts
<1>7. ASSUME NEW h, NEW x, NEW k, UserOnly(h, x, k), NEW K, k \in K
      PROVE  Holds(t, x) /\ KeyOnly(t, h, x, K)
  <2>1. SameBut(UserName, h.user, x.user, K)
    BY <1>7 DEF UserOnly, SameBut
  <2>2. ASSUME NEW ids, \A j \in K : <<j>> \in ids PROVE Kept(t, x, ids) = Kept(t, h, ids)
    BY <1>4, <2>1, <2>2, TableRest
  <2>3. ASSUME NEW s, UserRecord(s), s.k \notin K PROVE ReadOp(t, x, s) = ReadOp(t, h, s)
    <3>1. h.user[s.k] = x.user[s.k]
      BY <2>1, <2>3 DEF SameBut, UserRecord
    <3>2. QED
      BY <1>3, <3>1 DEF UserRead
  <2>4. QED
    BY <1>1, <1>2, <1>7, <2>2, <2>3 DEF KeyOnly, UserOnly
<1>8. \A h, s : InEffect(t, h, s)
  BY DEF InEffect
\* What was written is read, unless it is read in another form.
<1>9. ASSUME NEW h, UserTable(h), NEW k \in UserName, NEW u, NEW p \in UserPlan, UserMade(p, u),
             NEW o \in UserWrite(h, k, u, p), NEW K, k \in K
      PROVE  KeySafe(t, h, K, o)
  <2>1. /\ UserOnly(h, o.h, k)
        /\ o.out = Failed \/ (o.out = UserReported(p, u, k) /\ o.h.user[k] = u)
    BY <1>9, UserWritten
  <2>2. Holds(t, o.h) /\ KeyOnly(t, h, o.h, K)
    BY <1>7, <1>9, <2>1
  <2> DEFINE s == UserReported(p, u, k)
  <2>3. p.append \in BOOLEAN
    BY <1>5 DEF UserRecord
  <2>4. /\ s = [k |-> k, ensure |-> "present", shell |-> u.shell, groups |-> s.groups, append |-> p.append]
        /\ s.k = k /\ s.append = p.append /\ UserRecord(s)
        /\ ~p.append => s.groups = u.groups
    BY <1>9, <2>3 DEF UserReported, UserRecord, UserMade
  <2> HIDE DEF s
  <2>5. CASE IsState(o.out)
    <3>1. o.out = s /\ o.h.user[k] = u
      BY <2>1, <2>5 DEF IsState, s
    <3>2. MarksApart /\ ~Denormal(t, s) => UserRead(o.h, s) = s
      <4> SUFFICES ASSUME MarksApart, ~Denormal(t, s) PROVE UserRead(o.h, s) = s
        OBVIOUS
      <4>1. ~p.append
        BY <2>4 DEF Denormal
      <4>2. u # Nil
        <5>1. u = [x \in DOMAIN u |-> u[x]]
          BY <1>9 DEF UserMade, User
        <5>2. QED
          BY <5>1 DEF MarksApart
      <4>3. UserRead(o.h, s) = [k |-> k, ensure |-> "present", shell |-> u.shell, groups |-> u.groups, append |-> p.append]
        BY <2>4, <3>1, <4>2 DEF UserRead, UserState
      <4>4. QED
        BY <2>4, <4>1, <4>3
    <3>3. QED
      BY <1>2, <1>3, <1>8, <1>9, <2>2, <2>4, <3>1, <3>2 DEF KeySafe, Reported
  <2>6. CASE ~IsState(o.out)
    BY <2>2, <2>6 DEF KeySafe
  <2>7. QED
    BY <2>5, <2>6
\* A user that is not there is reported in another form.
<1>10. ASSUME NEW h, NEW k \in UserName
       PROVE  LET s == absentUserState(k) IN UserRecord(s) /\ s.k = k /\ Reported(t, h, s)
  <2> DEFINE s == absentUserState(k)
  <2>1. UserRecord(s) /\ s.k = k /\ s.ensure = "absent"
    BY DEF absentUserState, UserRecord
  <2> HIDE DEF s
  <2>2. Denormal(t, s)
    BY <2>1 DEF Denormal
  <2>3. QED
    BY <1>2, <1>8, <2>1, <2>2 DEF Reported, s
<1>11. ASSUME NEW h, UserTable(h), NEW k, NEW j \in UserName, NEW o, NEW K, k \in K, j \in K,
              o \in userdel(h, k, absentUserState(j)) \/ o \in Answers(h, absentUserState(j)) \/ o \in Refuse(h)
       PROVE  KeySafe(t, h, K, o)
  <2> DEFINE s == absentUserState(j)
  <2>1. UserOnly(h, h, k)
    BY <1>11 DEF UserOnly, SameBut
  <2>2. UserOnly(h, o.h, k) /\ o.out \in {Refused, Failed, s}
    BY <1>11, <2>1, UserGone, AnswerOutcome, RefuseOutcome
  <2>3. Holds(t, o.h) /\ KeyOnly(t, h, o.h, K)
    BY <1>7, <1>11, <2>2
  <2>4. s.k = j /\ Reported(t, o.h, s)
    BY <1>10
  <2> HIDE DEF s
  <2>5. QED
    BY <1>11, <2>2, <2>3, <2>4 DEF KeySafe, IsState
<1>12. KeyedOps(t)
  <2>1. ASSUME NEW h, UserTable(h), NEW p \in UserPlan, NEW o \in UserCreate(h, p) PROVE KeySafe(t, h, {p.k}, o)
    <3>1. p.k \in UserName /\ p.k \in {p.k}
      BY <1>5 DEF UserRecord
    <3>2. UserMade(p, buildUseraddArgs(p))
      BY DEF UserMade, buildUseraddArgs, User
    <3>3. \/ o \in UserWrite(h, p.k, buildUseraddArgs(p), p)
          \/ o \in userdel(h, p.k, absentUserState(p.k)) \/ o \in Answers(h, absentUserState(p.k)) \/ o \in Refuse(h)
      BY <1>5, <2>1 DEF UserCreate
    <3>4. CASE o \in UserWrite(h, p.k, buildUseraddArgs(p), p)
      <4> DEFINE u == buildUseraddArgs(p)
      <4>1. UserMade(p, u) /\ o \in UserWrite(h, p.k, u, p)
        BY <3>2, <3>4
      <4> HIDE DEF u
      <4>2. QED
        BY <1>9, <2>1, <3>1, <4>1
    <3>5. QED
      BY <1>11, <2>1, <3>1, <3>3, <3>4
  <2>2. ASSUME NEW h, UserTable(h), NEW s, UserRecord(s), NEW p \in UserPlan, NEW o \in UserUpdate(h, s, p)
        PROVE  KeySafe(t, h, {p.k, s.k}, o)
    <3>1. p.k \in UserName /\ s.k \in UserName /\ p.k \in {p.k, s.k} /\ s.k \in {p.k, s.k}
      BY <1>5, <2>2 DEF UserRecord
    <3> DEFINE u == buildUsermodArgs(h.user[s.k], p)
    <3>2. UserMade(p, u)
      <4>1. p.append \in BOOLEAN
        BY <1>5 DEF UserRecord
      <4>2. QED
        BY <4>1 DEF UserMade, buildUsermodArgs, User
    <3>3. \/ o \in UserWrite(h, s.k, u, p)
          \/ o \in userdel(h, s.k, absentUserState(p.k)) \/ o \in Refuse(h)
      BY <1>5, <2>2 DEF UserUpdate
    <3> HIDE DEF u
    <3>4. CASE o \in UserWrite(h, s.k, u, p)
      BY <1>9, <2>2, <3>1, <3>2, <3>4
    <3>5. QED
      BY <1>11, <2>2, <3>1, <3>3, <3>4
  <2>3. ASSUME NEW h, UserTable(h), NEW s, UserRecord(s), NEW o \in UserDelete(h, s)
        PROVE  KeySafe(t, h, {s.k}, o) /\ Gone(t, o, s)
    <3>1. s.k \in UserName /\ s.k \in {s.k}
      BY <2>3 DEF UserRecord
    <3>2. UserOnly(h, o.h, s.k) /\ (o.out \in {Refused, Failed} \/ (o.out = Nil /\ o.h.user[s.k] = Nil))
      BY <2>3, <3>1, UserGone DEF UserDelete
    <3>3. Holds(t, o.h) /\ KeyOnly(t, h, o.h, {s.k})
      BY <1>7, <3>1, <3>2
    <3>4. o.h.user[s.k] = Nil /\ ~isAbsentResourceState(s) => UserRead(o.h, s) = Nil
      <4>1. s = [k |-> s.k, ensure |-> s.ensure, shell |-> s.shell, groups |-> s.groups, append |-> s.append]
        BY <2>3 DEF UserRecord
      <4>2. ~isAbsentResourceState(s) => s.ensure # "absent"
        BY <4>1 DEF isAbsentResourceState
      <4>3. QED
        BY <4>2 DEF UserRead
    <3>5. QED
      BY <1>3, <3>2, <3>3, <3>4 DEF KeySafe, Gone, IsState, MarksApart
  <2>4. ASSUME NEW h, NEW s, UserRecord(s) \/ s \in ImportIds(t), IsState(UserRead(h, s))
        PROVE  /\ UserRecord(UserRead(h, s)) /\ UserRead(h, s).k = s.k
               /\ UserRead(h, UserRead(h, s)) = UserRead(h, s)
    <3>1. s.k \in UserName /\ s.append \in BOOLEAN
      <4>1. CASE UserRecord(s)
        BY <4>1 DEF UserRecord
      <4>2. CASE s \in [k : UserName, ensure : {"present"}, append : {FALSE}]
        BY <4>2
      <4>3. QED
        BY <1>0, <2>4, <4>1, <4>2
    <3> DEFINE u == h.user[s.k]
               x == [k |-> s.k, ensure |-> "present", shell |-> u.shell, groups |-> u.groups, append |-> s.append]
               y == absentUserState(s.k)
    <3>2. CASE u # Nil
      <4>1. UserRead(h, s) = x
        BY <3>2 DEF UserRead, UserState
      <4>2. x.k = s.k /\ x.append = s.append /\ UserRecord(x)
        BY <3>1 DEF UserRecord
      <4> HIDE DEF x
      <4>3. UserRead(h, x) = x
        BY <3>2, <4>2 DEF UserRead, UserState, x
      <4>4. QED
        BY <4>1, <4>2, <4>3
    <3>3. CASE u = Nil
      <4>1. UserRead(h, s) = y
        BY <2>4, <3>3 DEF UserRead, IsState
      <4>2. y.k = s.k /\ y.ensure = "absent" /\ UserRecord(y)
        BY <3>1 DEF UserRecord, absentUserState
      <4> HIDE DEF y
      <4>3. UserRead(h, y) = absentUserState(y.k)
        BY <3>3, <4>2 DEF UserRead
      <4>4. QED
        BY <4>1, <4>2, <4>3 DEF y
    <3>4. QED
      BY <3>2, <3>3
  <2>5. QED
    BY <1>1, <1>2, <1>3, <2>1, <2>2, <2>3, <2>4 DEF KeyedOps
<1>13. t \in Keyed
  BY DEF Keyed, KeyedTypes, Types, FileTypes, SystemTypes
<1>14. QED
  BY <1>6, <1>12, <1>13, KeyedServed

-----------------------------------------------------------------------------
(* group *)

\* From h to x only the group k changes.
GroupOnly(h, x, k) == GroupTable(x) /\ SameBut(GroupName, h.gid, x.gid, {k})

\* Setting one group leaves the others.
LEMMA GroupSet ==
    ASSUME NEW h, GroupTable(h), NEW k, NEW n
    PROVE  GroupOnly(h, [h EXCEPT !.gid[k] = n], k) /\ (k \in GroupName => [h EXCEPT !.gid[k] = n].gid[k] = n)
<1> DEFINE f == [h.gid EXCEPT ![k] = n]
           w == [h EXCEPT !.gid[k] = n]
<1>1. h = [gid |-> h.gid] /\ h.gid = [x \in GroupName |-> h.gid[x]]
  BY DEF GroupTable
<1>2. f = [x \in GroupName |-> f[x]] /\ SameBut(GroupName, h.gid, f, {k}) /\ (k \in GroupName => f[k] = n)
  BY <1>1 DEF SameBut
<1>3. w = [h EXCEPT !.gid = f]
  OBVIOUS
<1> HIDE DEF f
<1>4. w = [gid |-> f]
  BY <1>1, <1>3
<1> HIDE DEF w
<1>5. QED
  BY <1>2, <1>4 DEF GroupOnly, GroupTable, w

\* The group as it is read has that form when it is read again.
LEMMA GroupReads ==
    ASSUME NEW h, NEW s, s.k \in GroupName, IsState(GroupRead(h, s))
    PROVE  /\ GroupRecord(GroupRead(h, s)) /\ GroupRead(h, s).k = s.k
           /\ GroupRead(h, GroupRead(h, s)) = GroupRead(h, s)
<1> DEFINE n == h.gid[s.k]
           x == [k |-> s.k, ensure |-> "present", gid |-> n]
           y == [k |-> s.k, ensure |-> "absent", gid |-> 0]
<1>2. CASE n # Nil
  <2>1. GroupRead(h, s) = x
    BY <1>2 DEF GroupRead
  <2>2. x.k = s.k /\ GroupRecord(x)
    BY DEF GroupRecord
  <2> HIDE DEF x
  <2>3. GroupRead(h, x) = x
    BY <1>2, <2>2 DEF GroupRead, x
  <2>4. QED
    BY <2>1, <2>2, <2>3
<1>3. CASE n = Nil
  <2>1. GroupRead(h, s) = y
    BY <1>3 DEF GroupRead, IsState
  <2>2. y.k = s.k /\ y.ensure = "absent" /\ GroupRecord(y)
    BY DEF GroupRecord
  <2> HIDE DEF y
  <2>3. GroupRead(h, y) = y
    BY <1>3, <2>2 DEF GroupRead, y
  <2>4. QED
    BY <2>1, <2>2, <2>3
<1>4. QED
  BY <1>2, <1>3

\* groupdel removes the group, unless it is refused or fails, and no other.
LEMMA GroupGone ==
    ASSUME NEW h, GroupTable(h), NEW k, NEW out, NEW o \in GroupRemove(h, k, out)
    PROVE  /\ GroupOnly(h, o.h, k)
           /\ o.out \in {Refused, Failed} \/ (o.out = out /\ (k \in GroupName => o.h.gid[k] = Nil))
<1> DEFINE w == [h EXCEPT !.gid[k] = Nil]
<1>1. o \in Refuse(h) \/ o \in Run(<<h, w>>, out)
  BY DEF GroupRemove
<1>3. GroupOnly(h, w, k) /\ (k \in GroupName => w.gid[k] = Nil)
  BY GroupSet
<1>4. GroupOnly(h, h, k)
  BY DEF GroupOnly, SameBut
<1> HIDE DEF w
<1>5. \/ o.h = h /\ o.out = Refused
      \/ o.h \in {h, w} /\ (o.out = Failed \/ (o.h = w /\ o.out = out))
  BY <1>1, RefuseOutcome, RunOfTwo
<1>6. QED
  BY <1>3, <1>4, <1>5

\* The group pack does what is asked of it.
LEMMA GroupServed == Served("group")
<1> DEFINE t == "group"
<1>1. \A h : Holds(t, h) <=> GroupTable(h)
  BY DEF Holds
<1>2. \A s : Fits(t, s) <=> GroupRecord(s)
  BY DEF Fits
<1>3. \A h, s, p : /\ CreateOp(t, h, p) = GroupCreate(h, p) /\ UpdateOp(t, h, s, p) = GroupUpdate(h, s, p)
                   /\ DeleteOp(t, h, s) = GroupDelete(h, s) /\ ReadOp(t, h, s) = GroupRead(h, s)
                   /\ Plans(t) = GroupPlan /\ Hosts(t) = GroupHost
  BY DEF CreateOp, UpdateOp, DeleteOp, ReadOp, Plans, Hosts
<1>0. ImportIds(t) = [k : UserName, ensure : {"present"}, append : {FALSE}]
  BY Zenon DEF ImportIds
<1>4. \A h, ids : Kept(t, h, ids) = TableOf(GroupName, h.gid, ids)
  BY DEF Kept, TableOf
<1>5. ASSUME NEW p \in GroupPlan
      PROVE  GroupRecord(p) /\ p.ensure \in {"present", "absent"} /\ p.gid \in {0, 2}
  <2>1. /\ p = [k |-> p.k, ensure |-> p.ensure, gid |-> p.gid]
        /\ p.k \in GroupName /\ p.ensure \in {"present", "absent"} /\ p.gid \in {0, 2}
    BY DEF GroupPlan
  <2>2. QED
    BY <2>1 DEF GroupRecord
<1>6. Starts(t)
  <2>1. ASSUME NEW h \in GroupHost PROVE GroupTable(h)
    <3> DEFINE f == [x \in GroupName |-> Nil]
               g == [a |-> 1, b |-> Nil]
    <3>1. h \in [gid : {f, g}]
      BY DEF GroupHost
    <3>2. f = [x \in GroupName |-> f[x]] /\ g = [x \in GroupName |-> g[x]]
      BY DEF GroupName
    <3> HIDE DEF f, g
    <3>4. QED
      BY <3>1, <3>2 DEF GroupTable
  <2>2. QED
    BY <1>1, <1>2, <1>3, <1>5, <2>1 DEF Starts
<1>7. ASSUME NEW h, NEW x, NEW k, GroupOnly(h, x, k), NEW K, k \in K
      PROVE  Holds(t, x) /\ KeyOnly(t, h, x, K)
  <2>1. SameBut(GroupName, h.gid, x.gid, K)
    BY <1>7 DEF GroupOnly, SameBut
  <2>2. ASSUME NEW ids, \A j \in K : <<j>> \in ids PROVE Kept(t, x, ids) = Kept(t, h, ids)
    BY <1>4, <2>1, <2>2, TableRest
  <2>3. ASSUME NEW s, GroupRecord(s), s.k \notin K PROVE ReadOp(t, x, s) = ReadOp(t, h, s)
    <3>1. h.gid[s.k] = x.gid[s.k]
      BY <2>1, <2>3 DEF SameBut, GroupRecord
    <3>2. QED
      BY <1>3, <3>1 DEF GroupRead
  <2>4. QED
    BY <1>1, <1>2, <1>7, <2>2, <2>3 DEF KeyOnly, GroupOnly
<1>8. \A h, s : InEffect(t, h, s)
  BY DEF InEffect
<1>9. ASSUME NEW h, NEW s, GroupRecord(s), MarksApart /\ s.ensure # "absent" => GroupRead(h, s) = s
      PROVE  Reported(t, h, s)
  BY <1>2, <1>3, <1>8, <1>9 DEF Reported, Denormal
\* A group that is not there is reported in another form.
<1>11. ASSUME NEW h, GroupTable(h), NEW k, NEW p \in GroupPlan, p.ensure = "absent", NEW o, NEW K, k \in K, p.k \in K,
              o \in GroupRemove(h, k, p) \/ o \in Answers(h, p)
       PROVE  KeySafe(t, h, K, o)
  <2>1. GroupOnly(h, h, k)
    BY <1>11 DEF GroupOnly, SameBut
  <2>2. GroupOnly(h, o.h, k) /\ o.out \in {Refused, Failed, p}
    BY <1>11, <2>1, GroupGone, AnswerOutcome
  <2>3. Holds(t, o.h) /\ KeyOnly(t, h, o.h, K)
    BY <1>7, <1>11, <2>2
  <2>4. Reported(t, o.h, p)
    BY <1>5, <1>9, <1>11
  <2>5. QED
    BY <1>11, <2>2, <2>3, <2>4 DEF KeySafe, IsState
<1>10. ASSUME NEW h, GroupTable(h), NEW K, NEW k, k \in K, NEW o \in Refuse(h)
       PROVE  KeySafe(t, h, K, o)
  <2>1. GroupOnly(h, h, k)
    BY <1>10 DEF GroupOnly, SameBut
  <2>2. QED
    BY <1>7, <1>10, <2>1, RefuseOutcome DEF KeySafe, IsState
<1>12. KeyedOps(t)
  <2>1. ASSUME NEW h, GroupTable(h), NEW p \in GroupPlan, NEW o \in GroupCreate(h, p) PROVE KeySafe(t, h, {p.k}, o)
    <3>1. p.k \in GroupName /\ p.k \in {p.k}
      BY <1>5 DEF GroupRecord
    <3>2. CASE o \in groupadd(h, p)
      <4>1. CASE o \in Refuse(h)
        BY <1>10, <2>1, <3>1, <4>1
      <4>2. ASSUME NEW n \in GroupId, o \in Run(<<h, [h EXCEPT !.gid[p.k] = n]>>, [k |-> p.k, ensure |-> "present", gid |-> n])
            PROVE  KeySafe(t, h, {p.k}, o)
        <5> DEFINE w == [h EXCEPT !.gid[p.k] = n]
                   s == [k |-> p.k, ensure |-> "present", gid |-> n]
        <5>1. GroupOnly(h, w, p.k) /\ w.gid[p.k] = n
          BY <2>1, <3>1, GroupSet
        <5>2. GroupOnly(h, h, p.k)
          BY <2>1 DEF GroupOnly, SameBut
        <5>3. GroupRecord(s) /\ s.k = p.k
          BY <3>1 DEF GroupRecord
        <5>4. o \in Run(<<h, w>>, s)
          BY <4>2
        <5> HIDE DEF w
        <5>5. MarksApart => GroupRead(w, s) = s
          <6>1. MarksApart => n # Nil
            BY DEF MarksApart
          <6>2. QED
            BY <5>1, <6>1 DEF GroupRead
        <5> HIDE DEF s
        <5>6. o.h \in {h, w} /\ (o.out = Failed \/ (o.h = w /\ o.out = s))
          BY <5>4, RunOfTwo
        <5>7. Holds(t, o.h) /\ KeyOnly(t, h, o.h, {p.k})
          BY <1>7, <5>1, <5>2, <5>6
        <5>8. Reported(t, w, s)
          BY <1>9, <5>3, <5>5
        <5>9. QED
          BY <5>3, <5>6, <5>7, <5>8 DEF KeySafe, IsState
      <4>3. FreeId(h, p.k) \subseteq GroupId
        BY DEF FreeId
      <4>4. \/ o \in Refuse(h)
            \/ \E n \in GroupId : o \in Run(<<h, [h EXCEPT !.gid[p.k] = n]>>, [k |-> p.k, ensure |-> "present", gid |-> n])
        <5>1. CASE h.gid[p.k] # Nil \/ p.gid \notin FreeId(h, p.k) \cup {0}
          BY <3>2, <5>1 DEF groupadd
        <5>2. CASE ~(h.gid[p.k] # Nil \/ p.gid \notin FreeId(h, p.k) \cup {0})
          <6>1. PICK n \in IF p.gid = 0 THEN FreeId(h, p.k) ELSE {p.gid} :
                       o \in Run(<<h, [h EXCEPT !.gid[p.k] = n]>>, [k |-> p.k, ensure |-> "present", gid |-> n])
            BY <3>2, <5>2 DEF groupadd
          <6>2. n \in GroupId
            BY <4>3, <5>2
          <6>3. QED
            BY <6>1, <6>2
        <5>3. QED
          BY <5>1, <5>2
      <4>5. QED
        BY <4>1, <4>2, <4>4
    <3>3. \/ o \in groupadd(h, p)
          \/ p.ensure = "absent" /\ (o \in GroupRemove(h, p.k, p) \/ o \in Answers(h, p))
      BY <1>5, <2>1 DEF GroupCreate
    <3>4. QED
      BY <1>11, <2>1, <3>1, <3>2, <3>3
  <2>2. ASSUME NEW h, GroupTable(h), NEW s, GroupRecord(s), NEW p \in GroupPlan, NEW o \in GroupUpdate(h, s, p)
        PROVE  KeySafe(t, h, {p.k, s.k}, o)
    <3>1. s.k \in GroupName /\ p.k \in {p.k, s.k} /\ s.k \in {p.k, s.k}
      BY <2>2 DEF GroupRecord
    <3> DEFINE w == IF p.gid = 0 THEN h ELSE [h EXCEPT !.gid[s.k] = p.gid]
    <3>2. \/ p.ensure = "absent" /\ o \in GroupRemove(h, s.k, p)
          \/ o \in Refuse(h)
          \/ o \in Change(<<h, w>>, GroupRead(w, s)) \/ o = Outcome(w, Failed)
      BY <1>5, <2>2 DEF GroupUpdate
    <3>3. GroupOnly(h, h, s.k)
      BY <2>2 DEF GroupOnly, SameBut
    <3>4. GroupOnly(h, w, s.k)
      BY <2>2, <3>3, GroupSet
    <3> HIDE DEF w
    <3>5. CASE o \in Change(<<h, w>>, GroupRead(w, s)) \/ o = Outcome(w, Failed)
      <4> DEFINE x == GroupRead(w, s)
      <4>1. IsState(x) => GroupRecord(x) /\ x.k = s.k /\ GroupRead(w, x) = x
        BY <3>1, GroupReads
      <4> HIDE DEF x
      <4>2. o.h \in {h, w} /\ (o.out = Failed \/ (o.h = w /\ o.out = x))
        BY <3>5, ChangeOfTwo DEF Outcome, x
      <4>3. Holds(t, o.h) /\ KeyOnly(t, h, o.h, {p.k, s.k})
        BY <1>7, <3>1, <3>3, <3>4, <4>2
      <4>4. IsState(x) => Reported(t, w, x) /\ x.k \in {p.k, s.k}
        BY <1>9, <3>1, <4>1
      <4>5. QED
        BY <4>2, <4>3, <4>4 DEF KeySafe, IsState
    <3>6. QED
      BY <1>10, <1>11, <2>2, <3>1, <3>2, <3>5
  <2>3. ASSUME NEW h, GroupTable(h), NEW s, GroupRecord(s), NEW o \in GroupDelete(h, s)
        PROVE  KeySafe(t, h, {s.k}, o) /\ Gone(t, o, s)
    <3>1. s.k \in GroupName /\ s.k \in {s.k}
      BY <2>3 DEF GroupRecord
    <3>2. GroupOnly(h, o.h, s.k) /\ (o.out \in {Refused, Failed} \/ (o.out = Nil /\ o.h.gid[s.k] = Nil))
      BY <2>3, <3>1, GroupGone DEF GroupDelete
    <3>3. Holds(t, o.h) /\ KeyOnly(t, h, o.h, {s.k})
      BY <1>7, <3>1, <3>2
    <3>4. o.h.gid[s.k] = Nil /\ ~isAbsentResourceState(s) => GroupRead(o.h, s) = Nil
      <4>1. s = [k |-> s.k, ensure |-> s.ensure, gid |-> s.gid]
        BY <2>3 DEF GroupRecord
      <4>2. ~isAbsentResourceState(s) => s.ensure # "absent"
        BY <4>1 DEF isAbsentResourceState
      <4>3. QED
        BY <4>2 DEF GroupRead
    <3>5. QED
      BY <1>3, <3>2, <3>3, <3>4 DEF KeySafe, Gone, IsState, MarksApart
  <2>4. ASSUME NEW h, NEW s, GroupRecord(s) \/ s \in ImportIds(t), IsState(GroupRead(h, s))
        PROVE  /\ GroupRecord(GroupRead(h, s)) /\ GroupRead(h, s).k = s.k
               /\ GroupRead(h, GroupRead(h, s)) = GroupRead(h, s)
    <3>1. s.k \in GroupName
      <4>1. CASE GroupRecord(s)
        BY <4>1 DEF GroupRecord
      <4>2. CASE s \in [k : UserName, ensure : {"present"}, append : {FALSE}]
        BY <4>2 DEF UserName, GroupName
      <4>3. QED
        BY <1>0, <2>4, <4>1, <4>2
    <3>2. QED
      BY <2>4, <3>1, GroupReads
  <2>5. QED
    BY <1>1, <1>2, <1>3, <2>1, <2>2, <2>3, <2>4 DEF KeyedOps
<1>13. t \in Keyed
  BY DEF Keyed, KeyedTypes, Types, FileTypes, SystemTypes
<1>14. QED
  BY <1>6, <1>12, <1>13, KeyedServed

-----------------------------------------------------------------------------
(* package *)

\* From h to x only the packages K change, and the keyring with the one that has it.
PkgOnly(h, x, K) ==
    /\ PkgTable(x) /\ SameBut(PkgName, h.ver, x.ver, K)
    /\ "a" \notin K => x.rings = h.rings

\* Only the package a has a keyring.
RingsLeft(h, r, K) == "a" \notin K => r = h.rings
NoRing(K, s) == "a" \notin K => packageRepoKeyringPath(s) = ""
PkgVer(x, k, v) == k \in PkgName => x.ver[k] = v
RingStays(p, x, w) ==
    p.ensure # "absent" /\ packageRepoKeyringPath(p) \in x.rings \cup {""} => packageRepoKeyringPath(p) \in w.rings \cup {""}

\* A host that is left as it was has no other package changed.
LEMMA PkgStays ==
    ASSUME NEW h, PkgTable(h), NEW K
    PROVE  PkgOnly(h, h, K)
  BY DEF PkgOnly, SameBut

\* Installing, upgrading or removing one package leaves the versions of the others.
LEMMA PkgSet ==
    ASSUME NEW h, PkgTable(h), NEW K, NEW k, k \in K, NEW v
    PROVE  /\ PkgOnly(h, [h EXCEPT !.ver[k] = v], K) /\ [h EXCEPT !.ver[k] = v].rings = h.rings
           /\ PkgVer([h EXCEPT !.ver[k] = v], k, v)
<1> DEFINE f == [h.ver EXCEPT ![k] = v]
           w == [h EXCEPT !.ver[k] = v]
<1>1. h = [pm |-> h.pm, ver |-> h.ver, rings |-> h.rings, refs |-> h.refs] /\ h.ver = [x \in PkgName |-> h.ver[x]]
  BY DEF PkgTable
<1>2. f = [x \in PkgName |-> f[x]] /\ SameBut(PkgName, h.ver, f, K) /\ (k \in PkgName => f[k] = v)
  BY <1>1 DEF SameBut
<1>3. w = [h EXCEPT !.ver = f]
  OBVIOUS
<1> HIDE DEF f
<1>4. w = [pm |-> h.pm, ver |-> f, rings |-> h.rings, refs |-> h.refs]
  BY <1>1, <1>3
<1> HIDE DEF w
<1>5. QED
  BY <1>2, <1>4 DEF PkgOnly, PkgTable, PkgVer, w

\* Changing the keyrings an operation may change leaves the packages.
LEMMA PkgRings ==
    ASSUME NEW h, NEW x, NEW K, PkgOnly(h, x, K), NEW r, RingsLeft(h, r, K)
    PROVE  /\ PkgOnly(h, [x EXCEPT !.rings = r], K)
           /\ [x EXCEPT !.rings = r].rings = r /\ [x EXCEPT !.rings = r].ver = x.ver
<1> DEFINE w == [x EXCEPT !.rings = r]
<1>1. x = [pm |-> x.pm, ver |-> x.ver, rings |-> x.rings, refs |-> x.refs]
  BY DEF PkgOnly, PkgTable
<1>2. w = [pm |-> x.pm, ver |-> x.ver, rings |-> r, refs |-> x.refs]
  BY <1>1
<1> HIDE DEF w
<1>3. QED
  BY <1>2 DEF PkgOnly, PkgTable, RingsLeft, w

\* The removal of a keyring that is given up keeps the one the new state has.
LEMMA PkgCleanup ==
    ASSUME NEW h, NEW x, NEW K, PkgOnly(h, x, K), NEW s, NEW p, NoRing(K, s), NoRing(K, p)
    PROVE  /\ PkgOnly(h, cleanupPackageRepoKeyring(x, s, p), K)
           /\ cleanupPackageRepoKeyring(x, s, p).ver = x.ver
           /\ RingStays(p, x, cleanupPackageRepoKeyring(x, s, p))
<1> DEFINE old == packageRepoKeyringPath(s)
           new == packageRepoKeyringPath(p)
           paths == CleanupPaths(old, new, p.ensure = "absent")
           r == x.rings \ (paths \ x.refs)
           w == [x EXCEPT !.rings = r]
<1>1. cleanupPackageRepoKeyring(x, s, p) = w
  BY DEF cleanupPackageRepoKeyring, removePackageRepoKeyring
<1>2. RingsLeft(h, r, K)
  <2>1. "a" \notin K => old = "" /\ new = ""
    BY DEF NoRing
  <2>2. old = "" /\ new = "" => paths = {}
    BY DEF CleanupPaths
  <2>3. "a" \notin K => x.rings = h.rings
    BY DEF PkgOnly
  <2> HIDE DEF old, new, paths
  <2>4. paths = {} => r = x.rings
    OBVIOUS
  <2> HIDE DEF r
  <2>5. QED
    BY <2>1, <2>2, <2>3, <2>4 DEF RingsLeft
<1>3. p.ensure # "absent" /\ new \in x.rings \cup {""} => new \in r \cup {""}
  <2>1. p.ensure # "absent" => new \notin paths
    BY DEF CleanupPaths
  <2> HIDE DEF new, paths
  <2>2. QED
    BY <2>1
<1> HIDE DEF r
<1>4. PkgOnly(h, w, K) /\ w.rings = r /\ w.ver = x.ver
  BY <1>2, PkgRings
<1> HIDE DEF w
<1>5. QED
  BY <1>1, <1>3, <1>4 DEF RingStays

\* What is known of the state reported for p.
PkgDone(p, o) ==
    IF p.ensure = "absent" THEN o.out = buildPackageState(p, "") /\ o.h.ver[p.k] = Nil
    ELSE /\ o.out = buildPackageState(p, o.h.ver[p.k]) /\ (MarksApart => o.h.ver[p.k] # Nil)
         /\ MarksApart => p.ring \in o.h.rings \cup {""}

\* The versions a plan may name.
VersionKnown(p) == p.ver \in {"", "1"}

\* A package plan that is reported is carried out, and the other packages stay, wherever it stops.
LEMMA PkgApplied ==
    ASSUME NEW h, PkgTable(h), NEW K, NEW p, PkgState(p), p.k \in K, VersionKnown(p), NEW s,
           NoRing(K, s),
           NEW o \in applyPackage(h, s, p)
    PROVE  PkgOnly(h, o.h, K) /\ (o.out = Failed \/ PkgDone(p, o))
<1> DEFINE v == IF p.ver = "" THEN "2" ELSE p.ver
           other == [h EXCEPT !.ver[p.k] = v]
           removed == [h EXCEPT !.ver[p.k] = Nil]
           made == IF PkgSatisfied(h, p) THEN h ELSE other
           r == IF p.ring = "" THEN made.rings ELSE made.rings \cup {p.ring}
           ringed == [made EXCEPT !.rings = r]
           gone == cleanupPackageRepoKeyring(removed, s, p)
           kept == cleanupPackageRepoKeyring(ringed, s, p)
           away == buildPackageState(p, "")
           state == buildPackageState(p, kept.ver[p.k])
<1>1. /\ p = [k |-> p.k, ensure |-> p.ensure, ver |-> p.ver, ring |-> p.ring]
      /\ p.k \in PkgName /\ p.ring \in {"", "k1"} /\ (p.k = "b" => p.ring = "")
  BY DEF PkgState
<1>2. "a" \notin K => p.ring = ""
  BY <1>1 DEF PkgName
<1>3. packageRepoKeyringPath(p) \in {"", p.ring}
  BY DEF packageRepoKeyringPath
<1>4. NoRing(K, p)
  BY <1>2, <1>3 DEF NoRing
<1>5. \/ /\ p.ensure = "absent"
         /\ o \in Change(<<h, removed, gone>>, away) \/ o = Outcome(h, Failed)
      \/ p.ensure # "absent" /\ o \in Change(<<h, made>>, Failed)
      \/ /\ p.ensure # "absent"
         /\ \/ o \in Change(<<h, made, ringed, kept>>, state)
            \/ o \in {Outcome(h, Failed), Outcome(kept, Failed)}
  BY DEF applyPackage, removePackage, installPackage
<1>6. PkgOnly(h, h, K)
  BY PkgStays
<1> HIDE DEF v
<1>7. PkgOnly(h, other, K) /\ other.rings = h.rings /\ other.ver[p.k] = v
  <2>1. PkgOnly(h, other, K) /\ other.rings = h.rings /\ PkgVer(other, p.k, v)
    BY PkgSet
  <2>2. QED
    BY <1>1, <2>1 DEF PkgVer
<1>8. PkgOnly(h, removed, K) /\ removed.ver[p.k] = Nil
  <2>1. PkgOnly(h, removed, K) /\ PkgVer(removed, p.k, Nil)
    BY PkgSet
  <2>2. QED
    BY <1>1, <2>1 DEF PkgVer
<1>9. MarksApart => v # Nil
  BY DEF MarksApart, VersionKnown, v
<1> HIDE DEF other, removed
<1>10. PkgOnly(h, made, K) /\ made.rings = h.rings /\ (MarksApart => made.ver[p.k] # Nil)
  <2>1. PkgSatisfied(h, p) => h.ver[p.k] # Nil
    BY DEF PkgSatisfied
  <2>2. QED
    BY <1>6, <1>7, <1>9, <2>1
<1> HIDE DEF made
<1>11. RingsLeft(h, r, K)
  BY <1>2, <1>10 DEF RingsLeft
<1>12. p.ring \in r \cup {""}
  OBVIOUS
<1> HIDE DEF r
<1>13. PkgOnly(h, ringed, K) /\ ringed.rings = r /\ ringed.ver = made.ver
  <2>1. PkgOnly(h, made, K)
    BY <1>10
  <2>2. RingsLeft(h, r, K)
    BY <1>11
  <2>3. PkgOnly(h, [made EXCEPT !.rings = r], K)
    BY <2>1, <2>2, PkgRings
  <2>4. [made EXCEPT !.rings = r].rings = r /\ [made EXCEPT !.rings = r].ver = made.ver
    BY <2>1, <2>2, PkgRings
  <2>5. QED
    BY <2>3, <2>4
<1> HIDE DEF ringed
<1>14. PkgOnly(h, kept, K) /\ kept.ver = made.ver /\ RingStays(p, ringed, kept)
  <2>1. PkgOnly(h, kept, K) /\ kept.ver = ringed.ver /\ RingStays(p, ringed, kept)
    BY <1>4, <1>13, PkgCleanup
  <2> HIDE DEF kept
  <2>2. QED
    BY <1>13, <2>1
<1>15. PkgOnly(h, gone, K) /\ gone.ver = removed.ver
  BY <1>4, <1>8, PkgCleanup
<1> HIDE DEF gone, kept, away, state
<1>16. CASE p.ensure = "absent"
  <2>0. o \in Change(<<h, removed, gone>>, away) \/ o = Outcome(h, Failed)
    BY <1>5, <1>16
  <2>1. o.h \in {h, removed, gone} /\ (o.out = Failed \/ (o.h = gone /\ o.out = away))
    BY <2>0, ChangeOfThree DEF Outcome
  <2>2. gone.ver[p.k] = Nil
    BY <1>8, <1>15
  <2>3. QED
    BY <1>6, <1>8, <1>15, <1>16, <2>1, <2>2 DEF PkgDone, away
<1>17. CASE p.ensure # "absent"
  <2>1. /\ o.h \in {h, made, ringed, kept}
        /\ o.out = Failed \/ (o.h = kept /\ o.out = state)
    BY <1>5, <1>17, ChangeOfTwo, ChangeOfFour DEF Outcome
  <2>2. MarksApart => kept.ver[p.k] # Nil
    BY <1>10, <1>14
  <2>3. MarksApart => p.ring \in kept.rings \cup {""}
    <3>1. MarksApart => p # Nil
      <4>1. p = [x \in DOMAIN p |-> p[x]]
        BY <1>1
      <4>2. QED
        BY <4>1 DEF MarksApart
    <3>2. p # Nil => packageRepoKeyringPath(p) = p.ring
      BY DEF packageRepoKeyringPath
    <3>3. QED
      BY <1>12, <1>13, <1>14, <1>17, <3>1, <3>2 DEF RingStays
  <2>4. QED
    BY <1>6, <1>10, <1>13, <1>14, <1>17, <2>1, <2>2, <2>3 DEF PkgDone, state
<1>18. QED
  BY <1>16, <1>17

\* Of two packages only one comes with a keyring, which its own states name.
LEMMA PkgNoRing ==
    ASSUME NEW s, PkgState(s), NEW K, s.k \in K
    PROVE  NoRing(K, s)
<1>1. s.k \in PkgName /\ (s.k = "b" => s.ring = "")
  BY DEF PkgState
<1>2. "a" \notin K => s.k = "b"
  BY <1>1 DEF PkgName
<1>3. QED
  BY <1>1, <1>2 DEF NoRing, packageRepoKeyringPath

\* The state is what is installed,
PkgFound(h, s) ==
    \/ s.ensure = "absent" /\ h.ver[s.k] = Nil /\ s.ver = ""
    \/ h.ver[s.k] # Nil /\ s.ver = h.ver[s.k] /\ s.ring \in h.rings \cup {""}

\* and the one a refresh finds.
LEMMA PkgReadBack ==
    ASSUME MarksApart, NEW h, NEW s, PkgState(s), PkgFound(h, s)
    PROVE  PkgRead(h, s) = s
<1>1. s = [k |-> s.k, ensure |-> s.ensure, ver |-> s.ver, ring |-> s.ring]
  BY DEF PkgState
<1>2. s = [x \in DOMAIN s |-> s[x]]
  BY <1>1
<1>3. s # Nil
  BY <1>2 DEF MarksApart
<1>4. packageRepoKeyringPath(s) = s.ring
  BY <1>3 DEF packageRepoKeyringPath
<1>5. CASE s.ensure = "absent" /\ h.ver[s.k] = Nil /\ s.ver = ""
  <2>1. PkgRead(h, s) = buildPackageState(s, "")
    BY <1>3, <1>5 DEF PkgRead, Ensures
  <2>2. QED
    BY <1>1, <1>5, <2>1 DEF buildPackageState
<1>6. CASE h.ver[s.k] # Nil /\ s.ver = h.ver[s.k] /\ s.ring \in h.rings \cup {""}
  <2>1. PkgRead(h, s) = buildPackageState(s, h.ver[s.k])
    BY <1>4, <1>6 DEF PkgRead
  <2>2. QED
    BY <1>1, <1>6, <2>1 DEF buildPackageState
<1>7. QED
  BY <1>5, <1>6 DEF PkgFound

\* What is read of a package is about that package and is read again.
LEMMA PkgReads ==
    ASSUME NEW h, NEW s, PkgState(s), IsState(PkgRead(h, s))
    PROVE  /\ PkgState(PkgRead(h, s)) /\ PkgRead(h, s).k = s.k
           /\ MarksApart => PkgRead(h, PkgRead(h, s)) = PkgRead(h, s)
<1>1. s = [y \in DOMAIN s |-> s[y]]
  BY DEF PkgState
<1> DEFINE x == PkgRead(h, s)
<1>2. \/ h.ver[s.k] = Nil /\ Ensures(s, "absent") /\ x = buildPackageState(s, "")
      \/ h.ver[s.k] # Nil /\ packageRepoKeyringPath(s) \in h.rings \cup {""} /\ x = buildPackageState(s, h.ver[s.k])
  <2>1. CASE h.ver[s.k] = Nil
    BY <2>1 DEF PkgRead, IsState
  <2>2. CASE h.ver[s.k] # Nil
    BY <2>2 DEF PkgRead, IsState
  <2>3. QED
    BY <2>1, <2>2
<1>3. PICK v : x = buildPackageState(s, v)
  BY <1>2
<1> HIDE DEF x
<1>4. x = [k |-> s.k, ensure |-> s.ensure, ver |-> v, ring |-> s.ring]
  BY <1>3 DEF buildPackageState
<1>5. x = [k |-> x.k, ensure |-> x.ensure, ver |-> x.ver, ring |-> x.ring] /\ x.k = s.k /\ x.ensure = s.ensure /\ x.ring = s.ring
  BY <1>4
<1>6. PkgState(x)
  BY <1>5 DEF PkgState
<1>7. ASSUME MarksApart PROVE PkgRead(h, x) = x
  <2>1. ASSUME h.ver[s.k] = Nil, Ensures(s, "absent"), x = buildPackageState(s, "") PROVE PkgFound(h, x)
    BY <1>5, <2>1 DEF buildPackageState, Ensures, PkgFound
  <2>2. ASSUME h.ver[s.k] # Nil, packageRepoKeyringPath(s) \in h.rings \cup {""}, x = buildPackageState(s, h.ver[s.k])
        PROVE  PkgFound(h, x)
    <3>1. x.ver = h.ver[s.k]
      BY <2>2 DEF buildPackageState
    <3>2. s # Nil
      BY <1>1, <1>7 DEF MarksApart
    <3>3. x.ring \in h.rings \cup {""}
      BY <1>5, <2>2, <3>2 DEF packageRepoKeyringPath
    <3>4. QED
      BY <1>5, <2>2, <3>1, <3>3 DEF PkgFound
  <2>3. PkgFound(h, x)
    BY <1>2, <2>1, <2>2 DEF x
  <2>4. QED
    BY <1>6, <1>7, <2>3, PkgReadBack
<1>8. QED
  BY <1>5, <1>6, <1>7 DEF x

\* The package pack does what is asked of it.
LEMMA PkgServed == Served("package")
<1> DEFINE t == "package"
<1>1. \A h : Holds(t, h) <=> PkgTable(h)
  BY DEF Holds
<1>2. \A s : Fits(t, s) <=> PkgState(s)
  BY DEF Fits
<1>3. \A h, s, p : /\ CreateOp(t, h, p) = applyPackage(h, Nil, p) /\ UpdateOp(t, h, s, p) = applyPackage(h, s, p)
                   /\ DeleteOp(t, h, s) = PkgDelete(h, s) /\ ReadOp(t, h, s) = PkgRead(h, s)
                   /\ Plans(t) = PkgPlan /\ Hosts(t) = PkgHost
  BY DEF CreateOp, UpdateOp, DeleteOp, ReadOp, Plans, Hosts
<1>0. ImportIds(t) = [k : PkgName, ensure : {"present"}, ver : {""}, ring : {""}]
  BY Zenon DEF ImportIds
<1>4. \A h, ids : Kept(t, h, ids) = TableOf(PkgName, h.ver, ids)
  BY DEF Kept, TableOf
<1>5. ASSUME NEW p \in PkgPlan
      PROVE  PkgState(p) /\ VersionKnown(p)
  <2>1. /\ p = [k |-> p.k, ensure |-> p.ensure, ver |-> p.ver, ring |-> p.ring]
        /\ p.k \in PkgName /\ p.ensure \in {"present", "latest", "absent"} /\ p.ver \in {"", "1"} /\ p.ring \in {"", "k1"}
        /\ p.ring # "" => p.k = "a"
    BY DEF PkgPlan
  <2>2. QED
    BY <2>1 DEF PkgState, VersionKnown
<1>6. Starts(t)
  <2>1. ASSUME NEW h \in PkgHost PROVE PkgTable(h)
    <3> DEFINE f == [a |-> Nil, b |-> "1"]
               g == [a |-> "1", b |-> Nil]
    <3>1. \/ h \in [pm : {"apt"}, ver : {f}, rings : {{}}, refs : {{}, {"k1"}}]
          \/ h \in [pm : {"dnf"}, ver : {g}, rings : {{}}, refs : {{}}]
      BY DEF PkgHost
    <3>2. f = [x \in PkgName |-> f[x]] /\ g = [x \in PkgName |-> g[x]]
      BY DEF PkgName
    <3> HIDE DEF f, g
    <3>4. QED
      BY <3>1, <3>2 DEF PkgTable
  <2>2. QED
    BY <1>1, <1>2, <1>3, <1>5, <2>1 DEF Starts
<1>7. ASSUME NEW h, NEW x, NEW K, PkgOnly(h, x, K)
      PROVE  Holds(t, x) /\ KeyOnly(t, h, x, K)
  <2>1. SameBut(PkgName, h.ver, x.ver, K)
    BY <1>7 DEF PkgOnly
  <2>2. ASSUME NEW ids, \A j \in K : <<j>> \in ids PROVE Kept(t, x, ids) = Kept(t, h, ids)
    BY <1>4, <2>1, <2>2, TableRest
  <2>3. ASSUME NEW s, PkgState(s), s.k \notin K PROVE ReadOp(t, x, s) = ReadOp(t, h, s)
    <3>1. h.ver[s.k] = x.ver[s.k]
      BY <2>1, <2>3 DEF SameBut, PkgState
    <3>2. CASE s.k = "a"
      <4>1. x.rings = h.rings
        BY <1>7, <2>3, <3>2 DEF PkgOnly
      <4>2. QED
        BY <1>3, <3>1, <4>1 DEF PkgRead
    <3>3. CASE s.k # "a"
      <4>1. s.k = "b"
        BY <2>3, <3>3 DEF PkgState, PkgName
      <4>2. packageRepoKeyringPath(s) = ""
        BY <2>3, <4>1 DEF packageRepoKeyringPath, PkgState
      <4> DEFINE path == packageRepoKeyringPath(s)
      <4>3. path \in h.rings \cup {""} /\ path \in x.rings \cup {""}
        BY <4>2
      <4>4. QED
        BY <1>3, <3>1, <4>3 DEF PkgRead
    <3>4. QED
      BY <3>2, <3>3
  <2>4. QED
    BY <1>1, <1>2, <1>7, <2>2, <2>3 DEF KeyOnly, PkgOnly
<1>8. \A h, s : InEffect(t, h, s)
  BY DEF InEffect
<1>9. ASSUME NEW h, PkgTable(h), NEW s, NEW K, NoRing(K, s), NEW p \in PkgPlan, p.k \in K, NEW o \in applyPackage(h, s, p)
      PROVE  KeySafe(t, h, K, o)
  <2>1. PkgOnly(h, o.h, K) /\ (o.out = Failed \/ PkgDone(p, o))
    BY <1>5, <1>9, PkgApplied
  <2>2. Holds(t, o.h) /\ KeyOnly(t, h, o.h, K)
    BY <1>7, <2>1
  <2>3. ASSUME PkgDone(p, o)
        PROVE  PkgState(o.out) /\ o.out.k = p.k /\ (MarksApart => PkgRead(o.h, o.out) = o.out)
    <3> DEFINE x == o.out
    <3>1. PICK v : /\ x = buildPackageState(p, v)
                   /\ IF p.ensure = "absent" THEN v = "" /\ o.h.ver[p.k] = Nil
                      ELSE v = o.h.ver[p.k] /\ (MarksApart => o.h.ver[p.k] # Nil /\ p.ring \in o.h.rings \cup {""})
      BY <2>3 DEF PkgDone
    <3> HIDE DEF x
    <3>2. x = [k |-> p.k, ensure |-> p.ensure, ver |-> v, ring |-> p.ring]
      BY <3>1 DEF buildPackageState
    <3>3. x = [k |-> x.k, ensure |-> x.ensure, ver |-> x.ver, ring |-> x.ring] /\ x.k = p.k /\ x.ensure = p.ensure /\ x.ver = v /\ x.ring = p.ring
      BY <3>2
    <3>4. PkgState(x)
      <4>1. PkgState(p)
        BY <1>5
      <4>2. QED
        BY <3>3, <4>1 DEF PkgState
    <3>5. MarksApart => PkgFound(o.h, x)
      BY <3>1, <3>3 DEF PkgFound
    <3>6. MarksApart => PkgRead(o.h, x) = x
      BY <3>4, <3>5, PkgReadBack
    <3>7. QED
      BY <3>3, <3>4, <3>6 DEF x
  <2>4. IsState(o.out) => Reported(t, o.h, o.out) /\ o.out.k \in K
    BY <1>2, <1>3, <1>8, <1>9, <2>1, <2>3 DEF Reported, IsState
  <2>5. QED
    BY <2>2, <2>4 DEF KeySafe
<1>10. KeyedOps(t)
  <2>1. ASSUME NEW h, PkgTable(h), NEW p \in PkgPlan, NEW o \in applyPackage(h, Nil, p) PROVE KeySafe(t, h, {p.k}, o)
    <3>1. NoRing({p.k}, Nil) /\ p.k \in {p.k}
      BY DEF NoRing, packageRepoKeyringPath
    <3>2. QED
      BY <1>9, <2>1, <3>1
  <2>2. ASSUME NEW h, PkgTable(h), NEW s, PkgState(s), NEW p \in PkgPlan, NEW o \in applyPackage(h, s, p)
        PROVE  KeySafe(t, h, {p.k, s.k}, o)
    <3>1. p.k \in {p.k, s.k} /\ s.k \in {p.k, s.k}
      OBVIOUS
    <3>2. NoRing({p.k, s.k}, s)
      BY <2>2, <3>1, PkgNoRing
    <3>3. QED
      BY <1>9, <2>2, <3>1, <3>2
  <2>3. ASSUME NEW h, PkgTable(h), NEW s, PkgState(s), NEW o \in PkgDelete(h, s)
        PROVE  KeySafe(t, h, {s.k}, o) /\ Gone(t, o, s)
    <3> DEFINE K == {s.k}
               p == [s EXCEPT !.ensure = "absent"]
               removed == [h EXCEPT !.ver[s.k] = Nil]
               done == cleanupPackageRepoKeyring(removed, s, p)
    <3>1. s.k \in PkgName /\ s.k \in K /\ s = [k |-> s.k, ensure |-> s.ensure, ver |-> s.ver, ring |-> s.ring]
      BY <2>3 DEF PkgState
    <3>2. o \in Change(<<h, removed, done>>, Nil) \/ o = Outcome(h, Failed)
      BY <2>3 DEF PkgDelete, removePackage
    <3>3. PkgState(p) /\ p.k = s.k
      <4>1. p = [k |-> s.k, ensure |-> "absent", ver |-> s.ver, ring |-> s.ring]
        BY <3>1
      <4> HIDE DEF p
      <4>2. p = [k |-> p.k, ensure |-> p.ensure, ver |-> p.ver, ring |-> p.ring] /\ p.k = s.k /\ p.ring = s.ring /\ p.ensure = "absent"
        BY <4>1
      <4>3. QED
        BY <2>3, <4>2 DEF PkgState
    <3> HIDE DEF p, K
    <3>4. NoRing(K, s) /\ NoRing(K, p)
      BY <2>3, <3>1, <3>3, PkgNoRing
    <3>5. PkgOnly(h, h, K)
      BY <2>3, PkgStays
    <3>6. PkgOnly(h, removed, K) /\ removed.ver[s.k] = Nil
      <4>1. PkgOnly(h, removed, K) /\ PkgVer(removed, s.k, Nil)
        BY <2>3, <3>1, PkgSet
      <4>2. QED
        BY <3>1, <4>1 DEF PkgVer
    <3> HIDE DEF removed
    <3>7. PkgOnly(h, done, K) /\ done.ver = removed.ver
      BY <3>4, <3>6, PkgCleanup
    <3> HIDE DEF done
    <3>8. o.h \in {h, removed, done} /\ (o.out = Failed \/ (o.h = done /\ o.out = Nil))
      BY <3>2, ChangeOfThree DEF Outcome
    <3>9. Holds(t, o.h) /\ KeyOnly(t, h, o.h, K)
      BY <1>7, <3>5, <3>6, <3>7, <3>8
    <3>10. KeySafe(t, h, K, o)
      BY <3>8, <3>9 DEF KeySafe, IsState
    <3>11. ~isAbsentResourceState(s) => ~Ensures(s, "absent")
      BY <3>1 DEF isAbsentResourceState, Ensures
    <3>12. ~isAbsentResourceState(s) => PkgRead(done, s) = Nil
      BY <3>6, <3>7, <3>11 DEF PkgRead
    <3>13. Gone(t, o, s)
      BY <1>3, <3>8, <3>12 DEF Gone, MarksApart
    <3>14. QED
      BY <3>10, <3>13 DEF K
  <2>4. ASSUME NEW h, NEW s, PkgState(s) \/ s \in ImportIds(t), IsState(PkgRead(h, s))
        PROVE  /\ PkgState(PkgRead(h, s)) /\ PkgRead(h, s).k = s.k
               /\ MarksApart => PkgRead(h, PkgRead(h, s)) = PkgRead(h, s)
    <3>1. ASSUME s \in ImportIds(t) PROVE PkgState(s)
      <4>0. s \in [k : PkgName, ensure : {"present"}, ver : {""}, ring : {""}]
        BY <1>0, <3>1, Zenon
      <4>1. s.k \in PkgName /\ s.ensure = "present" /\ s.ring = "" /\ s = [k |-> s.k, ensure |-> s.ensure, ver |-> s.ver, ring |-> s.ring]
        BY <4>0
      <4>2. QED
        BY <4>1 DEF PkgState
    <3>2. PkgState(s)
      BY <2>4, <3>1
    <3>3. QED
      BY <2>4, <3>2, PkgReads
  <2>5. QED
    BY <1>1, <1>2, <1>3, <2>1, <2>2, <2>3, <2>4 DEF KeyedOps
<1>13. t \in Keyed
  BY DEF Keyed, KeyedTypes, Types, FileTypes, SystemTypes
<1>14. QED
  BY <1>6, <1>10, <1>13, KeyedServed

-----------------------------------------------------------------------------
(* kernel_modules *)

\* Of what is without duplicates, nothing goes.
LEMMA DedupTwice ==
    ASSUME NEW X, NEW s \in Seq(X)
    PROVE  Dedup(s) \in Seq(X) /\ Dedup(Dedup(s)) = Dedup(s)
<1> DEFINE S == {i \in DOMAIN s : \A j \in 1 .. i - 1 : s[j] # s[i]}
           t == Dedup(s)
           c == Cardinality(S)
           T == {i \in DOMAIN t : \A j \in 1 .. i - 1 : t[j] # t[i]}
<1>1. t = At(s, S)
  BY DEF Dedup
<1>2. S \subseteq DOMAIN s /\ Finite(S) /\ DOMAIN s = 1 .. Len(s) /\ Len(s) \in Nat
  BY PartFinite, SeqShape
<1>3. t \in Seq(X) /\ Len(t) = c
  BY <1>1, <1>2, AtSeq
<1>4. c \in Nat /\ t = [n \in 1 .. c |-> s[Nth(S, n)]]
  BY <1>1, <1>2, AtElements
<1>5. \A n \in 1 .. c : Nth(S, n) \in S
  BY <1>2, NthOfRank
<1>6. \A m, n \in 1 .. c : m < n => Nth(S, m) < Nth(S, n)
  BY <1>2, NthGrows
<1> DEFINE e(n) == Nth(S, n)
<1>7. \A n \in 1 .. c : /\ e(n) \in 1 .. Len(s) /\ t[n] = s[e(n)]
                        /\ \A j \in 1 .. e(n) - 1 : s[j] # s[e(n)]
  BY <1>2, <1>4, <1>5
<1> HIDE DEF e, S, c, t
<1>8. \A m, n \in 1 .. c : m < n => t[m] # t[n]
  <2> TAKE m, n \in 1 .. c
  <2> HAVE m < n
  <2>1. e(m) < e(n) /\ e(m) \in 1 .. Len(s) /\ e(n) \in 1 .. Len(s)
    BY <1>6, <1>7 DEF e
  <2>2. e(m) \in 1 .. e(n) - 1
    BY <1>2, <2>1
  <2>3. QED
    BY <1>7, <2>2
<1>9. DOMAIN t = 1 .. c
  BY <1>4
<1>10. T = 1 .. c
  <2>1. \A i \in 1 .. c : \A j \in 1 .. i - 1 : t[j] # t[i]
    BY <1>4, <1>8
  <2>2. QED
    BY <1>9, <2>1
<1>11. Dedup(t) = At(t, 1 .. c)
  BY <1>10 DEF Dedup
<1>12. At(t, 1 .. c) = [i \in 1 .. c |-> t[i]]
  BY <1>4, AtAll
<1>13. t = [i \in 1 .. c |-> t[i]]
  BY <1>9, <1>3, SeqShape
<1>14. QED
  BY <1>3, <1>11, <1>12, <1>13 DEF t

\* From h to x only the file k changes.
ModulesOnly(h, x, k) == ModulesFile(x) /\ SameBut(Path, h.file, x.file, {k})

ModulesAt(x, k, v) == k \in Path => x.file[k] = v

\* Writing one modules-load file leaves the others.
LEMMA ModulesSet ==
    ASSUME NEW h, ModulesFile(h), NEW k, NEW v
    PROVE  ModulesOnly(h, [h EXCEPT !.file[k] = v], k) /\ ModulesAt([h EXCEPT !.file[k] = v], k, v)
<1> DEFINE f == [h.file EXCEPT ![k] = v]
           w == [h EXCEPT !.file[k] = v]
<1>1. h = [file |-> h.file, live |-> h.live] /\ h.file = [x \in Path |-> h.file[x]]
  BY DEF ModulesFile
<1>2. f = [x \in Path |-> f[x]] /\ SameBut(Path, h.file, f, {k}) /\ (k \in Path => f[k] = v)
  BY <1>1 DEF SameBut
<1>3. w = [h EXCEPT !.file = f]
  OBVIOUS
<1> HIDE DEF f
<1>4. w = [file |-> f, live |-> h.live]
  BY <1>1, <1>3
<1> HIDE DEF w
<1>5. QED
  BY <1>2, <1>4 DEF ModulesOnly, ModulesFile, ModulesAt, w, f

ModulesDone(p, o) ==
    LET ms == Dedup(p.v)
    IN o.out = [k |-> p.k, v |-> ms] /\ o.h.file[p.k] = ms /\ ToSet(ms) \subseteq o.h.live

\* A kernel_modules plan that is reported is on disk and loaded; the other files stay, wherever it stops.
LEMMA ModulesApplied ==
    ASSUME NEW h, ModulesFile(h), NEW p, p.k \in Path, NEW X, p.v \in Seq(X), NEW o \in applyKernelModules(h, p)
    PROVE  ModulesOnly(h, o.h, p.k) /\ (o.out = Failed \/ ModulesDone(p, o))
<1> DEFINE ms == Dedup(p.v)
           w == [h EXCEPT !.file[p.k] = ms]
           load(n) == [w EXCEPT !.live = @ \cup ToSet(SubSeq(ms, 1, n))]
           steps == [n \in 1 .. Len(ms) |-> load(n)]
           S == {h, w} \cup {load(n) : n \in 1 .. Len(ms)}
           one == <<h, w>>
           hs == one \o steps
           out == [k |-> p.k, v |-> ms]
           f == [h.file EXCEPT ![p.k] = ms]
<1>1. ms \in Seq(X)
  BY DedupTwice
<1>2. o \in Run(hs, out)
  BY DEF applyKernelModules, normalizeKernelModules
<1> HIDE DEF ms
<1>3. ModulesOnly(h, w, p.k) /\ w.file[p.k] = ms /\ w = [file |-> f, live |-> h.live]
  <2>1. ModulesOnly(h, w, p.k) /\ ModulesAt(w, p.k, ms)
    BY ModulesSet
  <2>2. w = [file |-> f, live |-> h.live]
    <3>1. h = [file |-> h.file, live |-> h.live]
      BY DEF ModulesFile
    <3>2. w = [h EXCEPT !.file = f]
      OBVIOUS
    <3> HIDE DEF w, f
    <3>3. QED
      BY <3>1, <3>2
  <2>3. QED
    BY <2>1, <2>2 DEF ModulesAt
<1> HIDE DEF w, f
<1>4. \A n : load(n) = [file |-> f, live |-> h.live \cup ToSet(SubSeq(ms, 1, n))]
  <2> TAKE n
  <2> DEFINE l == ToSet(SubSeq(ms, 1, n))
             a == w.live \cup l
  <2>1. load(n) = [w EXCEPT !.live = a]
    OBVIOUS
  <2>2. a = h.live \cup l
    BY <1>3
  <2> HIDE DEF a
  <2>3. [w EXCEPT !.live = a] = [file |-> f, live |-> a]
    BY <1>3
  <2>4. QED
    BY <2>1, <2>2, <2>3
<1>5. f = w.file
  BY <1>3
<1>6. \A n : ModulesOnly(h, load(n), p.k) /\ load(n).file[p.k] = ms /\ load(n).live = h.live \cup ToSet(SubSeq(ms, 1, n))
  <2> TAKE n
  <2> DEFINE x == load(n)
  <2>1. x = [file |-> f, live |-> h.live \cup ToSet(SubSeq(ms, 1, n))]
    BY <1>4
  <2> HIDE DEF x
  <2>2. x.file = w.file /\ x = [file |-> x.file, live |-> x.live]
    BY <1>5, <2>1
  <2>3. ModulesOnly(h, x, p.k)
    BY <1>3, <2>2 DEF ModulesOnly, ModulesFile
  <2>4. QED
    BY <1>3, <2>1, <2>2, <2>3 DEF x
<1>7. ModulesOnly(h, h, p.k)
  BY DEF ModulesOnly, SameBut
<1> DEFINE m == Len(ms)
<1>8. m \in Nat /\ SubSeq(ms, 1, m) = ms
  BY <1>1
<1>9. steps \in [1 .. m -> S]
  OBVIOUS
<1>10. one \in Seq(S) /\ Len(one) > 0 /\ one[Len(one)] = w
  OBVIOUS
<1> HIDE DEF load, one
<1>11. m # 0 => steps[m] = load(m)
  BY <1>8
<1>15. \A x \in S : x = h \/ x = w \/ \E n : x = load(n)
  OBVIOUS
<1> HIDE DEF steps, S
<1>12. /\ hs \in Seq(S) /\ Len(hs) > 0
       /\ m = 0 => hs[Len(hs)] = w
       /\ m # 0 => hs[Len(hs)] = load(m)
  <2> DEFINE d == Len(ms)
  <2>1. d \in Nat /\ steps \in [1 .. d -> S]
    BY <1>8, <1>9
  <2> HIDE DEF d
  <2>2. hs \in Seq(S) /\ Len(hs) > 0
    BY <1>10, <2>1, Follow
  <2>3. CASE d = 0
    <3>1. hs[Len(hs)] = one[Len(one)]
      BY <1>10, <2>1, <2>3, Follow
    <3>2. QED
      BY <1>10, <2>2, <2>3, <3>1 DEF d
  <2>4. CASE d # 0
    <3>1. hs[Len(hs)] = steps[d]
      BY <1>10, <2>1, <2>4, Follow
    <3>2. QED
      BY <1>11, <2>2, <2>4, <3>1 DEF d
  <2>5. QED
    BY <2>3, <2>4
<1> HIDE DEF hs, out
<1>13. o.h \in S /\ (o.out = Failed \/ (o.h = hs[Len(hs)] /\ o.out = out))
  BY <1>2, <1>12, RunOf
<1>14. ModulesOnly(h, o.h, p.k)
  BY <1>3, <1>6, <1>7, <1>13, <1>15
<1>16. ToSet(ms) \subseteq hs[Len(hs)].live /\ hs[Len(hs)].file[p.k] = ms
  <2>1. CASE m = 0
    <3>1. DOMAIN ms = {}
      BY <1>1, <2>1
    <3>2. ToSet(ms) = {}
      BY <3>1 DEF ToSet
    <3>3. QED
      BY <1>3, <1>12, <2>1, <3>2
  <2>2. CASE m # 0
    <3>1. load(m).live = h.live \cup ToSet(ms)
      BY <1>6, <1>8
    <3>2. QED
      BY <1>6, <1>12, <2>2, <3>1
  <2>3. QED
    BY <2>1, <2>2
<1>17. QED
  BY <1>13, <1>14, <1>16 DEF ModulesDone, out, ms

\* The kernel_modules pack does what is asked of it.
LEMMA ModulesServed == Served("kernel_modules")
<1> DEFINE t == "kernel_modules"
           Words == {"m", "n"}
<1>1. \A h : Holds(t, h) <=> ModulesFile(h)
  BY DEF Holds
<1>2. \A s : Fits(t, s) <=> ModulesState(s)
  BY DEF Fits
<1>3. \A h, s, p : /\ CreateOp(t, h, p) = applyKernelModules(h, p) /\ UpdateOp(t, h, s, p) = applyKernelModules(h, p)
                   /\ DeleteOp(t, h, s) = ModulesDelete(h, s) /\ ReadOp(t, h, s) = ModulesRead(h, s)
                   /\ Plans(t) = ModulesPlan /\ Hosts(t) = ModulesHost
  BY DEF CreateOp, UpdateOp, DeleteOp, ReadOp, Plans, Hosts
<1>0. ImportIds(t) = {[k |-> p.k] : p \in ModulesPlan}
  BY <1>3, Zenon DEF ImportIds
<1>4. \A h, ids : Kept(t, h, ids) = TableOf(Path, h.file, ids)
  BY DEF Kept, TableOf
<1>5. \A p \in ModulesPlan : ModulesState(p) /\ p.v \in Seq(Words)
  <2>1. <<"m">> \in Seq(Words) /\ <<"n", "m", "n">> \in Seq(Words)
    OBVIOUS
  <2>2. \A p \in ModulesPlan : ModulesState(p) /\ p.v \in {<<"m">>, <<"n", "m", "n">>}
    BY DEF ModulesPlan, ModulesState
  <2>3. QED
    BY <2>1, <2>2
<1>6. Starts(t)
  <2>1. \A h \in ModulesHost : ModulesFile(h)
    BY DEF ModulesHost, ModulesFile
  <2>2. QED
    BY <1>1, <1>2, <1>3, <1>5, <2>1 DEF Starts
<1>7. ASSUME NEW h, NEW x, NEW k, ModulesOnly(h, x, k), NEW K, k \in K
      PROVE  Holds(t, x) /\ KeyOnly(t, h, x, K)
  <2>1. SameBut(Path, h.file, x.file, K)
    BY <1>7 DEF ModulesOnly, SameBut
  <2>2. ASSUME NEW ids, \A j \in K : <<j>> \in ids PROVE Kept(t, x, ids) = Kept(t, h, ids)
    BY <1>4, <2>1, <2>2, TableRest
  <2>3. ASSUME NEW s, ModulesState(s), s.k \notin K PROVE ReadOp(t, x, s) = ReadOp(t, h, s)
    <3>1. h.file[s.k] = x.file[s.k]
      BY <2>1, <2>3 DEF SameBut, ModulesState
    <3>2. QED
      BY <1>3, <3>1 DEF ModulesRead
  <2>4. QED
    BY <1>1, <1>2, <1>7, <2>2, <2>3 DEF KeyOnly, ModulesOnly
<1>9. ASSUME NEW h, ModulesFile(h), NEW p \in ModulesPlan, NEW o \in applyKernelModules(h, p), NEW K, p.k \in K
      PROVE  KeySafe(t, h, K, o)
  <2>1. p.k \in Path /\ p.v \in Seq(Words)
    BY <1>5 DEF ModulesState
  <2> DEFINE W == Words
  <2>2. p.v \in Seq(W)
    BY <2>1
  <2> HIDE DEF W
  <2>3. ModulesOnly(h, o.h, p.k) /\ (o.out = Failed \/ ModulesDone(p, o))
    BY <1>9, <2>1, <2>2, ModulesApplied
  <2>4. Holds(t, o.h) /\ KeyOnly(t, h, o.h, K)
    BY <1>7, <1>9, <2>3
  <2> DEFINE ms == Dedup(p.v)
  <2>5. ms \in Seq(W) /\ Dedup(ms) = ms
    BY <2>2, DedupTwice
  <2>6. MarksApart => ms # Nil
    <3>1. ms = [i \in DOMAIN ms |-> ms[i]]
      BY <2>5, SeqShape
    <3>2. QED
      BY <3>1 DEF MarksApart
  <2>7. ModulesDone(p, o) => o.out = [k |-> p.k, v |-> ms] /\ o.h.file[p.k] = ms /\ ToSet(ms) \subseteq o.h.live
    BY DEF ModulesDone
  <2> HIDE DEF ms
  <2>8. ASSUME ModulesDone(p, o) PROVE Reported(t, o.h, o.out) /\ o.out.k \in K
    <3> DEFINE x == [k |-> p.k, v |-> ms]
    <3>1. x.k = p.k /\ x.v = ms /\ ModulesState(x)
      BY <2>1 DEF ModulesState
    <3> HIDE DEF x
    <3>2. InEffect(t, o.h, x)
      BY <2>7, <2>8, <3>1 DEF InEffect
    <3>3. MarksApart => ModulesRead(o.h, x) = x
      BY <2>5, <2>6, <2>7, <2>8, <3>1 DEF ModulesRead, parseKernelModulesContent, x
    <3>4. o.out = x
      BY <2>7, <2>8 DEF x
    <3>5. QED
      BY <1>2, <1>3, <1>9, <3>1, <3>2, <3>3, <3>4 DEF Reported
  <2>9. QED
    BY <2>3, <2>4, <2>8 DEF KeySafe, IsState
<1>11. KeyedOps(t)
  <2>1. ASSUME NEW h, ModulesFile(h), NEW s, ModulesState(s), NEW o \in ModulesDelete(h, s)
        PROVE  KeySafe(t, h, {s.k}, o) /\ Gone(t, o, s)
    <3> DEFINE w == [h EXCEPT !.file[s.k] = Nil]
    <3>1. s.k \in Path /\ s.k \in {s.k}
      BY <2>1 DEF ModulesState
    <3>2. ModulesOnly(h, w, s.k) /\ ModulesAt(w, s.k, Nil)
      BY <2>1, ModulesSet
    <3>3. ModulesOnly(h, h, s.k)
      BY <2>1 DEF ModulesOnly, SameBut
    <3>4. \/ h.file[s.k] = Nil /\ o \in Answers(h, Nil)
          \/ o \in Run(<<h, w>>, Nil)
      BY <2>1 DEF ModulesDelete
    <3> HIDE DEF w
    <3>5. o.h \in {h, w} /\ o.out \in {Nil, Failed} /\ (o.out = Failed \/ o.h.file[s.k] = Nil)
      BY <3>1, <3>2, <3>4, RunOfTwo, AnswerOutcome DEF ModulesAt
    <3>6. Holds(t, o.h) /\ KeyOnly(t, h, o.h, {s.k})
      BY <1>7, <3>1, <3>2, <3>3, <3>5
    <3>7. KeySafe(t, h, {s.k}, o)
      BY <3>5, <3>6 DEF KeySafe, IsState
    <3>8. o.h.file[s.k] = Nil => ModulesRead(o.h, s) = Nil
      BY DEF ModulesRead
    <3>9. Gone(t, o, s)
      BY <1>3, <3>5, <3>8 DEF Gone, MarksApart
    <3>10. QED
      BY <3>7, <3>9
  <2>4. ASSUME NEW h, NEW s, ModulesState(s) \/ s \in ImportIds(t), IsState(ModulesRead(h, s))
        PROVE  /\ ModulesState(ModulesRead(h, s)) /\ ModulesRead(h, s).k = s.k
               /\ ModulesRead(h, ModulesRead(h, s)) = ModulesRead(h, s)
    <3>1. s.k \in Path
      <4>1. CASE ModulesState(s)
        BY <4>1 DEF ModulesState
      <4>2. ASSUME NEW q \in ModulesPlan, s = [k |-> q.k] PROVE s.k = q.k /\ q.k \in Path
        BY <1>5, <4>2 DEF ModulesState
      <4>3. QED
        BY <1>0, <2>4, <4>1, <4>2
    <3> DEFINE v == parseKernelModulesContent(h.file[s.k])
               x == [k |-> s.k, v |-> v]
    <3>2. h.file[s.k] # Nil /\ ModulesRead(h, s) = x
      BY <2>4 DEF ModulesRead, IsState
    <3> HIDE DEF v
    <3>3. ModulesState(x) /\ x.k = s.k
      BY <3>1 DEF ModulesState
    <3>4. ModulesRead(h, x) = x
      BY <3>2 DEF ModulesRead, v
    <3>5. QED
      BY <3>2, <3>3, <3>4
  <2>5. QED
    BY <1>1, <1>2, <1>3, <1>9, <2>1, <2>4 DEF KeyedOps
<1>12. t \in Keyed
  BY DEF Keyed, KeyedTypes, Types, FileTypes, SystemTypes
<1>13. QED
  BY <1>6, <1>11, <1>12, KeyedServed

-----------------------------------------------------------------------------
(* package_lock *)

\* The packages that are held or released.
LockNames == {"a", "b", "c"}

\* The host with the locks of X taken or given up.
After(h, ensure, X) == IF ensure = "present" THEN h.held \cup X ELSE h.held \ X
LockedHost(h, ensure, X) == [pm |-> h.pm, held |-> After(h, ensure, X)]

\* One of the hosts a change of the locks pkgs passes through.
OnTheWay(h, ensure, pkgs, x) == \E X \in SUBSET pkgs : x = LockedHost(h, ensure, X)

\* An order of some packages names each of them.
LEMMA Permuted ==
    ASSUME NEW pkgs \in SUBSET LockNames, NEW order \in SetToSeqs(pkgs)
    PROVE  /\ Len(order) \in Nat /\ order \in [1 .. Len(order) -> pkgs]
           /\ {order[j] : j \in 1 .. Len(order)} = pkgs
<1> DEFINE n == Cardinality(pkgs)
<1>1. IsFiniteSet(LockNames)
  <2>1. \A x : IsFiniteSet({x})
    BY FS_Singleton
  <2>2. LockNames = ({"a"} \cup {"b"}) \cup {"c"}
    BY DEF LockNames
  <2>3. IsFiniteSet({"a"} \cup {"b"})
    BY <2>1, FS_Union
  <2>4. QED
    BY <2>1, <2>2, <2>3, FS_Union
<1>2. IsFiniteSet(pkgs) /\ n \in Nat
  BY <1>1, FS_Subset, FS_CardinalityType
<1>3. order \in [1 .. n -> pkgs] /\ \A i, j \in 1 .. n : i # j => order[i] # order[j]
  BY DEF SetToSeqs
<1> HIDE DEF n
<1>4. Len(order) = n
  BY <1>2, <1>3
<1>5. IsFiniteSet(1 .. n) /\ Cardinality(1 .. n) = n
  BY <1>2, FiniteUpTo DEF Finite
<1>6. order \in Injection(1 .. n, pkgs)
  BY <1>3 DEF Injection, IsInjective
<1>7. order \in Surjection(1 .. n, pkgs)
  BY <1>2, <1>5, <1>6, FS_Injection DEF n
<1>8. \A x \in pkgs : \E j \in 1 .. n : order[j] = x
  BY <1>7 DEF Surjection
<1>9. QED
  BY <1>2, <1>3, <1>4, <1>8

\* Packages are held or released one by one, in some order: every host on the way has some of them done,
\* and the last one all.
LEMMA LockSteps ==
    ASSUME NEW h, LockTable(h), NEW pkgs \in SUBSET LockNames, NEW ensure, NEW hs \in changePackageLocks(h, pkgs, ensure)
    PROVE  /\ Len(hs) \in Nat /\ Len(hs) > 0
           /\ \A i \in 1 .. Len(hs) : OnTheWay(h, ensure, pkgs, hs[i])
           /\ hs[Len(hs)] = LockedHost(h, ensure, pkgs)
<1> DEFINE after(done) == [h EXCEPT !.held = IF ensure = "present" THEN @ \cup done ELSE @ \ done]
<1>1. \A X : after(X) = LockedHost(h, ensure, X)
  <2> TAKE X
  <2> DEFINE a == After(h, ensure, X)
  <2>1. after(X) = [h EXCEPT !.held = a]
    BY DEF After
  <2>2. h = [pm |-> h.pm, held |-> h.held]
    BY DEF LockTable
  <2> HIDE DEF a
  <2>3. [h EXCEPT !.held = a] = [pm |-> h.pm, held |-> a]
    BY <2>2
  <2>4. QED
    BY <2>1, <2>3 DEF LockedHost, a
<1>2. LockedHost(h, ensure, {}) = h
  BY DEF LockTable, LockedHost, After
<1>3. IF h.pm = "apt" THEN hs = IF after(pkgs) = h THEN <<h>> ELSE <<h, after(pkgs)>>
      ELSE \E order \in SetToSeqs(pkgs) : hs = [i \in 1 .. Len(order) + 1 |-> after({order[j] : j \in 1 .. i - 1})]
  BY Zenon DEF changePackageLocks
<1> HIDE DEF after
<1>4. CASE h.pm = "apt"
  <2>1. CASE after(pkgs) = h
    <3>1. hs = <<h>> /\ h = LockedHost(h, ensure, pkgs)
      BY <1>1, <1>3, <1>4, <2>1
    <3>2. OnTheWay(h, ensure, pkgs, h)
      BY <3>1 DEF OnTheWay
    <3>3. QED
      BY <3>1, <3>2
  <2>2. CASE after(pkgs) # h
    <3> DEFINE x == LockedHost(h, ensure, pkgs)
    <3>1. hs = <<h, x>>
      BY <1>1, <1>3, <1>4, <2>2
    <3>2. OnTheWay(h, ensure, pkgs, h) /\ OnTheWay(h, ensure, pkgs, x)
      BY <1>2 DEF OnTheWay
    <3> HIDE DEF x
    <3>3. Len(hs) = 2 /\ hs[1] = h /\ hs[2] = x
      BY <3>1
    <3>4. QED
      BY <3>2, <3>3 DEF x
  <2>3. QED
    BY <2>1, <2>2
<1>5. CASE h.pm # "apt"
  <2>1. PICK order \in SetToSeqs(pkgs) : hs = [i \in 1 .. Len(order) + 1 |-> after({order[j] : j \in 1 .. i - 1})]
    BY <1>3, <1>5
  <2> DEFINE n == Len(order)
             part(i) == {order[j] : j \in 1 .. i - 1}
             hostAt(i) == LockedHost(h, ensure, part(i))
  <2>2. n \in Nat /\ order \in [1 .. n -> pkgs] /\ part(n + 1) = pkgs
    <3>1. Len(order) \in Nat /\ order \in [1 .. Len(order) -> pkgs] /\ {order[j] : j \in 1 .. Len(order)} = pkgs
      BY Permuted
    <3>2. 1 .. n = 1 .. (n + 1) - 1
      BY <3>1
    <3>3. QED
      BY <3>1, <3>2
  <2> HIDE DEF n
  <2>3. hs = [i \in 1 .. n + 1 |-> hostAt(i)]
    BY <1>1, <2>1 DEF n
  <2>4. \A i \in 1 .. n + 1 : part(i) \in SUBSET pkgs
    BY <2>2
  <2> HIDE DEF part
  <2>5. \A i \in 1 .. n + 1 : OnTheWay(h, ensure, pkgs, hostAt(i))
    BY <2>4 DEF OnTheWay
  <2>6. hostAt(n + 1) = LockedHost(h, ensure, pkgs)
    BY <2>2
  <2> HIDE DEF hostAt
  <2>7. Len(hs) = n + 1
    BY <2>2, <2>3
  <2>8. QED
    BY <2>2, <2>3, <2>5, <2>6, <2>7
<1>6. QED
  BY <1>4, <1>5

\* A run over packages stops on the way or does them all.
LEMMA LockRun ==
    ASSUME NEW h, LockTable(h), NEW pkgs \in SUBSET LockNames, NEW ensure, NEW hs \in changePackageLocks(h, pkgs, ensure),
           NEW out, NEW o \in Run(hs, out)
    PROVE  OnTheWay(h, ensure, pkgs, o.h) /\ (o.out = Failed \/ (o.out = out /\ o.h = LockedHost(h, ensure, pkgs)))
<1>1. /\ Len(hs) \in Nat /\ Len(hs) > 0 /\ DOMAIN hs = 1 .. Len(hs)
      /\ \A i \in 1 .. Len(hs) : OnTheWay(h, ensure, pkgs, hs[i])
      /\ hs[Len(hs)] = LockedHost(h, ensure, pkgs)
  BY LockSteps
<1>2. \/ \E i \in 1 .. Len(hs) : o = Outcome(hs[i], Failed)
      \/ o = Outcome(hs[Len(hs)], out)
  BY <1>1 DEF Run, Last
<1>4. Len(hs) \in 1 .. Len(hs)
  BY <1>1
<1>5. QED
  BY <1>1, <1>2, <1>4 DEF Outcome

\* From h to x only the locks K change.
LockOnly(h, x, K) == LockTable(x) /\ x.held \ K = h.held \ K

\* On the way over some packages, only the locks of those change.
LEMMA WayOnly ==
    ASSUME NEW h, NEW K, NEW x, LockOnly(h, x, K), NEW ensure, NEW pkgs, pkgs \subseteq K, NEW y, OnTheWay(x, ensure, pkgs, y)
    PROVE  LockOnly(h, y, K)
<1>1. PICK X \in SUBSET pkgs : y = LockedHost(x, ensure, X)
  BY DEF OnTheWay
<1>2. y = [pm |-> x.pm, held |-> After(x, ensure, X)]
  BY <1>1 DEF LockedHost
<1>3. LockTable(y) /\ y.held = After(x, ensure, X)
  BY <1>2 DEF LockTable
<1>4. After(x, ensure, X) \ K = x.held \ K
  BY DEF After
<1>5. QED
  BY <1>3, <1>4 DEF LockOnly

\* What is known of the locks when an operation reports the state p.
LockDone(p, o) ==
    /\ o.out = p
    /\ p.ensure = "present" => p.pkgs \subseteq o.h.held

\* A package_lock plan that is reported holds or releases its packages; the other locks stay, wherever it stops.
LEMMA LockApplied ==
    ASSUME NEW h, LockTable(h), NEW p, LockState(p), NEW s, NEW K, K \in SUBSET LockNames,
           p.pkgs \subseteq K, s = Nil \/ s.pkgs \subseteq K, NEW o \in applyPackageLock(h, s, p)
    PROVE  LockOnly(h, o.h, K) /\ (o.out = Failed \/ LockDone(p, o))
<1> DEFINE missing == p.pkgs \ currentPackageLocks(h, p.pkgs)
           managed == IF s = Nil THEN p.pkgs ELSE p.pkgs \cup s.pkgs
           given == currentPackageLocks(h, managed)
           left == packagesToUnlock(h, s, p)
           locked == LockedHost(h, "present", missing)
<1>1. missing \subseteq K /\ given \subseteq K /\ left \subseteq K /\ left \cap p.pkgs = {}
  BY DEF currentPackageLocks, packagesToUnlock
<1>2. p.pkgs \subseteq h.held \cup missing
  BY DEF currentPackageLocks
<1>3. LockOnly(h, h, K)
  BY DEF LockOnly
<1>4. CASE p.ensure # "present"
  <2>1. \/ o = Outcome(h, Failed)
        \/ \E hs \in changePackageLocks(h, given, "absent") : o \in Run(hs, p)
    BY <1>4 DEF applyPackageLock
  <2> HIDE DEF given
  <2>2. CASE o = Outcome(h, Failed)
    BY <1>3, <2>2 DEF Outcome
  <2>3. ASSUME NEW hs \in changePackageLocks(h, given, "absent"), o \in Run(hs, p)
        PROVE  LockOnly(h, o.h, K) /\ o.out \in {Failed, p}
    <3>1. given \in SUBSET LockNames
      BY <1>1
    <3>2. OnTheWay(h, "absent", given, o.h) /\ o.out \in {Failed, p}
      BY <2>3, <3>1, LockRun
    <3>3. QED
      BY <1>1, <1>3, <3>2, WayOnly
  <2>4. QED
    BY <1>4, <2>1, <2>2, <2>3 DEF LockDone, Outcome
<1>5. CASE p.ensure = "present"
  <2>1. \/ o = Outcome(h, Failed)
        \/ \E hs \in changePackageLocks(h, missing, "present") :
              o \in Then(hs, UNION {Run(gs, p) : gs \in changePackageLocks(Last(hs), left, "absent")})
    BY <1>5 DEF applyPackageLock
  <2> HIDE DEF missing, left
  <2>2. CASE o = Outcome(h, Failed)
    BY <1>3, <2>2 DEF Outcome
  <2>3. ASSUME NEW hs \in changePackageLocks(h, missing, "present"),
               o \in Then(hs, UNION {Run(gs, p) : gs \in changePackageLocks(Last(hs), left, "absent")})
        PROVE  LockOnly(h, o.h, K) /\ (o.out = Failed \/ LockDone(p, o))
    <3>1. missing \in SUBSET LockNames /\ left \in SUBSET LockNames
      BY <1>1
    <3>2. /\ Len(hs) \in Nat /\ Len(hs) > 0
          /\ \A i \in 1 .. Len(hs) : OnTheWay(h, "present", missing, hs[i])
          /\ hs[Len(hs)] = locked
      BY <3>1, LockSteps
    <3>3. Last(hs) = locked
      BY <3>2 DEF Last
    <3>4. \A i \in 1 .. Len(hs) : LockOnly(h, hs[i], K)
      BY <1>1, <1>3, <3>2, WayOnly
    <3>5. Len(hs) \in 1 .. Len(hs) /\ \A i \in 1 .. Len(hs) - 1 : i \in 1 .. Len(hs)
      BY <3>2
    <3>6. LockOnly(h, locked, K) /\ p.pkgs \subseteq locked.held
      <4>1. LockOnly(h, locked, K)
        BY <3>2, <3>4, <3>5
      <4>2. locked.held = h.held \cup missing
        BY DEF LockedHost, After
      <4>3. QED
        BY <1>2, <4>1, <4>2
    <3> HIDE DEF locked
    <3>7. \/ \E i \in 1 .. Len(hs) - 1 : o = Outcome(hs[i], Failed)
          \/ \E gs \in changePackageLocks(locked, left, "absent") : o \in Run(gs, p)
      BY <2>3, <3>3 DEF Then
    <3>8. ASSUME NEW gs \in changePackageLocks(locked, left, "absent"), o \in Run(gs, p)
          PROVE  LockOnly(h, o.h, K) /\ (o.out = Failed \/ LockDone(p, o))
      <4>1. LockTable(locked)
        BY <3>6 DEF LockOnly
      <4>2. OnTheWay(locked, "absent", left, o.h)
        BY <3>1, <3>8, <4>1, LockRun
      <4>3. o.out = Failed \/ (o.out = p /\ o.h = LockedHost(locked, "absent", left))
        BY <3>1, <3>8, <4>1, LockRun
      <4>4. LockedHost(locked, "absent", left).held = locked.held \ left
        BY DEF LockedHost, After
      <4>5. LockOnly(h, o.h, K)
        BY <1>1, <3>6, <4>2, WayOnly
      <4>6. QED
        BY <1>1, <3>6, <4>3, <4>4, <4>5 DEF LockDone
    <3>9. QED
      BY <3>4, <3>5, <3>7, <3>8 DEF Outcome
  <2>4. QED
    BY <2>1, <2>2, <2>3 DEF Outcome
<1>6. QED
  BY <1>4, <1>5

\* Deleting a package_lock releases its packages and no others.
LEMMA LockGone ==
    ASSUME NEW h, LockTable(h), NEW s, LockState(s), NEW o \in LockDelete(h, s)
    PROVE  LockOnly(h, o.h, s.pkgs) /\ (o.out = Failed \/ (o.out = Nil /\ o.h.held \cap s.pkgs = {}))
<1> DEFINE pkgs == s.pkgs
<1>1. pkgs \in SUBSET LockNames
  BY DEF LockState, LockNames
<1>2. LockOnly(h, h, pkgs)
  BY DEF LockOnly
<1>3. \/ o = Outcome(h, Failed)
      \/ \E hs \in changePackageLocks(h, pkgs, "absent") : o \in Run(hs, Nil)
  BY DEF LockDelete
<1> HIDE DEF pkgs
<1>4. ASSUME NEW hs \in changePackageLocks(h, pkgs, "absent"), o \in Run(hs, Nil)
      PROVE  LockOnly(h, o.h, pkgs) /\ (o.out = Failed \/ (o.out = Nil /\ o.h.held \cap pkgs = {}))
  <2>1. OnTheWay(h, "absent", pkgs, o.h) /\ (o.out = Failed \/ (o.out = Nil /\ o.h = LockedHost(h, "absent", pkgs)))
    BY <1>1, <1>4, LockRun
  <2>2. LockedHost(h, "absent", pkgs).held = h.held \ pkgs
    BY DEF LockedHost, After
  <2>3. LockOnly(h, o.h, pkgs)
    BY <1>2, <2>1, WayOnly
  <2>4. QED
    BY <2>1, <2>2, <2>3
<1>5. QED
  BY <1>2, <1>3, <1>4 DEF pkgs, Outcome

\* A state whose locks are all held reads as itself.
LEMMA LockReadHeld ==
    ASSUME NEW h, NEW s, LockState(s), s.ensure = "absent" \/ (s.pkgs # {} /\ s.pkgs \subseteq h.held)
    PROVE  LockRead(h, s) = s
<1>1. CASE s.ensure = "absent"
  BY <1>1 DEF LockRead
<1>2. CASE s.ensure # "absent"
  <2> DEFINE c == currentPackageLocks(h, s.pkgs)
  <2>1. c = s.pkgs /\ c # {}
    BY <1>2 DEF currentPackageLocks
  <2>2. LockRead(h, s) = [s EXCEPT !.pkgs = c]
    BY <1>2, <2>1 DEF LockRead
  <2>3. s = [pkgs |-> s.pkgs, ensure |-> s.ensure]
    BY DEF LockState
  <2> HIDE DEF c
  <2>4. [s EXCEPT !.pkgs = c] = s
    BY <2>1, <2>3
  <2>5. QED
    BY <2>2, <2>4
<1>3. QED
  BY <1>1, <1>2

\* What a refresh reports of the locks of s.
LEMMA LockReadShape ==
    ASSUME NEW h, NEW s, LockState(s), NEW x, x = LockRead(h, s), IsState(x)
    PROVE  LockState(x) /\ x.pkgs \subseteq s.pkgs /\ (x.ensure = "absent" \/ (x.pkgs # {} /\ x.pkgs \subseteq h.held))
<1>1. CASE s.ensure = "absent"
  BY <1>1 DEF LockRead
<1>2. CASE s.ensure # "absent"
  <2> DEFINE c == currentPackageLocks(h, s.pkgs)
  <2>1. c # {} /\ x = [s EXCEPT !.pkgs = c]
    BY <1>2 DEF LockRead, IsState
  <2>2. s = [pkgs |-> s.pkgs, ensure |-> s.ensure]
    BY DEF LockState
  <2>3. c \subseteq s.pkgs /\ c \subseteq h.held
    BY DEF currentPackageLocks
  <2> HIDE DEF c
  <2>4. x = [pkgs |-> c, ensure |-> s.ensure]
    BY <2>1, <2>2
  <2>5. x.pkgs = c /\ x.ensure = s.ensure
    BY <2>4
  <2>6. QED
    BY <2>1, <2>3, <2>4, <2>5 DEF LockState
<1>3. QED
  BY <1>1, <1>2

\* A change of the locks K is one of the objects ids, when they name K.
LEMMA LockSpares ==
    ASSUME NEW h, NEW x, NEW ids, NEW K, K \subseteq UNION {id[1] : id \in ids}, LockOnly(h, x, K)
    PROVE  Spares("package_lock", h, x, ids)
<1> DEFINE t == "package_lock"
           U == UNION {id[1] : id \in ids}
<1>1. \A y : Kept(t, y, ids) = y.held \ U
  BY DEF Kept
<1>2. x.held \ K = h.held \ K
  BY DEF LockOnly
<1>3. x.held \ U = h.held \ U
  BY <1>2
<1>4. JobsStay(t, h, x, ids)
  BY NoJobs
<1>5. ASSUME NEW s, Fits(t, s), Apart(t, s, ids), ReadOp(t, h, s) = s
      PROVE  ReadOp(t, x, s) = s
  <2>1. \A id \in ids : id[1] \cap s.pkgs = {}
    BY <1>5 DEF Apart
  <2>2. K \cap s.pkgs = {}
    BY <2>1
  <2>3. currentPackageLocks(x, s.pkgs) = currentPackageLocks(h, s.pkgs)
    BY <1>2, <2>2 DEF currentPackageLocks
  <2>4. LockRead(x, s) = LockRead(h, s)
    BY <2>3 DEF LockRead
  <2>5. QED
    BY <1>5, <2>4 DEF ReadOp
<1> HIDE DEF U
<1>6. Kept(t, x, ids) = Kept(t, h, ids)
  BY <1>1, <1>3
<1>7. QED
  BY <1>4, <1>5, <1>6 DEF Spares

\* The package_lock pack does what is asked of it.
LEMMA LockServed == Served("package_lock")
<1> DEFINE t == "package_lock"
<1>1. \A h : Holds(t, h) <=> LockTable(h)
  BY DEF Holds
<1>2. \A s : Fits(t, s) <=> LockState(s)
  BY DEF Fits
<1>3. \A h, s, p : /\ CreateOp(t, h, p) = applyPackageLock(h, Nil, p) /\ UpdateOp(t, h, s, p) = applyPackageLock(h, s, p)
                   /\ DeleteOp(t, h, s) = LockDelete(h, s) /\ ReadOp(t, h, s) = LockRead(h, s)
                   /\ Plans(t) = LockPlan /\ Hosts(t) = LockHost
  BY DEF CreateOp, UpdateOp, DeleteOp, ReadOp, Plans, Hosts
<1>4. ImportIds(t) = [pkgs : {{"a"}, {"a", "b"}}, ensure : {"present"}]
  BY Zenon DEF ImportIds
<1>5. \A s : IdOf(t, s) = <<s.pkgs>> /\ IdOf(t, s)[1] = s.pkgs
  BY DEF IdOf
<1>6. \A p \in LockPlan : LockState(p) /\ p.pkgs # {}
  BY DEF LockPlan, LockState
<1>7. Starts(t)
  <2>1. \A h \in LockHost : LockTable(h)
    BY DEF LockHost, LockTable
  <2>2. QED
    BY <1>1, <1>2, <1>3, <1>6, <2>1 DEF Starts
<1>8. \A s : LockState(s) => s.pkgs \in SUBSET LockNames
  BY DEF LockState, LockNames
<1>9. \A h, s : InEffect(t, h, s)
  BY DEF InEffect
<1>10. ASSUME NEW h, LockTable(h), NEW s, s = Nil \/ LockState(s), NEW p \in LockPlan, NEW o \in applyPackageLock(h, s, p),
              NEW ids, IdOf(t, p) \in ids, s # Nil => IdOf(t, s) \in ids
       PROVE  Fine(t, h, ids, o)
  <2> DEFINE K == IF s = Nil THEN p.pkgs ELSE p.pkgs \cup s.pkgs
  <2>1. LockState(p) /\ p.pkgs # {}
    BY <1>6
  <2>2. K \in SUBSET LockNames /\ p.pkgs \subseteq K /\ (s = Nil \/ s.pkgs \subseteq K)
    BY <1>8, <1>10, <2>1
  <2>3. K \subseteq UNION {id[1] : id \in ids}
    <3>1. p.pkgs \subseteq UNION {id[1] : id \in ids}
      BY <1>5, <1>10
    <3>2. s # Nil => s.pkgs \subseteq UNION {id[1] : id \in ids}
      BY <1>5, <1>10
    <3>3. QED
      BY <3>1, <3>2
  <2> HIDE DEF K
  <2>4. LockOnly(h, o.h, K) /\ (o.out = Failed \/ LockDone(p, o))
    BY <1>10, <2>1, <2>2, LockApplied
  <2>5. Holds(t, o.h)
    BY <1>1, <2>4 DEF LockOnly
  <2>6. Spares(t, h, o.h, ids)
    BY <2>3, <2>4, LockSpares
  <2>7. ASSUME IsState(o.out) PROVE Reported(t, o.h, o.out) /\ Among(t, o.out, ids)
    <3>1. LockDone(p, o)
      BY <2>4, <2>7 DEF IsState
    <3>2. o.out = p /\ (p.ensure = "absent" \/ p.pkgs \subseteq o.h.held)
      BY <2>1, <3>1 DEF LockDone, LockState
    <3>3. LockRead(o.h, p) = p
      BY <2>1, <3>2, LockReadHeld
    <3>4. Reported(t, o.h, p)
      BY <1>2, <1>3, <1>9, <2>1, <3>3 DEF Reported
    <3>5. Among(t, p, ids)
      BY <1>5, <1>10 DEF Among
    <3>6. QED
      BY <3>2, <3>4, <3>5
  <2>8. QED
    BY <2>5, <2>6, <2>7 DEF Fine
<1>11. Creates(t)
  <2>1. ASSUME NEW h, NEW p, Holds(t, h), p \in Plans(t), NEW o \in CreateOp(t, h, p)
        PROVE  Fine(t, h, {IdOf(t, p)}, o)
    <3> DEFINE s == Nil
    <3>1. o \in applyPackageLock(h, s, p) /\ p \in LockPlan /\ LockTable(h)
      BY <1>1, <1>3, <2>1
    <3>2. s = Nil
      OBVIOUS
    <3> HIDE DEF s
    <3>3. QED
      BY <1>10, <3>1, <3>2
  <2>2. QED
    BY <2>1 DEF Creates
<1>12. Updates(t)
  <2>1. ASSUME NEW h, NEW s, NEW p, Holds(t, h), Fits(t, s), p \in Plans(t), NEW o \in UpdateOp(t, h, s, p)
        PROVE  Fine(t, h, {IdOf(t, p), IdOf(t, s)}, o)
    <3>1. o \in applyPackageLock(h, s, p) /\ p \in LockPlan /\ LockTable(h) /\ LockState(s)
      BY <1>1, <1>2, <1>3, <2>1
    <3>2. QED
      BY <1>10, <3>1
  <2>2. QED
    BY <2>1 DEF Updates
<1>13. Deletes(t)
  <2>1. ASSUME NEW h, NEW s, Holds(t, h), Fits(t, s), NEW o \in DeleteOp(t, h, s)
        PROVE  Fine(t, h, {IdOf(t, s)}, o) /\ Gone(t, o, s)
    <3>1. LockTable(h) /\ LockState(s) /\ o \in LockDelete(h, s)
      BY <1>1, <1>2, <1>3, <2>1
    <3>2. LockOnly(h, o.h, s.pkgs) /\ (o.out = Failed \/ (o.out = Nil /\ o.h.held \cap s.pkgs = {}))
      BY <3>1, LockGone
    <3> DEFINE ids == {IdOf(t, s)}
               K == s.pkgs
    <3>3. K \subseteq UNION {id[1] : id \in ids}
      BY <1>5
    <3> HIDE DEF ids, K
    <3>4. Spares(t, h, o.h, ids)
      BY <3>2, <3>3, LockSpares DEF K
    <3>5. Holds(t, o.h)
      BY <1>1, <3>2 DEF LockOnly
    <3>6. Fine(t, h, ids, o)
      BY <3>2, <3>4, <3>5 DEF Fine, IsState
    <3>7. ASSUME MarksApart, ~isAbsentResourceState(s), o.out = Nil PROVE LockRead(o.h, s) = Nil
      <4>1. o.h.held \cap s.pkgs = {}
        BY <3>2, <3>7 DEF MarksApart
      <4>2. s.ensure # "absent"
        BY <3>1, <3>7 DEF isAbsentResourceState, LockState
      <4>3. currentPackageLocks(o.h, s.pkgs) = {}
        BY <4>1 DEF currentPackageLocks
      <4>4. QED
        BY <4>2, <4>3 DEF LockRead
    <3>8. Gone(t, o, s)
      BY <1>3, <3>7 DEF Gone
    <3>9. QED
      BY <3>6, <3>8 DEF ids
  <2>2. QED
    BY <2>1 DEF Deletes
<1>14. Reads(t)
  <2>1. ASSUME NEW h, NEW s, Holds(t, h), Fits(t, s) \/ s \in ImportIds(t), IsState(ReadOp(t, h, s))
        PROVE  /\ Fits(t, ReadOp(t, h, s)) /\ Among(t, ReadOp(t, h, s), {IdOf(t, s)})
               /\ ReadOp(t, h, ReadOp(t, h, s)) = ReadOp(t, h, s)
    <3>1. LockState(s)
      <4>1. \A q \in ImportIds(t) : LockState(q)
        <5>1. \A Q, E : \A q \in [pkgs : Q, ensure : E] : q = [pkgs |-> q.pkgs, ensure |-> q.ensure] /\ q.pkgs \in Q /\ q.ensure \in E
          OBVIOUS
        <5>2. ImportIds(t) = [pkgs : {{"a"}, {"a", "b"}}, ensure : {"present"}]
          BY <1>4
        <5>3. \A q \in [pkgs : {{"a"}, {"a", "b"}}, ensure : {"present"}] :
                q = [pkgs |-> q.pkgs, ensure |-> q.ensure] /\ q.pkgs \in {{"a"}, {"a", "b"}} /\ q.ensure \in {"present"}
          BY <5>1
        <5>4. \A q \in ImportIds(t) : /\ q = [pkgs |-> q.pkgs, ensure |-> q.ensure]
                                      /\ q.pkgs \in {{"a"}, {"a", "b"}} /\ q.ensure \in {"present"}
          BY <5>2, <5>3
        <5>5. \A P \in {{"a"}, {"a", "b"}} : P \subseteq {"a", "b", "c"}
          OBVIOUS
        <5>6. QED
          BY <5>4, <5>5 DEF LockState
      <4>2. QED
        BY <1>2, <2>1, <4>1
    <3> DEFINE x == LockRead(h, s)
    <3>2. IsState(x)
      BY <1>3, <2>1
    <3> HIDE DEF x
    <3>3. LockState(x) /\ x.pkgs \subseteq s.pkgs /\ (x.ensure = "absent" \/ (x.pkgs # {} /\ x.pkgs \subseteq h.held))
      BY <3>1, <3>2, LockReadShape DEF x
    <3>4. LockRead(h, x) = x
      BY <3>3, LockReadHeld
    <3>5. Among(t, x, {IdOf(t, s)})
      BY <1>5, <3>3 DEF Among
    <3>6. QED
      BY <1>2, <1>3, <3>3, <3>4, <3>5 DEF x
  <2>2. QED
    BY <2>1 DEF Reads
<1>15. QED
  BY <1>7, <1>11, <1>12, <1>13, <1>14 DEF Served

-----------------------------------------------------------------------------
(* sshd_config *)

\* The lines of upd are those of doc, only managed ones have another value.
SameLines(doc, upd) ==
    /\ DOMAIN upd = DOMAIN doc
    /\ \A i \in DOMAIN doc : upd[i].k = doc[i].k
    /\ \A i \in Unmanaged(doc) : upd[i] = doc[i]
Glued(new, upd, S, tail) == new = At(upd, S) \o tail
AllManaged(tail) == \A i \in DOMAIN tail : tail[i].k \in managedDirectives

\* Lines that others own stay, in their order, between the lines kept and those added.
LEMMA UnmanagedStay ==
    ASSUME NEW doc \in Text, NEW upd \in Text, SameLines(doc, upd),
           NEW S, Unmanaged(doc) \subseteq S, S \subseteq DOMAIN doc,
           NEW tail \in Text, AllManaged(tail), NEW new, Glued(new, upd, S, tail)
    PROVE  new \in Text /\ At(new, Unmanaged(new)) = At(doc, Unmanaged(doc))
<1> DEFINE kept == At(upd, S)
           c == Cardinality(S)
           U == Unmanaged(doc)
           T == Unmanaged(new)
           f == [i \in U |-> Rank(S, i)]
<1>1. Finite(S) /\ c \in Nat
  BY PartFinite, Ranks DEF Text, SameLines
<1>2. kept \in Text /\ Len(kept) = c
  BY AtSeq DEF Text, SameLines
<1>3. new \in Text /\ Len(new) = c + Len(tail) /\ Len(tail) \in Nat
  BY <1>1, <1>2, ConcatProperties, SeqShape DEF Text, Glued
<1>4. \A i \in 1 .. c + Len(tail) : new[i] = IF i <= c THEN kept[i] ELSE tail[i - c]
  BY <1>1, <1>2, <1>3, ConcatProperties DEF Text, Glued
<1>5. DOMAIN new = 1 .. c + Len(tail) /\ DOMAIN tail = 1 .. Len(tail)
  BY <1>3, SeqShape DEF Text
<1>6. /\ \A n \in 1 .. c : kept[n] = upd[Nth(S, n)] /\ Nth(S, n) \in S /\ Rank(S, Nth(S, n)) = n
      /\ \A i \in S : Rank(S, i) \in 1 .. c /\ kept[Rank(S, i)] = upd[i]
  BY <1>1, AtElements, NthOfRank, Ranks
<1> HIDE DEF kept, c
<1>7. U \subseteq DOMAIN doc /\ T \subseteq DOMAIN new
  BY DEF Unmanaged
<1>8. Finite(U) /\ Finite(T)
  BY <1>3, <1>7, PartFinite DEF Text
<1>9. \A i \in S : new[Rank(S, i)] = upd[i] /\ Rank(S, i) \in DOMAIN new
  BY <1>1, <1>3, <1>4, <1>5, <1>6
<1>10. f \in [U -> T]
  <2>1. \A i \in U : Rank(S, i) \in T
    BY <1>9 DEF Unmanaged, SameLines
  <2>2. QED
    BY <2>1
<1>11. \A i, j \in U : i < j => f[i] < f[j]
  BY <1>1, Ranks
<1>12. ASSUME NEW k \in T PROVE \E i \in U : f[i] = k
  <2>1. k \in 1 .. c + Len(tail) /\ new[k].k \notin managedDirectives
    BY <1>5, <1>12 DEF Unmanaged
  <2>2. k <= c
    <3>1. SUFFICES ASSUME ~(k <= c) PROVE FALSE
      OBVIOUS
    <3>2. k - c \in DOMAIN tail /\ new[k] = tail[k - c]
      BY <1>1, <1>3, <1>4, <1>5, <2>1, <3>1
    <3>3. QED
      BY <2>1, <3>2 DEF AllManaged
  <2>6. k \in 1 .. c
    BY <1>1, <2>1, <2>2
  <2>3. new[k] = upd[Nth(S, k)] /\ Nth(S, k) \in S /\ Rank(S, Nth(S, k)) = k
    BY <1>4, <1>6, <2>1, <2>2, <2>6
  <2>4. Nth(S, k) \in U
    BY <2>1, <2>3 DEF Unmanaged, SameLines
  <2>5. QED
    BY <2>3, <2>4
<1>13. \A i \in U : doc[i] = new[f[i]]
  BY <1>9 DEF SameLines
<1> HIDE DEF U, T, f
<1>14. At(doc, U) = At(new, T)
  BY <1>8, <1>10, <1>11, <1>12, <1>13, AtIso
<1>15. QED
  BY <1>3, <1>14 DEF U, T

\* The new sshd_config has the unmanaged directives of the old one, in their order.
LEMMA SshdRewritten ==
    ASSUME NEW doc \in Text, NEW p \in SshdPlan, NEW new \in SshdContents(doc, p)
    PROVE  new \in Text /\ At(new, Unmanaged(new)) = At(doc, Unmanaged(doc))
<1> DEFINE first(i) == \A j \in 1 .. i - 1 : doc[j].k # doc[i].k
           upd == [i \in DOMAIN doc |-> IF doc[i].k \in DOMAIN p THEN Entry(doc[i].k, p[doc[i].k]) ELSE doc[i]]
           S == Unmanaged(doc) \cup {i \in DOMAIN doc : doc[i].k \in DOMAIN p /\ first(i)}
           missing == {d \in DOMAIN p : ~HasEntry(doc, d)}
           tailOf(order) == [i \in DOMAIN order |-> Entry(order[i], p[order[i]])]
<1>1. PICK order \in SetToSeqs(missing) : new = At(upd, S) \o tailOf(order)
  BY DEF SshdContents
<1>2. DOMAIN p \subseteq managedDirectives /\ \A d \in DOMAIN p : p[d] \in Word
  <2>1. PICK D \in SUBSET managedDirectives : p \in [D -> {"1", "bad"}]
    BY DEF SshdPlan
  <2>2. QED
    BY <2>1 DEF Word
<1>3. managedDirectives \subseteq Word
  BY DEF managedDirectives, Word
<1>4. \A d \in DOMAIN p : /\ Entry(d, p[d]) \in Line /\ Entry(d, p[d]).k = d
  BY <1>2, <1>3, EntryLine
<1>5. upd \in Text /\ DOMAIN upd = DOMAIN doc
  <2>1. \A i \in DOMAIN doc : upd[i] \in Line
    <3>1. \A i \in DOMAIN doc : doc[i] \in Line
      BY SeqShape DEF Text
    <3>2. QED
      BY <1>4, <3>1
  <2>2. upd = [i \in DOMAIN doc |-> upd[i]]
    OBVIOUS
  <2> HIDE DEF upd
  <2>3. QED
    BY <2>1, <2>2, OnPositions DEF Text
<1>6. SameLines(doc, upd)
  BY <1>2, <1>4, <1>5 DEF Unmanaged, SameLines
<1>7. Unmanaged(doc) \subseteq S /\ S \subseteq DOMAIN doc
  BY DEF Unmanaged
<1> DEFINE n == Cardinality(missing)
           tail == tailOf(order)
<1>8. n \in Nat
  <2>1. IsFiniteSet(managedDirectives)
    <3>1. \A x : IsFiniteSet({x})
      BY FS_Singleton
    <3>2. managedDirectives = {"Port"} \cup {"Root"}
      BY DEF managedDirectives
    <3>3. QED
      BY <3>1, <3>2, FS_Union
  <2>2. missing \subseteq managedDirectives
    BY <1>2
  <2> HIDE DEF missing
  <2>3. IsFiniteSet(missing)
    BY <2>1, <2>2, FS_Subset
  <2>4. QED
    BY <2>3, FS_CardinalityType
<1>9. order \in [1 .. n -> missing]
  BY DEF SetToSeqs
<1> HIDE DEF n, upd, S
<1>10. tail \in Text /\ AllManaged(tail)
  <2> DEFINE e(i) == Entry(order[i], p[order[i]])
  <2>1. DOMAIN order = 1 .. n /\ \A i \in 1 .. n : order[i] \in DOMAIN p
    BY <1>9
  <2>2. tail = [i \in 1 .. n |-> e(i)] /\ \A i \in 1 .. n : e(i) \in Line /\ e(i).k \in managedDirectives
    BY <1>2, <1>4, <2>1
  <2> HIDE DEF e, tail
  <2>3. [i \in 1 .. n |-> e(i)] \in Seq(Line)
    BY <1>8, <2>2
  <2>4. QED
    BY <2>2, <2>3 DEF Text, AllManaged
<1> HIDE DEF tail
<1>11. Glued(new, upd, S, tail)
  BY <1>1 DEF tail, Glued
<1>12. QED
  BY <1>5, <1>6, <1>7, <1>10, <1>11, UnmanagedStay

\* Without the managed lines, the others are all there is.
LEMMA SshdCleared ==
    ASSUME NEW doc \in Text, NEW new, new = At(doc, Unmanaged(doc))
    PROVE  new \in Text /\ At(new, Unmanaged(new)) = At(doc, Unmanaged(doc))
<1>1. Unmanaged(doc) \subseteq DOMAIN doc
  BY DEF Unmanaged
<1>2. Finite(Unmanaged(doc))
  BY <1>1, PartFinite DEF Text
<1>3. new \in Text
  BY <1>1, AtSeq DEF Text
<1>4. Unmanaged(new) = DOMAIN new
  <2>1. \A n \in DOMAIN new : new[n] = doc[Nth(Unmanaged(doc), n)] /\ Nth(Unmanaged(doc), n) \in Unmanaged(doc)
    BY <1>2, AtElements
  <2>2. QED
    BY <2>1 DEF Unmanaged
<1>5. Len(new) \in Nat /\ DOMAIN new = 1 .. Len(new) /\ new = [i \in 1 .. Len(new) |-> new[i]]
  BY <1>3, SeqShape DEF Text
<1>6. At(new, DOMAIN new) = new
  BY <1>5, AtAll
<1>7. QED
  BY <1>3, <1>4, <1>6

\* Installing an sshd_config, also when sshd rejects it or the reload fails, keeps the unmanaged
\* directives, unless a file that cannot be replaced is cut short.
LEMMA SshdInstalled ==
    ASSUME NEW h, SshdFile(h), NEW doc \in Text, At(doc, Unmanaged(doc)) = At(h.doc, Unmanaged(h.doc)),
           NEW out, NEW o \in InstallSshd(h, doc, out)
    PROVE  SshdFile(o.h) /\ (At(o.h.doc, Unmanaged(o.h.doc)) = At(h.doc, Unmanaged(h.doc)) \/ Cut(h, o))
<1> DEFINE w == [h EXCEPT !.doc = doc]
           x == [w EXCEPT !.live = doc]
<1>1. w = [doc |-> doc, live |-> h.live, mount |-> h.mount]
  BY DEF SshdFile
<1> HIDE DEF w
<1>2. x = [doc |-> doc, live |-> doc, mount |-> h.mount]
  BY <1>1
<1> HIDE DEF x
<1>3. \/ o \in Answers(h, out)
      \/ o \in Refuse(h)
      \/ o \in Run(<<h, w, x>>, out)
      \/ o \in TornWrite(h, doc)
  BY DEF InstallSshd, w, x
<1>4. SshdFile(w) /\ SshdFile(x) /\ w.doc = doc /\ x.doc = doc
  BY <1>1, <1>2 DEF SshdFile
<1>5. o \in TornWrite(h, doc) => SshdFile(o.h) /\ Cut(h, o)
  <2> SUFFICES ASSUME CutShort(h, o, doc) PROVE SshdFile(o.h) /\ Cut(h, o)
    BY LinesTorn
  <2>1. PICK c \in Text : o.h = [h EXCEPT !.doc = c]
    BY DEF CutShort
  <2>2. o.h = [doc |-> c, live |-> h.live, mount |-> h.mount]
    BY <2>1 DEF SshdFile
  <2>3. QED
    BY <2>2 DEF SshdFile, Cut, CutShort
<1>6. CASE o \in TornWrite(h, doc)
  BY <1>5, <1>6
<1>7. CASE o \notin TornWrite(h, doc)
  <2>1. o.h \in {h, w, x}
    BY <1>3, <1>7, AnswerOutcome, RefuseOutcome, RunOfThree
  <2>2. QED
    BY <1>4, <2>1
<1>8. QED
  BY <1>6, <1>7

\* The sshd_config pack does what is asked of it.
LEMMA SshdServed == Served("sshd_config")
<1> DEFINE t == "sshd_config"
<1>1. \A h : Holds(t, h) <=> SshdFile(h)
  BY DEF Holds
<1>2. \A s : Fits(t, s) /\ \A h : Reported(t, h, s)
  BY DEF Fits, Reported, ReadAfterWrite
<1>3. \A h, s, p : /\ CreateOp(t, h, p) = applyConfig(h, p) /\ UpdateOp(t, h, s, p) = applyConfig(h, p)
                   /\ DeleteOp(t, h, s) = SshdDelete(h, s) /\ ReadOp(t, h, s) = SshdRead(h, s)
                   /\ Plans(t) = SshdPlan /\ Hosts(t) = SshdHost
  BY DEF CreateOp, UpdateOp, DeleteOp, ReadOp, Plans, Hosts
<1>4. \A h, ids : Kept(t, h, ids) = At(h.doc, Unmanaged(h.doc))
  BY DEF Kept
<1>5. \A s : IdOf(t, s) = <<>>
  BY DEF IdOf, KeyedTypes
<1>6. Starts(t)
  <2> DEFINE a == Entry("Root", "1")
             b == Entry("Other", "1")
             c == Entry("Root", "2")
  <2>1. a \in Line /\ b \in Line /\ c \in Line
    BY EntryLine DEF Word
  <2>2. SshdDoc = {<<b>>, <<a, b, c>>}
    BY DEF SshdDoc
  <2> HIDE DEF a, b, c
  <2>3. <<b>> \in Seq(Line) /\ <<a, b, c>> \in Seq(Line)
    BY <2>1
  <2>4. \A d \in SshdDoc : d \in Text
    BY <2>2, <2>3 DEF Text
  <2>5. \A h \in SshdHost : SshdFile(h)
    BY <2>4 DEF SshdHost, SshdFile
  <2>6. QED
    BY <1>1, <1>2, <1>3, <2>5 DEF Starts
<1>7. ASSUME NEW h, SshdFile(h), NEW o, SshdFile(o.h), NEW ids, <<>> \in ids,
             At(o.h.doc, Unmanaged(o.h.doc)) = At(h.doc, Unmanaged(h.doc)) \/ Cut(h, o)
      PROVE  Fine(t, h, ids, o)
  <2>1. JobsStay(t, h, o.h, ids)
    BY NoJobs
  <2>2. \A s : ~Apart(t, s, ids)
    BY <1>5, <1>7 DEF Apart
  <2>3. Spares(t, h, o.h, ids) \/ Tears(t, h, o)
    BY <1>4, <1>7, <2>1, <2>2 DEF Spares, Cut, Tears
  <2>4. Among(t, o.out, ids)
    BY <1>5, <1>7 DEF Among
  <2>5. QED
    BY <1>1, <1>2, <1>7, <2>3, <2>4 DEF Fine
<1>8. ASSUME NEW h, SshdFile(h), NEW p \in SshdPlan, NEW o \in applyConfig(h, p), NEW ids, <<>> \in ids
      PROVE  Fine(t, h, ids, o)
  <2>1. PICK doc \in SshdContents(h.doc, p) : o \in InstallSshd(h, doc, directivesToState(doc))
    BY <1>8 DEF applyConfig
  <2>2. h.doc \in Text
    BY <1>8 DEF SshdFile
  <2>3. doc \in Text /\ At(doc, Unmanaged(doc)) = At(h.doc, Unmanaged(h.doc))
    BY <2>2, SshdRewritten
  <2>4. SshdFile(o.h) /\ (At(o.h.doc, Unmanaged(o.h.doc)) = At(h.doc, Unmanaged(h.doc)) \/ Cut(h, o))
    BY <1>8, <2>1, <2>3, SshdInstalled
  <2>5. QED
    BY <1>7, <1>8, <2>4
<1>9. ASSUME NEW h, SshdFile(h), NEW s, NEW o \in SshdDelete(h, s), NEW ids, <<>> \in ids
      PROVE  Fine(t, h, ids, o)
  <2> DEFINE doc == At(h.doc, Unmanaged(h.doc))
  <2>1. h.doc \in Text
    BY <1>9 DEF SshdFile
  <2>2. o \in InstallSshd(h, doc, Nil)
    BY <1>9 DEF SshdDelete
  <2>3. doc \in Text /\ At(doc, Unmanaged(doc)) = At(h.doc, Unmanaged(h.doc))
    BY <2>1, SshdCleared
  <2> HIDE DEF doc
  <2>4. SshdFile(o.h) /\ (At(o.h.doc, Unmanaged(o.h.doc)) = At(h.doc, Unmanaged(h.doc)) \/ Cut(h, o))
    BY <1>9, <2>2, <2>3, SshdInstalled
  <2>5. QED
    BY <1>7, <1>9, <2>4
<1>10. Creates(t)
  BY <1>1, <1>3, <1>5, <1>8 DEF Creates
<1>11. Updates(t)
  BY <1>1, <1>3, <1>5, <1>8 DEF Updates
<1>12. Deletes(t)
  <2>1. \A h, s, o : Gone(t, o, s)
    BY DEF Gone, NothingToRemove
  <2>2. QED
    BY <1>1, <1>3, <1>5, <1>9, <2>1 DEF Deletes
<1>13. Reads(t)
  <2>1. \A h, s : SshdRead(h, s) = directivesToState(h.doc)
    BY DEF SshdRead
  <2>2. \A s, q : Among(t, s, {IdOf(t, q)})
    BY <1>5 DEF Among
  <2>3. QED
    BY <1>2, <1>3, <2>1, <2>2 DEF Reads
<1>14. QED
  BY <1>6, <1>10, <1>11, <1>12, <1>13 DEF Served

-----------------------------------------------------------------------------
(* ufw_rule *)

\* The names that mark the provider's rules.
UfwNames == {"a", "b"}

\* The positions of the rules that none of ids is about, and the rules there.
RuleOthers(rules, ids) == {i \in DOMAIN rules : <<rules[i].com>> \notin ids}
RuleRest(rules, ids) == At(rules, RuleOthers(rules, ids))
SameRules(h, x, ids) == RuleRest(x.rules, ids) = RuleRest(h.rules, ids)

\* From h to x only the rules of the names K change.
UfwOnly(h, x, K) ==
    /\ UfwTable(x)
    /\ \A ids : (\A k \in K : <<k>> \in ids) => SameRules(h, x, ids)

\* Changes within some names are changes within more.
LEMMA UfwOnlyMore ==
    ASSUME NEW h, NEW x, NEW J, UfwOnly(h, x, J), NEW K, J \subseteq K
    PROVE  UfwOnly(h, x, K)
  BY DEF UfwOnly

\* Two changes within some names, one after the other.
LEMMA UfwOnlyThen ==
    ASSUME NEW h, NEW x, NEW y, NEW K, UfwOnly(h, x, K), UfwOnly(x, y, K)
    PROVE  UfwOnly(h, y, K)
  BY DEF UfwOnly, SameRules

\* A rule of another name stays.
LEMMA RuleStays ==
    ASSUME NEW h, UfwTable(h), NEW x, UfwTable(x), NEW ids, SameRules(h, x, ids),
           NEW i \in RuleOthers(h.rules, ids)
    PROVE  \E j \in RuleOthers(x.rules, ids) : x.rules[j] = h.rules[i]
<1> DEFINE S == RuleOthers(h.rules, ids)
           T == RuleOthers(x.rules, ids)
<1>1. Finite(S) /\ Finite(T)
  BY PartFinite DEF UfwTable, RuleOthers
<1> HIDE DEF S, T
<1>2. Rank(S, i) \in DOMAIN At(h.rules, S) /\ At(h.rules, S)[Rank(S, i)] = h.rules[i]
  BY <1>1, AtElements DEF S
<1>3. At(x.rules, T) = At(h.rules, S)
  BY DEF RuleRest, SameRules, S, T
<1> DEFINE n == Rank(S, i)
<1>4. n \in DOMAIN At(x.rules, T) /\ At(x.rules, T)[n] = h.rules[i]
  BY <1>2, <1>3
<1> HIDE DEF n
<1>5. At(x.rules, T)[n] = x.rules[Nth(T, n)] /\ Nth(T, n) \in T
  BY <1>1, <1>4, AtElements
<1>6. QED
  BY <1>4, <1>5 DEF T

\* Rules of other names are still in the table, and no other name gains or loses its rules.
LEMMA UfwOthersStay ==
    ASSUME NEW h, UfwTable(h), NEW x, NEW K, UfwOnly(h, x, K)
    PROVE  /\ \A i \in DOMAIN h.rules : h.rules[i].com \notin K => \E j \in DOMAIN x.rules : x.rules[j] = h.rules[i]
           /\ \A k : k \notin K => (Managed(h, k) = {} <=> Managed(x, k) = {})
<1> DEFINE ids == {<<k>> : k \in K}
<1>1. \A k : <<k>> \in ids <=> k \in K
  OBVIOUS
<1> HIDE DEF ids
<1>2. UfwTable(x) /\ SameRules(h, x, ids) /\ SameRules(x, h, ids)
  BY <1>1 DEF UfwOnly, SameRules
<1>3. \A i \in RuleOthers(h.rules, ids) : \E j \in RuleOthers(x.rules, ids) : x.rules[j] = h.rules[i]
  BY <1>2, RuleStays
<1>4. \A i \in RuleOthers(x.rules, ids) : \E j \in RuleOthers(h.rules, ids) : h.rules[j] = x.rules[i]
  BY <1>2, RuleStays
<1>5. \A y, i : i \in RuleOthers(y.rules, ids) <=> (i \in DOMAIN y.rules /\ y.rules[i].com \notin K)
  BY <1>1 DEF RuleOthers
<1>6. ASSUME NEW k, k \notin K PROVE Managed(h, k) = {} <=> Managed(x, k) = {}
  BY <1>3, <1>4, <1>5, <1>6 DEF Managed
<1>7. QED
  BY <1>3, <1>5, <1>6

\* The host without the rules of k.
Without(h, k) == [rules |-> At(h.rules, DOMAIN h.rules \ Managed(h, k)), active |-> h.active, deny |-> h.deny]

\* Taking the rules of a name away changes no other.
LEMMA WithoutOnly ==
    ASSUME NEW h, UfwTable(h), NEW k
    PROVE  UfwOnly(h, Without(h, k), {k}) /\ Managed(Without(h, k), k) = {}
<1> DEFINE S == DOMAIN h.rules \ Managed(h, k)
           w == Without(h, k)
           c == Cardinality(S)
<1>1. h.rules \in Seq(Chain) /\ S \subseteq DOMAIN h.rules
  BY DEF UfwTable
<1>2. Finite(S) /\ c \in Nat /\ w.rules = At(h.rules, S)
  BY <1>1, PartFinite, Ranks DEF Without
<1>3. w.rules \in Seq(Chain) /\ w = [rules |-> w.rules, active |-> w.active, deny |-> w.deny]
  BY <1>1, AtSeq DEF Without
<1>4. DOMAIN w.rules = 1 .. c /\ \A n \in 1 .. c : w.rules[n] = h.rules[Nth(S, n)] /\ Nth(S, n) \in S /\ Rank(S, Nth(S, n)) = n
  <2> HIDE DEF S, w
  <2>1. DOMAIN At(h.rules, S) = 1 .. c /\ \A n \in DOMAIN At(h.rules, S) : At(h.rules, S)[n] = h.rules[Nth(S, n)]
    BY <1>2, AtElements
  <2>2. \A n \in 1 .. c : Nth(S, n) \in S /\ Rank(S, Nth(S, n)) = n
    BY <1>2, NthOfRank
  <2>3. QED
    BY <1>2, <2>1, <2>2
<1>5. Managed(w, k) = {}
  <2>1. SUFFICES ASSUME NEW n \in Managed(w, k) PROVE FALSE
    OBVIOUS
  <2>2. n \in 1 .. c /\ w.rules[n].com = k
    BY <2>1, <1>4 DEF Managed
  <2>3. Nth(S, n) \in S /\ h.rules[Nth(S, n)].com = k
    BY <2>2, <1>4
  <2>4. QED
    BY <2>3 DEF Managed
<1>6. ASSUME NEW j \in UfwNames, NEW m \in Managed(w, j), NEW n \in Managed(w, j) PROVE m = n
  <2>1. m \in 1 .. c /\ n \in 1 .. c /\ w.rules[m].com = j /\ w.rules[n].com = j
    BY <1>4 DEF Managed
  <2>2. Nth(S, m) \in Managed(h, j) /\ Nth(S, n) \in Managed(h, j)
    BY <1>4, <2>1 DEF Managed
  <2>3. Nth(S, m) = Nth(S, n)
    BY <2>2 DEF UfwTable, UfwNames
  <2>4. QED
    BY <1>4, <2>1, <2>3
<1>7. UfwTable(w)
  BY <1>3, <1>6 DEF UfwTable, UfwNames
<1>8. ASSUME NEW ids, <<k>> \in ids PROVE SameRules(h, w, ids)
  <2> DEFINE U == RuleOthers(h.rules, ids)
             T == RuleOthers(w.rules, ids)
  <2>1. T = {n \in 1 .. c : Nth(S, n) \in U}
    BY <1>4 DEF RuleOthers
  <2>2. S \cap U = U
    BY <1>8 DEF RuleOthers, Managed
  <2> HIDE DEF T, U, S
  <2>3. At(At(h.rules, S), T) = At(h.rules, S \cap U)
    BY <1>2, <2>1, AtOfAt
  <2>4. QED
    BY <1>2, <2>2, <2>3 DEF RuleRest, SameRules, T, U
<1>9. QED
  BY <1>5, <1>7, <1>8 DEF UfwOnly

\* Without rules of k there is nothing to take away.
LEMMA WithoutNone ==
    ASSUME NEW h, UfwTable(h), NEW k, Managed(h, k) = {}
    PROVE  Without(h, k) = h
<1>1. Len(h.rules) \in Nat /\ DOMAIN h.rules = 1 .. Len(h.rules) /\ h.rules = [i \in 1 .. Len(h.rules) |-> h.rules[i]]
  BY SeqShape DEF UfwTable
<1>2. At(h.rules, DOMAIN h.rules) = h.rules
  BY <1>1, AtAll
<1>3. DOMAIN h.rules \ Managed(h, k) = DOMAIN h.rules
  OBVIOUS
<1>4. QED
  BY <1>2, <1>3 DEF Without, UfwTable

\* The rules of a name go in one step, or there is none.
LEMMA UfwRemoved ==
    ASSUME NEW h, UfwTable(h), NEW k \in UfwNames
    PROVE  \/ removeManagedUFWRules(h, k) = <<h>> /\ Without(h, k) = h
           \/ removeManagedUFWRules(h, k) = <<h, Without(h, k)>>
<1> DEFINE M == Managed(h, k)
           D == DOMAIN h.rules
           left(n) == {i \in D : i \in M => Cardinality({j \in M : j > i}) >= n}
           hostAt(n) == [h EXCEPT !.rules = At(@, left(n))]
           hs == removeManagedUFWRules(h, k)
           c == Cardinality(M)
<1>1. hs = [n \in 1 .. c + 1 |-> hostAt(n - 1)]
  BY DEF removeManagedUFWRules
<1>2. Finite(M) /\ M \subseteq D /\ M \subseteq Nat /\ D \subseteq Nat
  <2>1. M \subseteq D
    BY DEF Managed
  <2>2. QED
    BY <2>1, PartFinite, SeqShape DEF UfwTable, Finite
<1>3. \A i \in M : {j \in M : j > i} = {}
  <2>1. \A i, j \in M : i = j
    BY DEF UfwTable, UfwNames
  <2>2. \A i \in M : i \in Nat /\ ~(i > i)
    BY <1>2
  <2>3. QED
    BY <2>1, <2>2
<1>4. Cardinality({}) = 0
  BY FS_EmptySet
<1>5. left(0) = D /\ left(1) = D \ M
  <2>1. \A i \in M : Cardinality({j \in M : j > i}) = 0
    BY <1>3, <1>4
  <2>2. QED
    BY <2>1
<1> HIDE DEF left, M
<1>6. \A n : hostAt(n) = [rules |-> At(h.rules, left(n)), active |-> h.active, deny |-> h.deny]
  <2> TAKE n
  <2> DEFINE a == At(h.rules, left(n))
  <2>1. hostAt(n) = [h EXCEPT !.rules = a]
    OBVIOUS
  <2> HIDE DEF a
  <2>2. [h EXCEPT !.rules = a] = [rules |-> a, active |-> h.active, deny |-> h.deny]
    BY DEF UfwTable
  <2>3. QED
    BY <2>1, <2>2 DEF a
<1>7. hostAt(0) = h
  <2>1. Len(h.rules) \in Nat /\ D = 1 .. Len(h.rules) /\ h.rules = [i \in 1 .. Len(h.rules) |-> h.rules[i]]
    BY SeqShape DEF UfwTable
  <2>2. At(h.rules, D) = h.rules
    BY <2>1, AtAll
  <2>3. QED
    BY <1>5, <1>6, <2>2 DEF UfwTable
<1>8. hostAt(1) = Without(h, k)
  BY <1>5, <1>6 DEF Without, M
<1> HIDE DEF hostAt, hs, D
<1>9. CASE M = {}
  <2>1. c = 0
    BY <1>4, <1>9
  <2> HIDE DEF c
  <2>2. hs = [n \in 1 .. 1 |-> hostAt(n - 1)]
    BY <1>1, <2>1
  <2>3. hs = <<hostAt(0)>>
    BY <2>2
  <2>4. QED
    BY <1>7, <1>9, <2>3, WithoutNone DEF hs, M
<1>10. CASE M # {}
  <2>1. PICK m \in M : M = {m}
    BY <1>10 DEF UfwTable, UfwNames, M
  <2>2. c = 1
    BY <2>1, FS_Singleton
  <2> HIDE DEF c
  <2>3. hs = [n \in 1 .. 2 |-> hostAt(n - 1)]
    BY <1>1, <2>2
  <2>4. hs = <<hostAt(0), hostAt(1)>>
    BY <2>3
  <2>5. QED
    BY <1>7, <1>8, <2>4 DEF hs
<1>11. QED
  BY <1>9, <1>10

\* The only rule of k is rule.
UfwHas(h, k, rule) == Managed(h, k) # {} /\ \A i \in Managed(h, k) : h.rules[i] = rule

\* A rule that is added is the only one of its name, and the others stay.
LEMMA UfwAdded ==
    ASSUME NEW h, UfwTable(h), NEW rule \in Chain, Managed(h, rule.com) = {}
    PROVE  UfwOnly(h, ufwAdd(h, rule), {rule.com}) /\ UfwHas(ufwAdd(h, rule), rule.com, rule)
<1> DEFINE rules == Append(h.rules, rule)
           m == Len(h.rules)
           x == ufwAdd(h, rule)
           k == rule.com
<1>1. /\ rules \in Seq(Chain) /\ Len(rules) = m + 1 /\ rules[m + 1] = rule
      /\ \A i \in 1 .. m : rules[i] = h.rules[i]
  BY AppendProperties DEF UfwTable
<1>2. m \in Nat /\ DOMAIN h.rules = 1 .. m /\ DOMAIN rules = 1 .. m + 1
  BY <1>1, SeqShape DEF UfwTable
<1>3. x = [rules |-> rules, active |-> h.active, deny |-> h.deny]
  <2>1. x = [h EXCEPT !.rules = rules]
    BY DEF ufwAdd
  <2> HIDE DEF rules, x
  <2>2. QED
    BY <2>1 DEF UfwTable
<1>4. x.rules = rules
  BY <1>3
<1> HIDE DEF rules, x, m
<1>5. \A j : Managed(x, j) = IF j = k THEN {m + 1} ELSE Managed(h, j)
  <2> TAKE j
  <2>1. Managed(x, j) = {i \in 1 .. m + 1 : rules[i].com = j}
    BY <1>2, <1>4 DEF Managed
  <2>2. Managed(h, j) = {i \in 1 .. m : h.rules[i].com = j}
    BY <1>2 DEF Managed
  <2>3. \A i : i \in 1 .. m + 1 <=> i \in 1 .. m \/ i = m + 1
    BY <1>2
  <2>4. m + 1 \notin 1 .. m
    BY <1>2
  <2>5. CASE j = k
    <3>1. \A i \in 1 .. m : h.rules[i].com # k
      BY <2>2, <2>5
    <3>2. QED
      BY <1>1, <2>1, <2>3, <2>5, <3>1
  <2>6. CASE j # k
    BY <1>1, <2>1, <2>2, <2>3, <2>6
  <2>7. QED
    BY <2>5, <2>6
<1>6. UfwTable(x)
  <2>1. \A j \in UfwNames : \A i, n \in Managed(x, j) : i = n
    BY <1>5 DEF UfwTable, UfwNames
  <2>2. QED
    BY <1>1, <1>3, <1>4, <2>1 DEF UfwTable, UfwNames
<1>7. ASSUME NEW ids, <<k>> \in ids PROVE SameRules(h, x, ids)
  <2> DEFINE S == RuleOthers(h.rules, ids)
  <2>1. S = RuleOthers(x.rules, ids)
    <3>1. \A i \in 1 .. m + 1 : i \in 1 .. m \/ i = m + 1
      BY <1>2
    <3>2. \A i \in 1 .. m : i \in 1 .. m + 1
      BY <1>2
    <3>3. QED
      BY <1>1, <1>2, <1>4, <1>7, <3>1, <3>2 DEF RuleOthers
  <2>2. Finite(S)
    BY PartFinite DEF RuleOthers, UfwTable
  <2>3. \A i \in S : h.rules[i] = x.rules[i]
    BY <1>1, <1>2, <1>4 DEF RuleOthers
  <2> HIDE DEF S
  <2>4. At(h.rules, S) = At(x.rules, S)
    BY <2>2, <2>3, AtSame
  <2>5. QED
    BY <2>1, <2>4 DEF SameRules, RuleRest, S
<1>8. UfwOnly(h, x, {k})
  BY <1>6, <1>7 DEF UfwOnly
<1>9. UfwHas(x, k, rule)
  BY <1>1, <1>4, <1>5 DEF UfwHas
<1>10. QED
  BY <1>8, <1>9 DEF x

\* A table that is left as it was has no rule changed.
LEMMA UfwSelf ==
    ASSUME NEW h, UfwTable(h), NEW K
    PROVE  UfwOnly(h, h, K)
  BY DEF UfwOnly, SameRules

\* What is known of the rules when an operation reports the state p.
UfwDone(p, o) ==
    /\ o.out = p
    /\ p.ensure = "present" => UfwHas(o.h, p.k, desiredUFWRuleSpec(p))
UfwKeys(s, p) == {p.k} \cup (IF s = Nil THEN {} ELSE {s.k})

\* The rule a plan asks for is about the plan's name.
LEMMA UfwSpec ==
    ASSUME NEW p \in UfwPlan
    PROVE  /\ p.k \in UfwNames /\ desiredUFWRuleSpec(p) \in Chain /\ desiredUFWRuleSpec(p).com = p.k
           /\ desiredUFWRuleSpec(p).act = p.act /\ desiredUFWRuleSpec(p).port = p.port
           /\ p.ensure \in {"present", "absent"}
<1>1. p.k \in {"a", "b"} /\ p.act \in {"allow", "deny"} /\ p.port \in {"ssh", "web"} /\ p.ensure \in {"present", "absent"}
  BY DEF UfwPlan
<1>2. QED
  BY <1>1 DEF desiredUFWRuleSpec, UfwRule, Chain, UfwNames

\* A ufw_rule plan that is reported is in the table, within the names of the plan and the prior state, and
\* passed the guard against an SSH disconnect.
LEMMA UfwApplied ==
    ASSUME NEW h, UfwTable(h), NEW s, s = Nil \/ s \in UfwPlan, NEW p \in UfwPlan, NEW o \in applyUFWRule(h, s, p)
    PROVE  /\ UfwOnly(h, o.h, UfwKeys(s, p))
           /\ o.out \in {Refused, Failed} \/ (UfwDone(p, o) /\ preventUFWSSHDisconnect(h, s, p))
<1> DEFINE K == UfwKeys(s, p)
           gone == removeManagedUFWRules(h, p.k)
           two == s # Nil /\ s.k # p.k
           more == IF two THEN Tail(removeManagedUFWRules(Last(gone), s.k)) ELSE <<>>
           hs == gone \o more
           done == IF p.ensure = "absent" THEN <<>> ELSE <<ufwAdd(Last(hs), desiredUFWRuleSpec(p))>>
           w == Without(h, p.k)
           x == IF two THEN Without(w, s.k) ELSE w
           y == ufwAdd(x, desiredUFWRuleSpec(p))
           z == IF p.ensure = "absent" THEN x ELSE y
           S == {h, w, x, z}
<1>1. \/ o \in Refuse(h)
      \/ o = Outcome(h, Failed)
      \/ o \in Run(hs \o done, p) /\ preventUFWSSHDisconnect(h, s, p)
  <2> HIDE DEF hs, done
  <2>1. o \in IF ~preventUFWSSHDisconnect(h, s, p) THEN Refuse(h) ELSE Run(hs \o done, p) \cup {Outcome(h, Failed)}
    BY DEF applyUFWRule, hs, done
  <2>2. QED
    BY <2>1
<1>2. p.k \in K /\ (s # Nil => s.k \in K) /\ p.k \in UfwNames /\ (s # Nil => s.k \in UfwNames)
  BY UfwSpec DEF UfwKeys
<1> HIDE DEF K
<1>3. UfwOnly(h, h, K)
  BY UfwSelf
<1>4. UfwOnly(h, w, K) /\ Managed(w, p.k) = {}
  <2>1. UfwOnly(h, w, {p.k}) /\ Managed(w, p.k) = {}
    BY WithoutOnly
  <2> HIDE DEF w
  <2>2. {p.k} \subseteq K
    BY <1>2
  <2>3. QED
    BY <2>1, <2>2, UfwOnlyMore
<1>5. (gone = <<h>> /\ w = h) \/ gone = <<h, w>>
  BY <1>2, UfwRemoved
<1> HIDE DEF gone, w
<1>6. UfwTable(w)
  BY <1>4 DEF UfwOnly
<1>7. UfwOnly(h, x, K) /\ Managed(x, p.k) = {}
  <2>1. CASE two
    <3> DEFINE v == Without(w, s.k)
    <3>1. UfwOnly(w, v, {s.k})
      BY <1>6, WithoutOnly
    <3>2. x = v /\ {s.k} \subseteq K
      BY <1>2, <2>1
    <3> HIDE DEF v
    <3>3. Managed(v, p.k) = {}
      <4>1. p.k \notin {s.k}
        BY <2>1
      <4>2. QED
        BY <1>4, <1>6, <3>1, <4>1, UfwOthersStay
    <3>4. UfwOnly(w, v, K)
      BY <3>1, <3>2, UfwOnlyMore
    <3>5. UfwOnly(h, v, K)
      BY <1>4, <3>4, UfwOnlyThen
    <3>6. QED
      BY <3>2, <3>3, <3>5
  <2>2. CASE ~two
    BY <1>4, <2>2
  <2>3. QED
    BY <2>1, <2>2
<1>8. gone \in Seq(S) /\ Len(gone) > 0 /\ gone[Len(gone)] = w
  <2>1. h \in S /\ w \in S
    OBVIOUS
  <2> HIDE DEF S
  <2>2. <<h>> \in Seq(S) /\ <<h, w>> \in Seq(S)
    BY <2>1
  <2>3. QED
    BY <1>5, <2>2
<1>9. Last(gone) = w
  BY <1>8 DEF Last
<1>10. (more = <<>> /\ x = w) \/ more = <<x>>
  <2>1. CASE two
    <3>1. more = Tail(removeManagedUFWRules(w, s.k)) /\ x = Without(w, s.k) /\ s.k \in UfwNames
      BY <1>2, <1>9, <2>1
    <3>2. \/ removeManagedUFWRules(w, s.k) = <<w>> /\ Without(w, s.k) = w
          \/ removeManagedUFWRules(w, s.k) = <<w, Without(w, s.k)>>
      BY <1>6, <3>1, UfwRemoved
    <3> HIDE DEF more, x
    <3>3. Tail(<<w>>) = <<>> /\ Tail(<<w, Without(w, s.k)>>) = <<Without(w, s.k)>>
      OBVIOUS
    <3>4. QED
      BY <3>1, <3>2, <3>3
  <2>2. CASE ~two
    BY <2>2
  <2>3. QED
    BY <2>1, <2>2
<1>11. x \in S /\ z \in S /\ \A e \in S : e \in {h, w, x, z}
  OBVIOUS
<1>12. UfwTable(x)
  BY <1>7 DEF UfwOnly
<1>13. UfwOnly(h, z, K) /\ (p.ensure = "present" => UfwHas(z, p.k, desiredUFWRuleSpec(p)))
  <2> DEFINE rule == desiredUFWRuleSpec(p)
  <2>1. rule \in Chain /\ rule.com = p.k /\ p.ensure \in {"present", "absent"}
    BY UfwSpec
  <2> HIDE DEF x, rule
  <2>2. Managed(x, rule.com) = {}
    BY <1>7, <2>1
  <2>3. UfwOnly(x, ufwAdd(x, rule), {rule.com}) /\ UfwHas(ufwAdd(x, rule), rule.com, rule)
    BY <1>12, <2>1, <2>2, UfwAdded
  <2>4. y = ufwAdd(x, rule) /\ {rule.com} \subseteq K
    BY <1>2, <2>1 DEF rule
  <2> HIDE DEF y
  <2>5. UfwOnly(x, y, K)
    BY <2>3, <2>4, UfwOnlyMore
  <2>6. UfwOnly(h, y, K)
    BY <1>7, <2>5, UfwOnlyThen
  <2>7. QED
    BY <1>7, <2>1, <2>3, <2>4, <2>6 DEF rule
<1> HIDE DEF more, x, S, w
<1>14. hs \in Seq(S) /\ Len(hs) > 0 /\ hs[Len(hs)] = x
  <2>1. CASE more = <<>> /\ x = w
    <3>1. hs = gone
      BY <1>8, <2>1
    <3> HIDE DEF hs
    <3>2. QED
      BY <1>8, <2>1, <3>1
  <2>2. CASE more = <<x>>
    <3> DEFINE n == 1
    <3>1. n \in Nat /\ n # 0 /\ more \in [1 .. n -> S] /\ more[n] = x
      BY <1>11, <2>2
    <3> HIDE DEF n
    <3>2. gone \o more \in Seq(S) /\ Len(gone \o more) > 0
      BY <1>8, <3>1, Follow
    <3>3. (gone \o more)[Len(gone \o more)] = more[n]
      BY <1>8, <3>1, Follow
    <3>4. QED
      BY <3>1, <3>2, <3>3
  <2>3. QED
    BY <1>10, <2>1, <2>2
<1> HIDE DEF hs
<1>15. Last(hs) = x
  BY <1>14 DEF Last
<1>16. (done = <<>> /\ z = x) \/ done = <<z>>
  BY <1>15
<1> HIDE DEF done, z
<1>17. hs \o done \in Seq(S) /\ Len(hs \o done) > 0 /\ (hs \o done)[Len(hs \o done)] = z
  <2>1. CASE done = <<>> /\ z = x
    <3>1. hs \o done = hs
      BY <1>14, <2>1
    <3>2. QED
      BY <1>14, <2>1, <3>1
  <2>2. CASE done = <<z>>
    <3> DEFINE n == 1
    <3>1. n \in Nat /\ n # 0 /\ done \in [1 .. n -> S] /\ done[n] = z
      BY <1>11, <2>2
    <3> HIDE DEF n
    <3>2. hs \o done \in Seq(S) /\ Len(hs \o done) > 0
      BY <1>14, <3>1, Follow
    <3>3. (hs \o done)[Len(hs \o done)] = done[n]
      BY <1>14, <3>1, Follow
    <3>4. QED
      BY <3>1, <3>2, <3>3
  <2>3. QED
    BY <1>16, <2>1, <2>2
<1> DEFINE run == hs \o done
<1>18. run \in Seq(S) /\ Len(run) > 0 /\ run[Len(run)] = z
  BY <1>17
<1> HIDE DEF run
<1>19. ASSUME o \in Run(run, p) PROVE o.h \in S /\ (o.out = Failed \/ (o.h = z /\ o.out = p))
  BY <1>18, <1>19, RunOf
<1>20. CASE o \in Refuse(h)
  BY <1>3, <1>20, RefuseOutcome DEF K
<1>21. CASE o = Outcome(h, Failed)
  BY <1>3, <1>21 DEF Outcome, K
<1>22. CASE o \in Run(run, p) /\ preventUFWSSHDisconnect(h, s, p)
  <2>1. UfwOnly(h, o.h, K)
    BY <1>3, <1>4, <1>7, <1>11, <1>13, <1>19, <1>22
  <2>2. o.out = Failed \/ UfwDone(p, o)
    BY <1>13, <1>19, <1>22 DEF UfwDone
  <2>3. QED
    BY <1>22, <2>1, <2>2 DEF K
<1>23. QED
  BY <1>1, <1>20, <1>21, <1>22 DEF run

\* Deleting a ufw_rule takes the rules of its name away, after the guard against an SSH disconnect.
LEMMA UfwDropped ==
    ASSUME NEW h, UfwTable(h), NEW s \in UfwPlan, NEW o \in UfwDelete(h, s)
    PROVE  /\ UfwOnly(h, o.h, {s.k})
           /\ o.out \in {Refused, Failed} \/ (o.out = Nil /\ Managed(o.h, s.k) = {} /\ preventUFWSSHDisconnect(h, s, Nil))
<1> DEFINE w == Without(h, s.k)
<1>1. UfwOnly(h, w, {s.k}) /\ Managed(w, s.k) = {} /\ UfwOnly(h, h, {s.k})
  BY WithoutOnly, UfwSelf
<1>2. (removeManagedUFWRules(h, s.k) = <<h>> /\ w = h) \/ removeManagedUFWRules(h, s.k) = <<h, w>>
  BY UfwSpec, UfwRemoved
<1> HIDE DEF w
<1>3. \/ o \in Refuse(h)
      \/ o = Outcome(h, Failed)
      \/ o \in Run(removeManagedUFWRules(h, s.k), Nil) /\ preventUFWSSHDisconnect(h, s, Nil)
  <2>1. o \in IF ~preventUFWSSHDisconnect(h, s, Nil) THEN Refuse(h)
               ELSE Run(removeManagedUFWRules(h, s.k), Nil) \cup {Outcome(h, Failed)}
    BY DEF UfwDelete
  <2>2. QED
    BY <2>1
<1>4. CASE o \in Refuse(h)
  BY <1>1, <1>4, RefuseOutcome
<1>5. CASE o = Outcome(h, Failed)
  BY <1>1, <1>5 DEF Outcome
<1>6. CASE o \in Run(removeManagedUFWRules(h, s.k), Nil) /\ preventUFWSSHDisconnect(h, s, Nil)
  <2>1. CASE removeManagedUFWRules(h, s.k) = <<h>> /\ w = h
    <3>1. o \in Run(<<h>>, Nil)
      BY <1>6, <2>1
    <3>2. o.h = h /\ o.out \in {Nil, Failed}
      BY <3>1 DEF Run, Last, Outcome
    <3>3. QED
      BY <1>1, <1>6, <2>1, <3>2
  <2>2. CASE removeManagedUFWRules(h, s.k) = <<h, w>>
    <3>1. o \in Run(<<h, w>>, Nil)
      BY <1>6, <2>2
    <3>2. QED
      BY <1>1, <1>6, <3>1, RunOfTwo
  <2>3. QED
    BY <1>2, <2>1, <2>2
<1>7. QED
  BY <1>3, <1>4, <1>5, <1>6

\* The ufw_rule pack does what is asked of it.
LEMMA UfwServed == Served("ufw_rule")
<1> DEFINE t == "ufw_rule"
<1>1. \A h : Holds(t, h) <=> UfwTable(h)
  BY DEF Holds
<1>2. \A s : Fits(t, s) <=> s \in UfwPlan
  BY DEF Fits
<1>3. \A h, s, p : /\ CreateOp(t, h, p) = applyUFWRule(h, Nil, p) /\ UpdateOp(t, h, s, p) = applyUFWRule(h, s, p)
                   /\ DeleteOp(t, h, s) = UfwDelete(h, s) /\ ReadOp(t, h, s) = UfwRead(h, s)
                   /\ Plans(t) = UfwPlan /\ Hosts(t) = UfwHost
  BY DEF CreateOp, UpdateOp, DeleteOp, ReadOp, Plans, Hosts
<1>0. ImportIds(t) = {}
  BY Zenon DEF ImportIds
<1>4. \A h, ids : Kept(t, h, ids) = RuleRest(h.rules, ids)
  BY DEF Kept, RuleRest, RuleOthers
<1>5. Starts(t)
  <2> DEFINE a == UfwRule("allow", "ssh", "", "")
             b == UfwRule("allow", "ssh", "tcp", "a")
             c == UfwRule("allow", "web", "", "")
  <2>1. a \in Chain /\ b \in Chain /\ c \in Chain /\ a.com = "" /\ b.com = "a" /\ c.com = ""
    BY DEF Chain, UfwRule
  <2>2. \A h \in UfwHost : \/ h \in [rules : {<<>>, <<a>>}, active : {TRUE}, deny : {TRUE}]
                           \/ h \in [rules : {<<b, c>>}, active : BOOLEAN, deny : BOOLEAN]
    BY DEF UfwHost
  <2> HIDE DEF a, b, c
  <2>3. /\ <<a>> \in Seq(Chain) /\ DOMAIN <<a>> = {1}
        /\ <<b, c>> \in Seq(Chain) /\ DOMAIN <<b, c>> = {1, 2} /\ <<b, c>>[1] = b /\ <<b, c>>[2] = c
    <3>1. \A C : \A x, y \in C : <<x>> \in Seq(C) /\ <<x, y>> \in Seq(C)
      OBVIOUS
    <3>2. \A x, y : DOMAIN <<x>> = {1} /\ DOMAIN <<x, y>> = {1, 2} /\ <<x, y>>[1] = x /\ <<x, y>>[2] = y
      OBVIOUS
    <3>3. QED
      BY <2>1, <3>1, <3>2, Zenon
  <2>6. <<>> \in Seq(Chain) /\ DOMAIN <<>> = {}
    OBVIOUS
  <2>8. \A h \in UfwHost : h = [rules |-> h.rules, active |-> h.active, deny |-> h.deny] /\ h.rules \in {<<>>, <<a>>, <<b, c>>}
    <3> DEFINE R1 == {<<>>, <<a>>}
               R2 == {<<b, c>>}
    <3>2. \A h \in UfwHost : \/ h \in [rules : R1, active : {TRUE}, deny : {TRUE}]
                             \/ h \in [rules : R2, active : BOOLEAN, deny : BOOLEAN]
      BY <2>2
    <3> HIDE DEF R1, R2
    <3>3. \A h \in UfwHost : h = [rules |-> h.rules, active |-> h.active, deny |-> h.deny] /\ (h.rules \in R1 \/ h.rules \in R2)
      <4> TAKE h \in UfwHost
      <4>1. CASE h \in [rules : R1, active : {TRUE}, deny : {TRUE}]
        <5> DEFINE A == {TRUE}
        <5>1. h \in [rules : R1, active : A, deny : A]
          BY <4>1
        <5> HIDE DEF A
        <5>2. QED
          BY <5>1
      <4>2. CASE h \in [rules : R2, active : BOOLEAN, deny : BOOLEAN]
        <5> DEFINE A == BOOLEAN
        <5>1. h \in [rules : R2, active : A, deny : A]
          BY <4>2
        <5> HIDE DEF A
        <5>2. QED
          BY <5>1
      <4>3. QED
        BY <3>2, <4>1, <4>2
    <3>4. QED
      BY <3>3 DEF R1, R2
  <2>4. ASSUME NEW h \in UfwHost PROVE UfwTable(h)
    <3>1. h.rules \in Seq(Chain)
      BY <2>3, <2>6, <2>8
    <3>2. ASSUME NEW k \in {"a", "b"}, NEW i \in Managed(h, k), NEW j \in Managed(h, k) PROVE i = j
      <4>1. CASE h.rules = <<>>
        BY <2>6, <3>2, <4>1 DEF Managed
      <4>2. CASE h.rules = <<a>>
        BY <2>3, <3>2, <4>2 DEF Managed
      <4>3. CASE h.rules = <<b, c>>
        <5>1. \A n \in DOMAIN h.rules : h.rules[n].com = k => n = 1
          BY <2>1, <2>3, <4>3
        <5>2. QED
          BY <3>2, <5>1 DEF Managed
      <4>4. QED
        BY <2>8, <4>1, <4>2, <4>3
    <3>3. QED
      BY <2>8, <3>1, <3>2 DEF UfwTable
  <2>5. QED
    BY <1>1, <1>2, <1>3, <2>4 DEF Starts
<1>6. ASSUME NEW h, UfwTable(h), NEW x, NEW K, UfwOnly(h, x, K)
      PROVE  Holds(t, x) /\ KeyOnly(t, h, x, K)
  <2>1. \A ids : (\A k \in K : <<k>> \in ids) => Kept(t, x, ids) = Kept(t, h, ids)
    BY <1>4, <1>6 DEF UfwOnly, SameRules
  <2>2. ASSUME NEW s, s.k \notin K PROVE ReadOp(t, x, s) = ReadOp(t, h, s)
    <3>1. Managed(h, s.k) = {} <=> Managed(x, s.k) = {}
      BY <1>6, <2>2, UfwOthersStay
    <3>2. QED
      BY <1>3, <3>1 DEF UfwRead
  <2>3. KeyOnly(t, h, x, K)
    BY <2>1, <2>2 DEF KeyOnly
  <2>4. QED
    BY <1>1, <1>6, <2>3 DEF UfwOnly
<1>7. ASSUME NEW h, UfwTable(h), NEW s, s = Nil \/ s \in UfwPlan, NEW p \in UfwPlan, NEW o \in applyUFWRule(h, s, p),
             NEW K, UfwKeys(s, p) \subseteq K
      PROVE  KeySafe(t, h, K, o)
  <2>1. UfwOnly(h, o.h, UfwKeys(s, p)) /\ (o.out \in {Refused, Failed} \/ UfwDone(p, o))
    BY <1>7, UfwApplied
  <2>2. UfwOnly(h, o.h, K)
    BY <1>7, <2>1, UfwOnlyMore
  <2>3. Holds(t, o.h) /\ KeyOnly(t, h, o.h, K)
    BY <1>6, <1>7, <2>2
  <2>4. ASSUME UfwDone(p, o) PROVE Reported(t, o.h, o.out) /\ o.out.k \in K
    <3>1. o.out = p
      BY <2>4 DEF UfwDone
    <3>2. InEffect(t, o.h, p)
      BY <2>4 DEF InEffect, UfwDone, UfwHas
    <3>3. Reported(t, o.h, p)
      BY <1>2, <1>7, <3>2 DEF Reported, ReadAfterWrite
    <3>4. p.k \in K
      BY <1>7 DEF UfwKeys
    <3>5. QED
      BY <3>1, <3>3, <3>4
  <2>5. QED
    BY <2>1, <2>3, <2>4 DEF KeySafe, IsState
<1>8. KeyedOps(t)
  <2>1. ASSUME NEW h, UfwTable(h), NEW p \in UfwPlan, NEW o \in applyUFWRule(h, Nil, p)
        PROVE  KeySafe(t, h, {p.k}, o)
    <3> DEFINE s == Nil
    <3>1. s = Nil /\ UfwKeys(s, p) \subseteq {p.k} /\ o \in applyUFWRule(h, s, p)
      BY <2>1 DEF UfwKeys
    <3> HIDE DEF s
    <3>2. QED
      BY <1>7, <2>1, <3>1
  <2>2. ASSUME NEW h, UfwTable(h), NEW s \in UfwPlan, NEW p \in UfwPlan, NEW o \in applyUFWRule(h, s, p)
        PROVE  KeySafe(t, h, {p.k, s.k}, o)
    <3>1. UfwKeys(s, p) \subseteq {p.k, s.k}
      BY DEF UfwKeys
    <3>2. QED
      BY <1>7, <2>2, <3>1
  <2>3. ASSUME NEW h, UfwTable(h), NEW s \in UfwPlan, NEW o \in UfwDelete(h, s)
        PROVE  KeySafe(t, h, {s.k}, o) /\ Gone(t, o, s)
    <3>1. UfwOnly(h, o.h, {s.k}) /\ (o.out \in {Refused, Failed} \/ (o.out = Nil /\ Managed(o.h, s.k) = {}))
      BY <2>3, UfwDropped
    <3>2. KeySafe(t, h, {s.k}, o)
      BY <1>6, <2>3, <3>1 DEF KeySafe, IsState
    <3>3. ASSUME MarksApart, ~isAbsentResourceState(s), o.out = Nil PROVE UfwRead(o.h, s) = Nil
      <4>1. Managed(o.h, s.k) = {}
        BY <3>1, <3>3 DEF MarksApart
      <4>2. "ensure" \in DOMAIN s
        BY DEF UfwPlan
      <4>3. s.ensure # "absent"
        BY <3>3, <4>2 DEF isAbsentResourceState
      <4>4. QED
        BY <4>1, <4>3 DEF UfwRead
    <3>4. Gone(t, o, s)
      BY <1>3, <3>3 DEF Gone
    <3>5. QED
      BY <3>2, <3>4
  <2>4. ASSUME NEW h, NEW s \in UfwPlan, IsState(UfwRead(h, s))
        PROVE  UfwRead(h, s) \in UfwPlan /\ UfwRead(h, s).k = s.k /\ UfwRead(h, UfwRead(h, s)) = UfwRead(h, s)
    <3>1. UfwRead(h, s) = s
      BY <2>4 DEF UfwRead, IsState
    <3>2. QED
      BY <3>1
  <2>5. QED
    BY <1>0, <1>1, <1>2, <1>3, <2>1, <2>2, <2>3, <2>4 DEF KeyedOps
<1>9. t \in Keyed
  BY DEF Keyed, KeyedTypes, Types, FileTypes, SystemTypes
<1>10. QED
  BY <1>5, <1>8, <1>9, KeyedServed

\* A change that may take no more than it leaves and adds does not take the last rule
\* that admits SSH: the rules of the prior state are at most one, and another rule is
\* there or one is added.
LEMMA SSHLeft ==
    ASSUME NEW h, UfwTable(h), h.active, h.deny, SSHRules(h) # {},
           NEW s, s = Nil \/ s \in UfwPlan, NEW p, preventUFWSSHDisconnect(h, s, p),
           ~(IF p # Nil THEN p.cut ELSE s.cut), ~ufwRuleBroadlyMatchesSSH(p, "allow")
    PROVE  \E i \in SSHRules(h) : s = Nil \/ i \notin Managed(h, s.k)
<1> DEFINE current == Cardinality(SSHRules(h))
           taken == IF s # Nil /\ SSHRules(h) \cap Managed(h, s.k) # {} THEN 1 ELSE 0
           added == IF ufwRuleBroadlyMatchesSSH(p, "allow") THEN 1 ELSE 0
<1>1. current = 0 \/ current + added > taken
  BY DEF preventUFWSSHDisconnect
<1>2. SSHRules(h) \subseteq DOMAIN h.rules
  BY DEF SSHRules
<1>3. Finite(SSHRules(h))
  BY <1>2, PartFinite DEF UfwTable
<1>4. current \in Nat /\ current # 0
  BY <1>3, Ranks, FS_EmptySet DEF Finite
<1>5. added = 0
  OBVIOUS
<1> HIDE DEF current, added
<1>6. current > taken
  BY <1>1, <1>4, <1>5
<1>7. SUFFICES ASSUME s # Nil, \A i \in SSHRules(h) : i \in Managed(h, s.k) PROVE FALSE
  OBVIOUS
<1>8. PICK m \in SSHRules(h) : TRUE
  OBVIOUS
<1>9. SSHRules(h) = {m}
  <2>1. s.k \in UfwNames
    BY <1>7, UfwSpec
  <2>2. \A i, j \in Managed(h, s.k) : i = j
    BY <2>1 DEF UfwTable, UfwNames
  <2>3. QED
    BY <1>7, <1>8, <2>2
<1>10. current = 1
  BY <1>9, FS_Singleton DEF current
<1>11. taken = 1
  BY <1>7, <1>8
<1>12. QED
  BY <1>6, <1>10, <1>11

\* A rule that stays goes on admitting what it admits.
LEMMA SSHRuleStays ==
    ASSUME NEW h, UfwTable(h), NEW x, NEW K, UfwOnly(h, x, K), NEW i \in SSHRules(h), h.rules[i].com \notin K
    PROVE  SSHRules(x) # {}
<1>1. i \in DOMAIN h.rules
  BY DEF SSHRules
<1>2. PICK j \in DOMAIN x.rules : x.rules[j] = h.rules[i]
  BY <1>1, UfwOthersStay
<1>3. j \in SSHRules(x)
  BY <1>2 DEF SSHRules
<1>4. QED
  BY <1>3

\* A plan that is not marked allow_ssh_disconnect leaves a rule that admits SSH.
LEMMA SSHAfterApply ==
    ASSUME NEW h, UfwTable(h), h.active, h.deny, SSHRules(h) # {}, Nil \notin UfwPlan,
           NEW s, s = Nil \/ s \in UfwPlan, NEW p \in UfwPlan, ~p.cut,
           (s # Nil /\ s.k = p.k) \/ Managed(h, p.k) = {},
           NEW o \in applyUFWRule(h, s, p), o.out \notin {Refused, Failed}
    PROVE  SSHRules(o.h) # {}
<1>1. UfwOnly(h, o.h, UfwKeys(s, p)) /\ UfwDone(p, o) /\ preventUFWSSHDisconnect(h, s, p)
  BY UfwApplied
<1>2. CASE ufwRuleBroadlyMatchesSSH(p, "allow")
  <2> DEFINE rule == desiredUFWRuleSpec(p)
  <2>1. p.ensure = "present" /\ rule.act = "allow" /\ rule.port = "ssh"
    BY <1>2, UfwSpec DEF ufwRuleBroadlyMatchesSSH
  <2> HIDE DEF rule
  <2>2. UfwHas(o.h, p.k, rule)
    BY <1>1, <2>1 DEF UfwDone, rule
  <2>3. PICK i \in Managed(o.h, p.k) : o.h.rules[i] = rule
    BY <2>2 DEF UfwHas
  <2>4. i \in SSHRules(o.h)
    BY <2>1, <2>3 DEF SSHRules, Managed, ufwStatusRuleAllowsSSHBinding
  <2>5. QED
    BY <2>4
<1>3. CASE ~ufwRuleBroadlyMatchesSSH(p, "allow")
  <2>1. ~(IF p # Nil THEN p.cut ELSE s.cut)
    OBVIOUS
  <2>2. PICK i \in SSHRules(h) : s = Nil \/ i \notin Managed(h, s.k)
    BY <1>1, <1>3, <2>1, SSHLeft
  <2>3. h.rules[i].com \notin UfwKeys(s, p)
    <3>1. i \in DOMAIN h.rules
      BY DEF SSHRules
    <3>2. s # Nil => h.rules[i].com # s.k
      BY <2>2, <3>1 DEF Managed
    <3>3. h.rules[i].com # p.k
      BY <3>1, <3>2 DEF Managed
    <3>4. QED
      BY <3>2, <3>3 DEF UfwKeys
  <2>4. QED
    BY <1>1, <2>3, SSHRuleStays
<1>4. QED
  BY <1>2, <1>3

\* and so does a delete.
LEMMA SSHAfterDelete ==
    ASSUME NEW h, UfwTable(h), h.active, h.deny, SSHRules(h) # {}, Nil \notin UfwPlan,
           NEW s \in UfwPlan, ~s.cut, NEW o \in UfwDelete(h, s), o.out \notin {Refused, Failed}
    PROVE  SSHRules(o.h) # {}
<1>1. UfwOnly(h, o.h, {s.k}) /\ preventUFWSSHDisconnect(h, s, Nil)
  BY UfwDropped
<1> DEFINE p == Nil
<1>2. ~(IF p # Nil THEN p.cut ELSE s.cut) /\ ~ufwRuleBroadlyMatchesSSH(p, "allow") /\ preventUFWSSHDisconnect(h, s, p)
  BY <1>1 DEF ufwRuleBroadlyMatchesSSH
<1> HIDE DEF p
<1>3. PICK i \in SSHRules(h) : s = Nil \/ i \notin Managed(h, s.k)
  BY <1>2, SSHLeft
<1>4. h.rules[i].com \notin {s.k}
  BY <1>3 DEF SSHRules, Managed
<1>5. QED
  BY <1>1, <1>4, SSHRuleStays

-----------------------------------------------------------------------------
(* All types. *)

\* Every type the catalog offers does what is asked of it: an operation spares what is
\* not its own, unless it fails to write a file that it cannot replace; what it reports is there, and what it
\* deletes is gone.
THEOREM EveryTypeServed == \A t \in Types : Served(t)
<1>1. \A t \in FileTypes : Served(t)
  BY ModulesServed, HostsServed, SysctlServed, FstabServed, CronServed, FileServed, LinkServed, NetServed, SwapServed,
     SshdServed DEF FileTypes
<1>2. \A t \in SystemTypes : Served(t)
  BY PkgServed, LockServed, RepoServed, CertServed, TlsServed, UfwServed, UserServed, GroupServed, CommandServed,
     UnitServed, ZoneServed, SyncServed DEF SystemTypes
<1>3. QED
  BY <1>1, <1>2 DEF Types
=============================================================================
