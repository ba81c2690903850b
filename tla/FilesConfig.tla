----------------------------- MODULE FilesConfig -----------------------------
(***************************************************************************)
(* The linux files pack: the operations of the resources file, symlink,    *)
(* kernel_modules, hosts_entry, sysctl_entry, network_stack, fstab_entry,  *)
(* swap, sshd_config and crontab_entry, each as the set of its outcomes on *)
(* the part of the host it works on (module GuestOps).  Shared files are   *)
(* sequences of lines.  Key, values and contents are abstract; what the    *)
(* pack normalises (comments, duplicate modules, validated contents, the   *)
(* two IPv6 keys behind one attribute) is kept.                            *)
(***************************************************************************)
EXTENDS GuestOps

-----------------------------------------------------------------------------
\* The executor's file capabilities.  A write goes to a temporary file that is
\* renamed over the target; when the target cannot be renamed over (it is a mount
\* point) it is truncated and rewritten in place.
Torn == [c |-> "torn", own |-> "executor"]

FileWrite(h, at, c) ==
  LET new == [h EXCEPT ![at] = [c |-> c, own |-> "executor"]]
  IN {<<h, new>>} \cup (IF h[at] = Nil THEN {} ELSE {<<h, [h EXCEPT ![at] = Torn], new>>})

\* The same for a file of many lines.  Where it cannot be renamed over (mount), a write
\* that fails may leave the first lines of the new file only.  (A line that is cut short
\* as well, one more that is nobody's, is left out.)
Cuts(doc) == {SubSeq(doc, 1, n) : n \in 0 .. Len(doc) - 1}
TornWrite(h, doc) == IF h.mount THEN {Outcome([h EXCEPT !.doc = c], Failed) : c \in Cuts(doc)} ELSE {}

\* An operation that comes down to the write of the file.
writeLines(h, doc, out) == Run(<<h, [h EXCEPT !.doc = doc]>>, out) \cup TornWrite(h, doc)

FileRename(h, from, to) == [h EXCEPT ![to] = h[from], ![from] = Nil]

\* The capability removes what is at the path before it links it.
FileSymlink(h, target) ==
  LET linked == [h EXCEPT !.path = [c |-> target, own |-> "link"]]
  IN IF h.path = Nil THEN <<h, linked>> ELSE <<h, [h EXCEPT !.path = Nil], linked>>

-----------------------------------------------------------------------------
\* file: the target path, the two temporary names of the operation beside it, and the
\* contents earlier operations have left there (every operation has names of its own).
FileHost == [path : {Nil, [c |-> "old", own |-> "root"]}, cand : {Nil}, back : {Nil}, left : {{}}]
FilePlan ==
  {p \in [c : {"ok", "bad"}, own : {"root", "app"}, validation : {"none", "staged", "in_place"}] :
     p.validation = "none" \/ p.c = "bad" => p.own = "app"}

FileState(h, s) == [c |-> h.path.c, own |-> h.path.own, validation |-> s.validation]

FileRead(h, s) ==
  IF h.path = Nil THEN Nil ELSE FileState(h, s)

\* The validation command rejects the content "bad".
runFileValidation(c) == c # "bad"

Chowned(h, at, own) == [h EXCEPT ![at] = [@ EXCEPT !.own = own]]

\* A chown that fails comes before the cleanup of the candidate is arranged.
writeManagedFile(h, p) ==
  LET new == [h EXCEPT !.cand = [c |-> p.c, own |-> "executor"]]
  IN <<h, new, Chowned(new, "cand", p.own)>>

\* Once arranged, the cleanup runs on every return; its own failure is ignored.
Cleanup(h) == {[h EXCEPT !.cand = Nil], h}

applyFileWithStagedValidation(h, p) ==
  LET hs == writeManagedFile(h, p)
      w == Last(hs)
      stopped(out) == {Outcome(c, out) : c \in Cleanup(w)}
      done == FileRename(w, "cand", "path")
  IN Then(hs, IF runFileValidation(p.c)
              THEN stopped(Failed) \cup Answers(done, FileState(done, p))
              ELSE {Outcome([w EXCEPT !.cand = Nil], Refused)} \cup stopped(Failed))

\* Mutant: the rejected file is removed, the old one not put back.
rollbackRemovesOnly(h, hadBackup) == <<h, [h EXCEPT !.path = Nil]>>

rollbackValidatedFile(h, hadBackup) ==
  LET removed == [h EXCEPT !.path = Nil]
  IN IF hadBackup THEN <<h, removed, FileRename(removed, "back", "path")>> ELSE <<h, removed>>

applyFileWithInPlaceValidation(h, p) ==
  LET hs == writeManagedFile(h, p)
      w == Last(hs)
      existed == h.path # Nil
      moved == IF existed THEN FileRename(w, "path", "back") ELSE w
      placed == FileRename(moved, "cand", "path")
      done == [placed EXCEPT !.back = Nil]
      restored == IF existed THEN FileRename(moved, "back", "path") ELSE moved
      rollback == rollbackValidatedFile(placed, existed)
  IN Then(hs,
       \* the existing file cannot be moved away, or the candidate cannot be moved in
       (UNION {{Outcome(c, Failed) : c \in Cleanup(m)} : m \in {w, moved, restored}})
       \cup IF runFileValidation(p.c)
            THEN Run(<<placed, done>>, FileState(done, p))
            ELSE Run(rollback, Refused))

FileInstall(h, p) ==
  CASE p.validation = "staged" -> applyFileWithStagedValidation(h, p)
    [] p.validation = "in_place" -> applyFileWithInPlaceValidation(h, p)
    [] OTHER ->
         LET done(hs) == Chowned(Last(hs), "path", p.own)
         IN UNION {Run(Append(hs, done(hs)), FileState(done(hs), p)) : hs \in FileWrite(h, "path", p.c)}

fileValidationTempPath(h) == [h EXCEPT !.left = @ \cup {x.c : x \in {h.cand, h.back} \ {Nil}}, !.cand = Nil, !.back = Nil]

applyFile(h, p) ==
  {Outcome(fileValidationTempPath(o.h), o.out) : o \in FileInstall(h, p) \cup {Outcome(h, Failed)}}

FileCreate(h, p) == IF h.path # Nil THEN Refuse(h) ELSE applyFile(h, p)

FileDelete(h, s) ==
  IF h.path = Nil THEN Answers(h, Nil) ELSE Run(<<h, [h EXCEPT !.path = Nil]>>, Nil)

-----------------------------------------------------------------------------
\* symlink: nothing, a link to a target, or something else at the path.
SymlinkHost == [path : {Nil, [c |-> "t1", own |-> "link"], [c |-> "data", own |-> "root"]}]
SymlinkPlan == [target : {"t1", "t2"}]

symlinkTarget(h) == IF h.path = Nil THEN "absent" ELSE IF h.path.own = "link" THEN "symlink" ELSE "regular"

SymlinkRead(h, s) ==
  CASE symlinkTarget(h) = "absent" -> Nil
    [] symlinkTarget(h) = "symlink" -> [target |-> h.path.c]
    [] OTHER -> Refused

applySymlink(h, p) == Run(FileSymlink(h, p.target), p)

SymlinkCreate(h, p) == IF symlinkTarget(h) # "absent" THEN Refuse(h) ELSE applySymlink(h, p)

SymlinkDelete(h, s) ==
  CASE symlinkTarget(h) = "absent" -> Answers(h, Nil)
    [] symlinkTarget(h) = "symlink" -> Run(<<h, [h EXCEPT !.path = Nil]>>, Nil)
    [] OTHER -> Refuse(h)

-----------------------------------------------------------------------------
\* kernel_modules: the files under modules-load.d, and the modules in the kernel.
Path == {"p", "q"}
ModulesHost == {[file |-> [x \in Path |-> f[x]], live |-> {}] : f \in [Path -> {Nil, <<"m">>}]}
ModulesPlan == [k : Path, v : {<<"m">>, <<"n", "m", "n">>}]

\* Mutant: duplicates are kept in the state.
normalizeNothing(ms) == ms
normalizeKernelModules(ms) == Dedup(ms)
parseKernelModulesContent(ms) == Dedup(ms)

ModulesRead(h, s) ==
  IF h.file[s.k] = Nil THEN Nil ELSE [k |-> s.k, v |-> parseKernelModulesContent(h.file[s.k])]

applyKernelModules(h, p) ==
  LET ms == normalizeKernelModules(p.v)
      w == [h EXCEPT !.file[p.k] = ms]
      loaded(n) == [w EXCEPT !.live = @ \cup ToSet(SubSeq(ms, 1, n))]
  \* write, chown, and one modprobe per module
  IN Run(<<h, w>> \o [n \in 1 .. Len(ms) |-> loaded(n)], [k |-> p.k, v |-> ms])

ModulesDelete(h, s) ==
  IF h.file[s.k] = Nil THEN Answers(h, Nil) ELSE Run(<<h, [h EXCEPT !.file[s.k] = Nil]>>, Nil)

-----------------------------------------------------------------------------
\* hosts_entry: /etc/hosts, an entry per address and name, its comment as value.
HostsHost == [doc : {<<RawLine("x")>>, <<Entry("a", "#c"), RawLine("x"), Entry("a", "")>>}, mount : BOOLEAN]
HostsPlan == [k : {"a"}, v : {"", "#c"}] \cup [k : {"b"}, v : {"c"}]

serializeHostsComment(c) == IF c = "" THEN "" ELSE "#c"
hostsCommentState(c) == IF c = "" THEN "" ELSE "c"

HostsRead(h, s) ==
  IF HasEntry(h.doc, s.k) THEN [k |-> s.k, v |-> hostsCommentState(FirstEntry(h.doc, s.k).v)] ELSE Nil

upsertHostsEntry(doc, line) == Append(DropEntries(doc, line.k), line)

HostsCreate(h, p) ==
  IF HasEntry(h.doc, p.k) THEN Refuse(h)
  ELSE writeLines(h, upsertHostsEntry(h.doc, Entry(p.k, serializeHostsComment(p.v))), p)

\* The entry keeps the address and name of the prior state, whatever the plan says.
HostsUpdate(h, s, p) ==
  LET at == CHOOSE i \in Positions(h.doc, s.k) : \A j \in Positions(h.doc, s.k) : i <= j
      new == [h.doc EXCEPT ![at].v = serializeHostsComment(p.v)]
  IN IF ~HasEntry(h.doc, s.k) THEN Refuse(h) ELSE writeLines(h, new, [k |-> s.k, v |-> p.v])

HostsDelete(h, s) == writeLines(h, DropEntries(h.doc, s.k), Nil)

-----------------------------------------------------------------------------
\* sysctl_entry: /etc/sysctl.conf and the values the kernel uses.
SysctlKey == {"a", "b"}
SysctlHost ==
  [doc : {<<RawLine("x")>>, <<Entry("a", "0"), RawLine("x"), Entry("a", "1")>>}, live : [SysctlKey -> {"0"}], mount : BOOLEAN]
SysctlPlan == {p \in [k : SysctlKey, v : {"0", "1"}] : p.k = "b" => p.v = "1"}

findKeyValueEntry(h, k) == IF HasEntry(h.doc, k) THEN [k |-> k, v |-> FirstEntry(h.doc, k).v] ELSE Nil

upsertKeyValueEntry(doc, k, v) ==
  IF HasEntry(doc, k) THEN ReplaceAllEntries(doc, k, Entry(k, v)) ELSE Append(doc, Entry(k, v))

\* Mutant: only the first of the entries goes.
deleteFirstEntry(doc, k) ==
  IF HasEntry(doc, k) THEN RemoveAt(doc, CHOOSE i \in Positions(doc, k) : \A j \in Positions(doc, k) : i <= j) ELSE doc
deleteKeyValueEntry(doc, k) == DropEntries(doc, k)

SysctlRead(h, s) == findKeyValueEntry(h, s.k)

\* Mutant: the file is written, sysctl -w is not run.
writeSysctlEntry(h, p) == writeLines(h, upsertKeyValueEntry(h.doc, p.k, p.v), p)

applySysctlEntry(h, p) ==
  LET w == [h EXCEPT !.doc = upsertKeyValueEntry(@, p.k, p.v)]
      a == [w EXCEPT !.live[p.k] = p.v]
  IN Run(<<h, w, a>>, SysctlRead(a, p)) \cup TornWrite(h, w.doc)

SysctlCreate(h, p) == IF findKeyValueEntry(h, p.k) # Nil THEN Refuse(h) ELSE applySysctlEntry(h, p)

SysctlDelete(h, s) == writeLines(h, deleteKeyValueEntry(h.doc, s.k), Nil)

-----------------------------------------------------------------------------
\* network_stack: a file of its own that sets one or two keys per attribute, always
\* in the same order.
NetKey == <<"ip_forward", "v6all", "v6default">>
NetHost == [file : {Nil, [k \in ToSet(NetKey) |-> IF k = "v6all" THEN "1" ELSE "0"]}, live : [ToSet(NetKey) -> {"0"}]]
NetPlan == [ipv4 : {"0", "1"}, ipv6 : {"0", "1"}]

networkStackManagedValues(p) == [k \in ToSet(NetKey) |-> IF k = "ip_forward" THEN p.ipv4 ELSE p.ipv6]

buildNetworkStackState(f) ==
  [ipv4 |-> f["ip_forward"], ipv6 |-> IF f["v6all"] = "1" /\ f["v6default"] = "1" THEN "1" ELSE "0"]

NetRead(h, s) == IF h.file = Nil THEN Nil ELSE buildNetworkStackState(h.file)

applyNetworkStack(h, p) ==
  LET f == networkStackManagedValues(p)
      w == [h EXCEPT !.file = f]
      set(n) == [w EXCEPT !.live = [k \in DOMAIN @ |-> IF \E i \in 1 .. n : NetKey[i] = k THEN f[k] ELSE @[k]]]
  IN Run(<<h>> \o [n \in 1 .. Len(NetKey) + 1 |-> set(n - 1)], buildNetworkStackState(f))

NetCreate(h, p) == IF h.file # Nil THEN Refuse(h) ELSE applyNetworkStack(h, p)

NetDelete(h, s) == IF h.file = Nil THEN Answers(h, Nil) ELSE Run(<<h, [h EXCEPT !.file = Nil]>>, Nil)

-----------------------------------------------------------------------------
\* fstab_entry and swap share /etc/fstab; "live" says whether a swap area is active.
FstabHost ==
  [doc : {<<RawLine("x"), Entry("none", "swap")>>, <<>>}, live : {"on"}, mount : BOOLEAN]
  \cup [doc : {<<Entry("m", "ext4"), Entry("none", "swap")>>}, live : {"off"}, mount : BOOLEAN]
FstabPlan == {p \in [k : {"m", "n"}, v : {"ext4", "xfs"}] : p.k = "n" => p.v = "ext4"}
SwapPlan == [enabled : {"on", "off"}]

findFstabEntry(h, k) == IF HasEntry(h.doc, k) THEN [k |-> k, v |-> FirstEntry(h.doc, k).v] ELSE Nil

upsertFstabEntry(doc, k, v) ==
  IF HasEntry(doc, k) THEN ReplaceAllEntries(doc, k, Entry(k, v)) ELSE Append(doc, Entry(k, v))

\* Mutant: only the lines that were understood are written back.
deleteFstabUnparsed(doc, k) == At(doc, {i \in DOMAIN doc : doc[i].t = "entry" /\ doc[i].k # k})
deleteFstabEntry(doc, k) == DropEntries(doc, k)

FstabRead(h, s) == findFstabEntry(h, s.k)

applyFstabEntry(h, p) ==
  LET doc == upsertFstabEntry(h.doc, p.k, p.v)
  IN writeLines(h, doc, FstabRead([h EXCEPT !.doc = doc], p))

FstabCreate(h, p) == IF findFstabEntry(h, p.k) # Nil THEN Refuse(h) ELSE applyFstabEntry(h, p)

FstabDelete(h, s) == writeLines(h, deleteFstabEntry(h.doc, s.k), Nil)

\* A swap line that was commented out keeps its text behind a marker.
IsSwap(line) == line.t = "entry" /\ line.v = "swap"
disableSwapEntries(doc) == [i \in DOMAIN doc |-> IF IsSwap(doc[i]) THEN [doc[i] EXCEPT !.t = "disabled"] ELSE doc[i]]
restoreManagedSwapEntries(doc) ==
  [i \in DOMAIN doc |-> IF doc[i].t = "disabled" THEN [doc[i] EXCEPT !.t = "entry"] ELSE doc[i]]
hasEnabledSwapEntries(doc) == \E i \in DOMAIN doc : IsSwap(doc[i])

\* The file is written only when a line changes.
writeFstabEntries(h, doc) == IF doc = h.doc THEN {} ELSE TornWrite(h, doc)

readSwapEnabledState(h) ==
  [enabled |-> IF h.live = "on" \/ hasEnabledSwapEntries(h.doc) THEN "on" ELSE "off"]

SwapRead(h, s) == readSwapEnabledState(h)

disableManagedSwap(h, out) ==
  LET w == [h EXCEPT !.doc = disableSwapEntries(@)]
  IN Change(<<h, w, [w EXCEPT !.live = "off"]>>, out) \cup writeFstabEntries(h, w.doc)

\* swapon -a activates the swap lines that are enabled.
enableManagedSwap(h, strict, out) ==
  LET doc == restoreManagedSwapEntries(h.doc)
      w == [h EXCEPT !.doc = doc]
      swapon == doc # h.doc \/ (h.live = "off" /\ hasEnabledSwapEntries(doc))
  IN IF h.live = "off" /\ ~hasEnabledSwapEntries(doc) /\ strict
     THEN Refuse(h)
     ELSE Change(<<h, w, [w EXCEPT !.live = IF swapon THEN "on" ELSE @]>>, out) \cup writeFstabEntries(h, doc)

applySwap(h, p) ==
  IF p.enabled = "on" THEN enableManagedSwap(h, TRUE, p) ELSE disableManagedSwap(h, p)

SwapDelete(h, s) == IF s.enabled = "on" THEN Answers(h, Nil) ELSE enableManagedSwap(h, FALSE, Nil)

-----------------------------------------------------------------------------
\* sshd_config: one resource owns the managed directives; "live" is what the daemon
\* has loaded.
managedDirectives == {"Port", "Root"}
SshdDoc == {<<Entry("Other", "1")>>, <<Entry("Root", "1"), Entry("Other", "1"), Entry("Root", "2")>>}
SshdHost == {[doc |-> d, live |-> d, mount |-> m] : d \in SshdDoc, m \in BOOLEAN}
SshdPlan == UNION {[D -> {"1", "bad"}] : D \in SUBSET managedDirectives}

\* Of a directive that is there twice the last value is reported.
directivesToState(doc) ==
  LET present == {d \in managedDirectives : HasEntry(doc, d)}
      last(d) == CHOOSE i \in Positions(doc, d) : \A j \in Positions(doc, d) : j <= i
  IN [d \in present |-> doc[last(d)].v]

SshdRead(h, s) == directivesToState(h.doc)

\* sshd -t on a copy of the new content.
validateSSHDConfig(doc) == \A i \in DOMAIN doc : doc[i].v # "bad"

\* The lines nobody manages.
Unmanaged(doc) == {i \in DOMAIN doc : doc[i].k \notin managedDirectives}

\* The first line of a managed directive takes the desired value, the others go, and
\* desired directives without a line are appended in no particular order.
SshdContents(doc, p) ==
  LET first(i) == \A j \in 1 .. i - 1 : doc[j].k # doc[i].k
      updated == [i \in DOMAIN doc |-> IF doc[i].k \in DOMAIN p THEN Entry(doc[i].k, p[doc[i].k]) ELSE doc[i]]
      kept == At(updated, Unmanaged(doc) \cup {i \in DOMAIN doc : doc[i].k \in DOMAIN p /\ first(i)})
      missing == {d \in DOMAIN p : ~HasEntry(doc, d)}
  IN {kept \o [i \in DOMAIN order |-> Entry(order[i], p[order[i]])] : order \in SetToSeqs(missing)}

\* Write and reload, unless nothing changed or sshd rejects the content.
InstallSshd(h, doc, out) ==
  IF doc = h.doc THEN Answers(h, out)
  ELSE IF ~validateSSHDConfig(doc) THEN Refuse(h)
  ELSE LET w == [h EXCEPT !.doc = doc]
       IN Run(<<h, w, [w EXCEPT !.live = doc]>>, out) \cup TornWrite(h, doc)

applyConfig(h, p) == UNION {InstallSshd(h, doc, directivesToState(doc)) : doc \in SshdContents(h.doc, p)}

SshdDelete(h, s) == InstallSshd(h, At(h.doc, Unmanaged(h.doc)), Nil)

-----------------------------------------------------------------------------
\* crontab_entry: per user, a job line under a marker line that names the resource.
CronUser == {"u1", "u2"}
Marker(n) == [t |-> "marker", k |-> n, v |-> ""]
Job(v) == [t |-> "job", k |-> "", v |-> v]
CronHost == [tabs : {[u1 |-> d, u2 |-> <<>>] : d \in {<<>>, <<RawLine("x"), Job("j1")>>, <<Job("j1"), Job("j1")>>, <<Marker("a"), Job("j1")>>}}]
CronPlan == {p \in [u : CronUser, k : {"a", "b"}, v : {"j1", "j2"}] : p.k = "b" => p.u = "u1" /\ p.v = "j1"}

Markers(lines, n) == {i \in DOMAIN lines : lines[i] = Marker(n)}
HasJob(lines, i) == i + 1 \in DOMAIN lines /\ lines[i + 1].t = "job"

\* "none", "many" (an error), or the position of the only marker.
findManagedCrontabBlock(lines, n) ==
  CASE Markers(lines, n) = {} -> [n |-> "none", at |-> 0]
    [] Cardinality(Markers(lines, n)) > 1 -> [n |-> "many", at |-> 0]
    [] OTHER -> [n |-> "one", at |-> CHOOSE i \in Markers(lines, n) : TRUE]

exactUnmanagedCrontabMatches(lines, v) ==
  {i \in DOMAIN lines : lines[i] = Job(v) /\ (i > 1 => lines[i - 1].t # "marker")}

CronRead(h, s) ==
  LET lines == h.tabs[s.u]
      block == findManagedCrontabBlock(lines, s.k)
  IN CASE block.n = "many" -> Refused
       [] block.n = "one" /\ HasJob(lines, block.at) -> [s EXCEPT !.v = lines[block.at + 1].v]
       [] OTHER -> Nil

\* The lines with the desired entry, or Refused.
createOrAdoptManagedCrontabEntry(lines, p) ==
  LET matches == exactUnmanagedCrontabMatches(lines, p.v)
  IN CASE findManagedCrontabBlock(lines, p.k).n # "none" \/ Cardinality(matches) > 1 -> Refused
       [] findManagedCrontabBlock(lines, p.k).n = "none" /\ Cardinality(matches) = 1 -> InsertAt(lines, CHOOSE i \in matches : TRUE, Marker(p.k))
       [] OTHER -> lines \o <<Marker(p.k), Job(p.v)>>

\* The lines without the block at position i.
WithoutBlock(lines, i) == At(lines, DOMAIN lines \ IF HasJob(lines, i) THEN {i, i + 1} ELSE {i})

\* The block at position i, which has the plan's marker, with the plan's job.
updateManagedCrontabEntry(lines, i, p) ==
  IF HasJob(lines, i) THEN [lines EXCEPT ![i + 1] = Job(p.v)] ELSE InsertAt(lines, i + 1, Job(p.v))

removeManagedCrontabEntry(lines, n) ==
  LET block == findManagedCrontabBlock(lines, n)
  IN CASE block.n = "one" -> WithoutBlock(lines, block.at)
       [] block.n = "many" -> Refused
       [] OTHER -> lines

writeUserCrontabLines(h, u, lines) == [h EXCEPT !.tabs[u] = lines]

WriteOne(h, u, lines, out) ==
  IF lines = Refused THEN Refuse(h) \cup {Outcome(h, Failed)}
  ELSE Run(<<h, writeUserCrontabLines(h, u, lines)>>, out)

CronCreate(h, p) == WriteOne(h, p.u, createOrAdoptManagedCrontabEntry(h.tabs[p.u], p), p)

\* The same user: the block is rewritten where it is, or moved to another name.
CronUpdateHere(h, s, p) ==
  LET lines == h.tabs[p.u]
      block == findManagedCrontabBlock(lines, s.k)
      rest == removeManagedCrontabEntry(lines, s.k)
      new == CASE block.n = "many" -> Refused
               [] s.k = p.k /\ block.n = "one" -> updateManagedCrontabEntry(lines, block.at, p)
               [] OTHER -> createOrAdoptManagedCrontabEntry(rest, p)
  IN WriteOne(h, p.u, new, p)

\* Another user: the new crontab is written first, the old one only if it had a block.
CronUpdateMoves(h, s, p) ==
  LET old == removeManagedCrontabEntry(h.tabs[s.u], s.k)
      new == createOrAdoptManagedCrontabEntry(h.tabs[p.u], p)
      w == writeUserCrontabLines(h, p.u, new)
  IN IF Refused \in {old, new} THEN Refuse(h)
     ELSE Change(<<h, w, writeUserCrontabLines(w, s.u, old)>>, p)

CronUpdate(h, s, p) == IF s.u = p.u THEN CronUpdateHere(h, s, p) ELSE CronUpdateMoves(h, s, p)

CronDelete(h, s) ==
  LET new == removeManagedCrontabEntry(h.tabs[s.u], s.k)
  IN IF new = h.tabs[s.u] THEN Answers(h, Nil) ELSE WriteOne(h, s.u, new, Nil)
=============================================================================
