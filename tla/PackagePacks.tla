---------------------------- MODULE PackagePacks ----------------------------
(***************************************************************************)
(* The packs for packages, package locks, apt repositories with the        *)
(* keyrings they download, and trusted CA certificates, as outcomes on the *)
(* part of the host they work on (module GuestOps).                        *)
(***************************************************************************)
EXTENDS GuestOps

Ensures(s, what) == s # Nil /\ s.ensure = what

\* The keyring a state or plan manages, "" for none, and those a change from s to p
\* gives up: they are removed unless an apt source refers to them.
CleanupPaths(old, new, absent) == (IF absent THEN {old, new} ELSE {old} \ {new}) \ {""}

-----------------------------------------------------------------------------
\* package: the version of each package, the keyrings, and those a source refers to.
PkgName == {"a", "b"}
PkgHost ==
  [pm : {"apt"}, ver : {[a |-> Nil, b |-> "1"]}, rings : {{}}, refs : {{}, {"k1"}}]
  \cup [pm : {"dnf"}, ver : {[a |-> "1", b |-> Nil]}, rings : {{}}, refs : {{}}]
PkgPlan ==
  {p \in [k : PkgName, ensure : {"present", "latest", "absent"}, ver : {"", "1"}, ring : {"", "k1"}] :
     /\ p.ensure # "present" => p.ver = ""
     /\ p.k = "b" => p.ensure # "latest" /\ p.ver = ""
     /\ p.ring # "" => p.k = "a" /\ p.ensure # "latest" /\ p.ver = ""}

packageRepoKeyringPath(s) == IF s = Nil THEN "" ELSE s.ring

buildPackageState(p, ver) == [k |-> p.k, ensure |-> p.ensure, ver |-> ver, ring |-> p.ring]

PkgRead(h, s) ==
  CASE h.ver[s.k] = Nil /\ Ensures(s, "absent") -> buildPackageState(s, "")
    [] h.ver[s.k] = Nil /\ ~Ensures(s, "absent") -> Nil
    [] h.ver[s.k] # Nil /\ packageRepoKeyringPath(s) \notin h.rings \cup {""} -> Nil
    [] OTHER -> buildPackageState(s, h.ver[s.k])

removePackageRepoKeyring(h, paths) == [h EXCEPT !.rings = @ \ (paths \ h.refs)]

cleanupPackageRepoKeyring(h, s, p) ==
  removePackageRepoKeyring(h, CleanupPaths(packageRepoKeyringPath(s), packageRepoKeyringPath(p), p.ensure = "absent"))

removePackage(h, k) == [h EXCEPT !.ver[k] = Nil]

\* The version asked for, or the newest one.
installPackage(h, p) == [h EXCEPT !.ver[p.k] = IF p.ver = "" THEN "2" ELSE p.ver]

PkgSatisfied(h, p) == p.ensure = "present" /\ h.ver[p.k] # Nil /\ p.ver \in {"", h.ver[p.k]}

\* A keyring on a host without apt is rejected only after the package is installed.
applyPackage(h, s, p) ==
  LET removed == removePackage(h, p.k)
      inst == IF PkgSatisfied(h, p) THEN h ELSE installPackage(h, p)
      ringed == [inst EXCEPT !.rings = IF p.ring = "" THEN @ ELSE @ \cup {p.ring}]
      done == IF p.ensure = "absent" THEN cleanupPackageRepoKeyring(removed, s, p) ELSE cleanupPackageRepoKeyring(ringed, s, p)
  IN CASE p.ensure = "absent" ->
            Change(<<h, removed, done>>, buildPackageState(p, ""))
       [] p.ensure # "absent" /\ p.ring # "" /\ h.pm # "apt" -> Change(<<h, inst>>, Failed)
       [] OTHER ->
            Change(<<h, inst, ringed, done>>, buildPackageState(p, done.ver[p.k]))

PkgDelete(h, s) ==
  LET removed == removePackage(h, s.k)
  IN Change(<<h, removed, cleanupPackageRepoKeyring(removed, s, [s EXCEPT !.ensure = "absent"])>>, Nil)

-----------------------------------------------------------------------------
\* package_lock: apt holds a list of packages with one command, dnf one by one.
LockHost == [pm : {"apt", "dnf"}, held : {{}, {"a", "c"}}]
LockPlan == [pkgs : (SUBSET {"a", "b", "c"}) \ {{}}, ensure : {"present", "absent"}]

currentPackageLocks(h, pkgs) == pkgs \cap h.held

LockRead(h, s) ==
  CASE s.ensure = "absent" -> s
    [] s.ensure # "absent" /\ currentPackageLocks(h, s.pkgs) = {} -> Nil
    [] OTHER -> [s EXCEPT !.pkgs = currentPackageLocks(h, s.pkgs)]

\* The hosts a change of the locks passes through.
changePackageLocks(h, pkgs, ensure) ==
  LET after(done) == [h EXCEPT !.held = IF ensure = "present" THEN @ \cup done ELSE @ \ done]
  IN IF h.pm = "apt" THEN {IF after(pkgs) = h THEN <<h>> ELSE <<h, after(pkgs)>>}
     ELSE {[i \in 1 .. Len(order) + 1 |-> after({order[j] : j \in 1 .. i - 1})] : order \in SetToSeqs(pkgs)}

packagesToUnlock(h, s, p) == IF s = Nil THEN {} ELSE currentPackageLocks(h, s.pkgs \ p.pkgs)

applyPackageLock(h, s, p) ==
  LET missing == p.pkgs \ currentPackageLocks(h, p.pkgs)
      managed == IF s = Nil THEN p.pkgs ELSE p.pkgs \cup s.pkgs
      locking == changePackageLocks(h, missing, "present")
  IN IF p.ensure = "present"
     THEN UNION {Then(hs, UNION {Run(gs, p) : gs \in changePackageLocks(Last(hs), packagesToUnlock(h, s, p), "absent")}) : hs \in locking}
     ELSE UNION {Run(hs, p) : hs \in changePackageLocks(h, currentPackageLocks(h, managed), "absent")}

LockDelete(h, s) == UNION {Run(hs, Nil) : hs \in changePackageLocks(h, s.pkgs, "absent")}

-----------------------------------------------------------------------------
\* apt_repository: the source files, ours or not, one of them without a source line
\* that can be read, and the keyrings.
RepoFile == {"f1", "f2"}
Source(uri, by, own) == [uri |-> uri, by |-> by, own |-> own]
RepoHost == [files : {[f \in RepoFile |-> Nil], [f1 |-> Source("u1", "k1", FALSE), f2 |-> Source("junk", "", FALSE)]}, rings : {{"k1"}}]
RepoPlan ==
  {p \in [k : RepoFile, ensure : {"present", "absent"}, uri : {"u1", "u2"}, by : {"", "k1", "k2"}, url : BOOLEAN] :
     /\ (p.by = "k2" => p.url) /\ (p.url => p.by # "")
     /\ p.uri = "u2" => p.k = "f1" /\ p.by = "k1" /\ ~p.url
     /\ p.k = "f2" => p.url /\ p.by = "k1"
     /\ p.ensure = "absent" => p.by = "k2"}

managedSignedByPath(s) == IF s # Nil /\ s.url THEN s.by ELSE ""

parseRepositoryFile(f) == f.uri # "junk"
renderRepositoryFile(p) == Source(p.uri, p.by, TRUE)

\* The key's URL is known from the prior state only, and only for the same keyring.
RepoRead(h, s) ==
  LET f == h.files[s.k]
  IN CASE f = Nil /\ Ensures(s, "absent") -> s
       [] f = Nil /\ ~Ensures(s, "absent") -> Nil
       [] f # Nil /\ ~parseRepositoryFile(f) -> Refused
       [] OTHER -> [k |-> s.k, ensure |-> "present", uri |-> f.uri, by |-> f.by, url |-> s.url /\ f.by = s.by]

\* Mutant: only the sources the provider wrote are looked at.
ReferencedByOwn(h, ring) == \E f \in RepoFile : h.files[f] # Nil /\ h.files[f].own /\ h.files[f].by = ring
Referenced(h, ring) == \E f \in RepoFile : h.files[f] # Nil /\ h.files[f].by = ring

removeRepositoryKeyringIfUnused(h, paths) == [h EXCEPT !.rings = @ \ {r \in paths : ~Referenced(h, r)}]

cleanupRepositoryKeyrings(h, s, p, absent) ==
  removeRepositoryKeyringIfUnused(h, CleanupPaths(managedSignedByPath(s), managedSignedByPath(p), absent))

\* Remove the file, or install the key and write the file; then apt-get update, and
\* the keys that are not needed any more.
applyRepository(h, s, p) ==
  LET keyed == [h EXCEPT !.rings = @ \cup ({managedSignedByPath(p)} \ {""})]
      written == [keyed EXCEPT !.files[p.k] = renderRepositoryFile(p)]
      removed == [h EXCEPT !.files[p.k] = Nil]
      absent == p.ensure = "absent"
      done == cleanupRepositoryKeyrings(IF absent THEN removed ELSE written, s, p, absent)
  IN Change(IF absent THEN <<h, removed, done>> ELSE <<h, keyed, written, done>>, p)

adoptExistingRepository(h, p) == h.files[p.k] = renderRepositoryFile(p)

RepoCreate(h, p) ==
  CASE h.files[p.k] = Nil -> applyRepository(h, Nil, p)
    [] h.files[p.k] # Nil /\ adoptExistingRepository(h, p) -> Answers(h, [p EXCEPT !.ensure = "present"])
    [] OTHER -> Refuse(h)

RepoDelete(h, s) ==
  LET removed == [h EXCEPT !.files[s.k] = Nil]
  IN Change(<<h, removed, cleanupRepositoryKeyrings(removed, s, s, TRUE)>>, Nil)

-----------------------------------------------------------------------------
\* trusted_cert: the anchors, one of them not a certificate, and the anchors the
\* trust store was last built from.
CertName == {"a", "b"}
CertHost == {[file |-> f, live |-> f] : f \in {[n \in CertName |-> Nil], [a |-> "1", b |-> "bad"]}}
CertPlan == {p \in [k : CertName, v : {"1", "2"}] : p.k = "b" => p.v = "1"}

CertRead(h, s) ==
  CASE h.file[s.k] = Nil -> Nil
    [] h.file[s.k] # Nil /\ h.file[s.k] = "bad" -> Refused
    [] OTHER -> [k |-> s.k, v |-> h.file[s.k]]

updateTrustStore(h) == [h EXCEPT !.live = h.file]

\* When the store cannot be built the anchor is put back, and the store is not built again.
restoreSnapshot(w, h) == Run(<<w, [w EXCEPT !.file = h.file]>>, Refused)

\* The anchor becomes v and the store is built, unless nothing changes.
CertInstall(h, k, v, out) ==
  LET w == [h EXCEPT !.file[k] = v]
  IN IF w = h THEN Answers(h, out)
     ELSE Run(<<h, w, updateTrustStore(w)>>, out) \cup restoreSnapshot(w, h)

applyTrustedCert(h, p) == CertInstall(h, p.k, p.v, p)

CertCreate(h, p) == IF h.file[p.k] # Nil THEN Refuse(h) ELSE applyTrustedCert(h, p)

CertDelete(h, s) == CertInstall(h, s.k, Nil, Nil)
=============================================================================
