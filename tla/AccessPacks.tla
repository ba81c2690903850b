---------------------------- MODULE AccessPacks -----------------------------
(***************************************************************************)
(* The packs for TLS identities, firewall rules, users, groups and managed *)
(* commands, as outcomes on the part of the host they work on (module      *)
(* GuestOps).  ufw, groupadd, groupmod, useradd, usermod and userdel are   *)
(* external, modelled from how the packs use them.                         *)
(***************************************************************************)
EXTENDS GuestOps

\* tls_identity: the certificate chain and the private key of each name.  Equal
\* values stand for a key that matches the leaf of the chain.
TlsName == {"a", "b"}
NoPair == [chain |-> Nil, key |-> Nil]
Pair(v) == [chain |-> v, key |-> v]
TlsHost ==
  {[file |-> [a |-> x, b |-> y]] :
     x \in {NoPair, Pair("1")}, y \in {[chain |-> "1", key |-> Nil]}}
TlsPlan == {p \in [k : TlsName, v : {"1", "2"}, family : {"pem", "der"}] : (p.k = "b" => p.family = "pem") /\ (p.v = "1" => p.k = "a" /\ p.family = "pem")}

tlsIdentityFamilyFromState(s) == s.family

\* A pair that is incomplete or does not match cannot be read.
readTLSIdentityState(h, s) ==
  LET f == h.file[s.k]
  IN CASE f = NoPair -> Nil
       [] f.chain # f.key -> Refused
       [] OTHER -> [k |-> s.k, v |-> f.chain, family |-> tlsIdentityFamilyFromState(s)]

\* The chain is written before the key, and put back before it.
reconcileTLSIdentity(h, p) == <<h, [h EXCEPT !.file[p.k].chain = p.v], [h EXCEPT !.file[p.k] = Pair(p.v)]>>
restoreTLSIdentity(x, h, p) == <<x, [x EXCEPT !.file[p.k].chain = h.file[p.k].chain], h>>

applyTLSIdentity(h, p) ==
  LET hs == reconcileTLSIdentity(h, p)
  IN Change(hs, p) \cup UNION {Change(restoreTLSIdentity(hs[i], h, p), Refused) : i \in DOMAIN hs}

TlsCreate(h, p) == IF h.file[p.k] # NoPair THEN Refuse(h) ELSE applyTLSIdentity(h, p)

removeTLSIdentity(h, s) ==
  Change(<<h, [h EXCEPT !.file[s.k].chain = Nil], [h EXCEPT !.file[s.k] = NoPair]>>, Nil)

-----------------------------------------------------------------------------
\* ufw_rule: the rules in their order with the comment the provider marks its own
\* with, "" for somebody else's.  One of those admits SSH for every protocol.  active
\* says that sshd is seen to listen (ufw runs: switched off, it lists no rules), deny
\* that ufw denies what no rule admits.
\* Rules of different names differ in their destination: ufw keeps both.
UfwRule(act, port, proto, com) == [act |-> act, port |-> port, proto |-> proto, com |-> com]
UfwHost ==
  [rules : {<<>>, <<UfwRule("allow", "ssh", "", "")>>}, active : {TRUE}, deny : {TRUE}]
  \cup {h \in [rules : {<<UfwRule("allow", "ssh", "tcp", "a"), UfwRule("allow", "web", "", "")>>},
              active : BOOLEAN, deny : BOOLEAN] : h.active \/ h.deny}
UfwPlan ==
  {p \in [k : {"a", "b"}, ensure : {"present", "absent"}, act : {"allow", "deny"}, port : {"ssh", "web"}, cut : BOOLEAN] :
     /\ p.ensure = "absent" => p.k = "a" /\ p.act = "allow" /\ p.port = "web"
     /\ p.port = "web" => p.act = "allow" /\ ~p.cut
     /\ p.k = "b" => p.port = "ssh" /\ p.act = "allow" /\ ~p.cut}

desiredUFWRuleSpec(p) == UfwRule(p.act, p.port, "tcp", p.k)

Managed(h, k) == {i \in DOMAIN h.rules : h.rules[i].com = k}

ufwStatusRuleAllowsSSHBinding(rule) == rule.act = "allow" /\ rule.port = "ssh"
SSHRules(h) == {i \in DOMAIN h.rules : ufwStatusRuleAllowsSSHBinding(h.rules[i])}

ufwRuleBroadlyMatchesSSH(p, act) == p # Nil /\ p.ensure # "absent" /\ p.act = act /\ p.port = "ssh"

\* Mutant: a new rule is looked at, the rule it replaces is not.
preventUFWSSHDeny(h, s, p) == ~ufwRuleBroadlyMatchesSSH(p, "deny")

\* Whether the change from s to p is admitted: it may not block SSH, and not take away
\* the last rule that admits it.  Only the rule of s counts as taken away.
preventUFWSSHDisconnect(h, s, p) ==
  LET override == IF p # Nil THEN p.cut ELSE s.cut
      current == Cardinality(SSHRules(h))
      taken == IF s # Nil /\ SSHRules(h) \cap Managed(h, s.k) # {} THEN 1 ELSE 0
      added == IF ufwRuleBroadlyMatchesSSH(p, "allow") THEN 1 ELSE 0
  IN \/ override \/ ~h.active
     \/ /\ ~ufwRuleBroadlyMatchesSSH(p, "deny")
        /\ h.deny => current = 0 \/ current + added > taken

\* The rules of k go one by one, the one with the highest number first.
removeManagedUFWRules(h, k) ==
  LET left(n) == {i \in DOMAIN h.rules : i \in Managed(h, k) => Cardinality({j \in Managed(h, k) : j > i}) >= n}
  IN [n \in 1 .. Cardinality(Managed(h, k)) + 1 |-> [h EXCEPT !.rules = At(@, left(n - 1))]]

ufwAdd(h, rule) == [h EXCEPT !.rules = Append(@, rule)]

\* A rule's content is not read back, only that there is one with the comment.
UfwRead(h, s) ==
  CASE Managed(h, s.k) # {} -> s
    [] s.ensure = "absent" -> s
    [] OTHER -> Nil

applyUFWRule(h, s, p) ==
  LET gone == removeManagedUFWRules(h, p.k)
      hs == gone \o IF s # Nil /\ s.k # p.k THEN Tail(removeManagedUFWRules(Last(gone), s.k)) ELSE <<>>
      done == IF p.ensure = "absent" THEN <<>> ELSE <<ufwAdd(Last(hs), desiredUFWRuleSpec(p))>>
  IN IF ~preventUFWSSHDisconnect(h, s, p) THEN Refuse(h)
     ELSE Run(hs \o done, p)

UfwDelete(h, s) ==
  IF ~preventUFWSSHDisconnect(h, s, Nil) THEN Refuse(h)
  ELSE Run(removeManagedUFWRules(h, s.k), Nil)

-----------------------------------------------------------------------------
\* group: the numbers of the groups; user: the users with their shell and groups.
GroupName == {"a", "b"}
GroupId == 1 .. 3
GroupHost == [gid : {[g \in GroupName |-> Nil], [a |-> 1, b |-> Nil]}]
GroupPlan == {p \in [k : GroupName, ensure : {"present", "absent"}, gid : {0, 2}] : p.ensure = "absent" => p.gid = 0}

FreeId(h, k) == {n \in GroupId : \A g \in GroupName \ {k} : h.gid[g] # n}

\* What a group command answers when its number is not given, given or taken.
groupadd(h, p) ==
  IF h.gid[p.k] # Nil \/ p.gid \notin FreeId(h, p.k) \cup {0} THEN Refuse(h)
  ELSE UNION {Run(<<h, [h EXCEPT !.gid[p.k] = n]>>, [k |-> p.k, ensure |-> "present", gid |-> n]) :
                n \in IF p.gid = 0 THEN FreeId(h, p.k) ELSE {p.gid}}

GroupRead(h, s) ==
  CASE h.gid[s.k] # Nil -> [k |-> s.k, ensure |-> "present", gid |-> h.gid[s.k]]
    [] h.gid[s.k] = Nil /\ s.ensure = "absent" -> [k |-> s.k, ensure |-> "absent", gid |-> 0]
    [] OTHER -> Nil

GroupRemove(h, k, out) == IF h.gid[k] = Nil THEN Refuse(h) ELSE Run(<<h, [h EXCEPT !.gid[k] = Nil]>>, out)

GroupCreate(h, p) ==
  CASE p.ensure = "present" -> groupadd(h, p)
    [] p.ensure = "absent" /\ h.gid[p.k] = Nil -> Answers(h, p)
    [] OTHER -> GroupRemove(h, p.k, p)

\* The group of the prior state is changed, whatever name the plan has.
GroupUpdate(h, s, p) ==
  LET w == IF p.gid = 0 THEN h ELSE [h EXCEPT !.gid[s.k] = p.gid]
  IN CASE p.ensure = "absent" -> GroupRemove(h, s.k, p)
       [] p.ensure = "present" /\ (h.gid[s.k] = Nil \/ p.gid \notin FreeId(h, s.k) \cup {0}) -> Refuse(h)
       [] OTHER -> Change(<<h, w>>, GroupRead(w, s))

GroupDelete(h, s) == GroupRemove(h, s.k, Nil)

UserName == {"a", "b"}
Unset == {"unset"}        \* groups are not given
User(shell, groups) == [shell |-> shell, groups |-> groups]
UserHost == [groups : {{"g1", "g2"}}, user : {[u \in UserName |-> Nil], [a |-> User("sh", {"g2"}), b |-> Nil]}]
UserPlan ==
  {p \in [k : UserName, ensure : {"present", "absent"}, shell : {"", "zsh"}, groups : {Unset, {"g1"}, {"g3"}}, append : BOOLEAN] :
     /\ p.ensure = "absent" => p.shell = "" /\ p.groups = Unset
     /\ p.append => p.groups = {"g1"}
     /\ p.k = "b" => p.shell = "" /\ p.groups = {"g1"} /\ ~p.append
     /\ p.shell # "" => p.groups = Unset}

ensureUserGroupsExist(h, p) == p.groups # Unset => p.groups \subseteq h.groups

UserState(k, u, append) == [k |-> k, ensure |-> "present", shell |-> u.shell, groups |-> u.groups, append |-> append]

\* What the plan says of the groups is recorded, also when they were only added.
carryUserPlanFields(s, p) == [s EXCEPT !.groups = IF p.groups = Unset THEN @ ELSE p.groups, !.append = p.append]

buildUseraddArgs(p) == User(IF p.shell = "" THEN "sh" ELSE p.shell, IF p.groups = Unset THEN {} ELSE p.groups)

buildUsermodArgs(u, p) ==
  User(IF p.shell = "" THEN u.shell ELSE p.shell,
       CASE p.groups = Unset -> u.groups [] p.groups # Unset /\ p.append -> u.groups \cup p.groups [] OTHER -> p.groups)

absentUserState(k) == [k |-> k, ensure |-> "absent", shell |-> "", groups |-> Unset, append |-> FALSE]

UserRead(h, s) ==
  CASE h.user[s.k] # Nil -> UserState(s.k, h.user[s.k], s.append)
    [] h.user[s.k] = Nil /\ s.ensure = "absent" -> absentUserState(s.k)
    [] OTHER -> Nil

userdel(h, k, out) == IF h.user[k] = Nil THEN Refuse(h) ELSE Run(<<h, [h EXCEPT !.user[k] = Nil]>>, out)

UserWrite(h, k, u, p) ==
  LET w == [h EXCEPT !.user[k] = u]
  IN Change(<<h, w>>, carryUserPlanFields(UserState(k, u, p.append), p))

UserCreate(h, p) ==
  CASE p.ensure = "absent" -> IF h.user[p.k] = Nil THEN Answers(h, absentUserState(p.k)) ELSE userdel(h, p.k, absentUserState(p.k))
    [] p.ensure = "present" /\ (~ensureUserGroupsExist(h, p) \/ h.user[p.k] # Nil) -> Refuse(h)
    [] OTHER -> UserWrite(h, p.k, buildUseraddArgs(p), p)

\* The user of the prior state is changed, whatever name the plan has.
UserUpdate(h, s, p) ==
  CASE p.ensure = "absent" -> userdel(h, s.k, absentUserState(p.k))
    [] p.ensure = "present" /\ (~ensureUserGroupsExist(h, p) \/ h.user[s.k] = Nil) -> Refuse(h)
    [] OTHER -> UserWrite(h, s.k, buildUsermodArgs(h.user[s.k], p), p)

UserDelete(h, s) == userdel(h, s.k, Nil)

-----------------------------------------------------------------------------
\* command: what the managed command has made, if anything; one command makes nothing
\* its guard would find.
CommandHost == [made : {Nil, "old"}]
CommandPlan == [cmd : {"c1", "c2", "noop"}, del : BOOLEAN]

guardSatisfied(h) == h.made # Nil

runManagedCommand(h, cmd) == IF cmd = "noop" THEN h ELSE [h EXCEPT !.made = cmd]

CommandRead(h, s) == IF guardSatisfied(h) THEN s ELSE Nil

CommandUpdate(h, s, p) ==
  LET w == runManagedCommand(h, p.cmd)
  IN Change(<<h, w>>, IF guardSatisfied(w) THEN p ELSE Failed)

CommandCreate(h, p) == IF guardSatisfied(h) THEN Answers(h, p) ELSE CommandUpdate(h, Nil, p)

CommandDelete(h, s) ==
  IF s.del THEN Change(<<h, [h EXCEPT !.made = Nil]>>, Nil) ELSE Answers(h, Nil)
=============================================================================
