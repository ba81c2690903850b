-------------------------- MODULE GuestPackProofs --------------------------
(***************************************************************************)
(* What the operations of the guest packs leave of a host, wherever they stop: *)
(* the tables and the files of lines they work on keep their form, a refused *)
(* operation leaves the host as it was, and in files of lines an operation *)
(* changes the lines of its own object and no others.                      *)
(***************************************************************************)
EXTENDS ResourceEngine, FiniteSetTheorems, FunctionTheorems, SequenceTheorems, TLAPS

-----------------------------------------------------------------------------
(* What an operation leaves of the part of the host it works on. *)

\* The parts of a host that hold an object per key.
CronShape(h) == h = [tabs |-> h.tabs] /\ h.tabs = [u \in CronUser |-> h.tabs[u]]
TlsShape(h) == h = [file |-> h.file] /\ h.file = [k \in TlsName |-> h.file[k]]
RepoShape(h) == h = [files |-> h.files, rings |-> h.rings] /\ h.files = [f \in RepoFile |-> h.files[f]]

\* From h to x only the objects named change.
CronOnly(h, x, users) == CronShape(x) /\ \A u \in CronUser \ users : x.tabs[u] = h.tabs[u]
TlsOnly(h, x, names) == TlsShape(x) /\ \A k \in TlsName \ names : x.file[k] = h.file[k]

\* Absence and the two errors are told apart, none of them is a record or another
\* function, as the states and the hosts are, and absence is none of the simple values a
\* host holds: a group number, a package version, a set of time servers.
MarksApart ==
    /\ Nil # Refused /\ Failed # Refused /\ Nil # Failed
    /\ \A m \in {Nil, Refused, Failed} : m # [x \in DOMAIN m |-> m[x]]
    /\ Nil \notin GroupId \cup {"1", "2"} \cup {p.servers : p \in SyncPlan}

\* The hosts a run of two calls may leave, and a call that reads.
LEMMA RunOfTwo ==
    ASSUME NEW a, NEW b, NEW out, NEW o \in Run(<<a, b>>, out)
    PROVE  \/ o.h \in {a, b} /\ o.out = Failed
           \/ o.h = b /\ o.out = out
  BY DEF Run, Last, Outcome

\* The hosts a run of three calls may leave.
LEMMA RunOfThree ==
    ASSUME NEW a, NEW b, NEW c, NEW out, NEW o \in Run(<<a, b, c>>, out)
    PROVE  \/ o.h \in {a, b, c} /\ o.out = Failed
           \/ o.h = c /\ o.out = out
  BY DEF Run, Last, Outcome

\* The hosts a run of four calls may leave.
LEMMA RunOfFour ==
    ASSUME NEW a, NEW b, NEW c, NEW d, NEW out, NEW o \in Run(<<a, b, c, d>>, out)
    PROVE  \/ o.h \in {a, b, c, d} /\ o.out = Failed
           \/ o.h = d /\ o.out = out
  BY DEF Run, Last, Outcome

\* What follows three calls is left to f.
LEMMA ThenOfThree ==
    ASSUME NEW a, NEW b, NEW c, NEW f, NEW o \in Then(<<a, b, c>>, f)
    PROVE  \/ o.h \in {a, b} /\ o.out = Failed
           \/ o \in f
  BY DEF Then, Outcome

\* The hosts a change in one call may leave.
LEMMA ChangeOfTwo ==
    ASSUME NEW a, NEW b, NEW out, NEW o \in Change(<<a, b>>, out)
    PROVE  \/ o.h \in {a, b} /\ o.out = Failed
           \/ o.h = b /\ o.out = out
  BY DEF Change, ChangeThen, Answers, Passed, Last, Outcome

\* What follows changes in three calls is left to f.
LEMMA ChangeThenOfFour ==
    ASSUME NEW a, NEW b, NEW c, NEW d, NEW f, NEW o \in ChangeThen(<<a, b, c, d>>, f)
    PROVE  \/ o.h \in {a, b, c} /\ o.out = Failed
           \/ o \in f
  BY DEF ChangeThen, Passed, Last, Outcome

\* A host appended to two,
LEMMA AppendToTwo ==
    ASSUME NEW a, NEW b, NEW c
    PROVE  Append(<<a, b>>, c) = <<a, b, c>>
<1> DEFINE S == {a, b, c}
           t == Append(<<a, b>>, c)
<1>1. a \in S /\ b \in S /\ c \in S
  OBVIOUS
<1> HIDE DEF S
<1>2. <<a, b>> \in Seq(S) /\ Len(<<a, b>>) = 2
  BY <1>1
<1>3. t \in Seq(S) /\ Len(t) = 3 /\ t[1] = a /\ t[2] = b /\ t[3] = c
  BY <1>1, <1>2
<1> HIDE DEF t
<1>4. t = <<a, b, c>>
  BY <1>3
<1>5. QED
  BY <1>4 DEF t

\* and to three.
LEMMA AppendToThree ==
    ASSUME NEW a, NEW b, NEW c, NEW d
    PROVE  Append(<<a, b, c>>, d) = <<a, b, c, d>>
<1> DEFINE S == {a, b, c, d}
           t == Append(<<a, b, c>>, d)
<1>1. a \in S /\ b \in S /\ c \in S /\ d \in S
  OBVIOUS
<1> HIDE DEF S
<1>2. <<a, b, c>> \in Seq(S) /\ Len(<<a, b, c>>) = 3
  BY <1>1
<1>3. t \in Seq(S) /\ Len(t) = 4 /\ t[1] = a /\ t[2] = b /\ t[3] = c /\ t[4] = d
  BY <1>1, <1>2
<1> HIDE DEF t
<1>4. t = <<a, b, c, d>>
  BY <1>3
<1>5. QED
  BY <1>4 DEF t

\* The hosts a change in two calls may leave.
LEMMA ChangeOfThree ==
    ASSUME NEW a, NEW b, NEW c, NEW out, NEW o \in Change(<<a, b, c>>, out)
    PROVE  \/ o.h \in {a, b, c} /\ o.out = Failed
           \/ o.h = c /\ o.out = out
  BY DEF Change, ChangeThen, Answers, Passed, Last, Outcome

\* The hosts a change in three calls may leave.
LEMMA ChangeOfFour ==
    ASSUME NEW a, NEW b, NEW c, NEW d, NEW out, NEW o \in Change(<<a, b, c, d>>, out)
    PROVE  \/ o.h \in {a, b, c, d} /\ o.out = Failed
           \/ o.h = d /\ o.out = out
  BY DEF Change, ChangeThen, Answers, Passed, Last, Outcome

\* A read leaves the host as it is.
LEMMA AnswerOutcome ==
    ASSUME NEW h, NEW out, NEW o \in Answers(h, out)
    PROVE  o.h = h /\ o.out \in {out, Failed}
  BY DEF Answers, Outcome

\* A refusal leaves the host as it is.
LEMMA RefuseOutcome ==
    ASSUME NEW h, NEW o \in Refuse(h)
    PROVE  o.h = h /\ o.out = Refused
  BY DEF Refuse, Outcome

-----------------------------------------------------------------------------
(* crontab_entry *)

\* Writing the crontab of a user changes no other.
LEMMA CronWrite ==
    ASSUME NEW h, CronShape(h), NEW u, NEW lines
    PROVE  CronOnly(h, writeUserCrontabLines(h, u, lines), {u})
  BY DEF CronShape, CronOnly, writeUserCrontabLines

\* So it is with the outcomes of a write, which may also be refused or fail.
LEMMA CronWriteOne ==
    ASSUME NEW h, CronShape(h), NEW u, NEW lines, NEW out, NEW o \in WriteOne(h, u, lines, out)
    PROVE  CronOnly(h, o.h, {u}) /\ o.out \in {out, Refused, Failed}
<1>1. CronOnly(h, h, {u}) /\ CronOnly(h, writeUserCrontabLines(h, u, lines), {u})
  BY CronWrite DEF CronOnly
<1>2. CASE lines = Refused
  BY <1>1, <1>2, RefuseOutcome DEF WriteOne, Outcome
<1>3. CASE lines # Refused
  <2>1. o \in Run(<<h, writeUserCrontabLines(h, u, lines)>>, out)
    BY <1>3 DEF WriteOne
  <2>2. QED
    BY <1>1, <2>1, RunOfTwo
<1>4. QED
  BY <1>2, <1>3

\* Creating an entry works on the crontab of the plan.
LEMMA CronCreated ==
    ASSUME NEW h, CronShape(h), NEW p, NEW o \in CronCreate(h, p)
    PROVE  CronOnly(h, o.h, {p.u}) /\ o.out \in {p, Refused, Failed}
  BY CronWriteOne DEF CronCreate

\* Updating one works on the crontabs of the plan and of the state.
LEMMA CronUpdated ==
    ASSUME NEW h, CronShape(h), NEW s, NEW p, NEW o \in CronUpdate(h, s, p)
    PROVE  CronOnly(h, o.h, {s.u, p.u}) /\ o.out \in {p, Refused, Failed}
<1>1. CASE o \in CronUpdateHere(h, s, p)
  <2>1. CronOnly(h, o.h, {p.u}) /\ o.out \in {p, Refused, Failed}
    BY <1>1, CronWriteOne DEF CronUpdateHere
  <2>2. QED
    BY <2>1 DEF CronOnly
<1>2. CASE o \in CronUpdateMoves(h, s, p)
  <2> DEFINE old == removeManagedCrontabEntry(h.tabs[s.u], s.k)
             new == createOrAdoptManagedCrontabEntry(h.tabs[p.u], p)
             w == writeUserCrontabLines(h, p.u, new)
             x == writeUserCrontabLines(w, s.u, old)
  <2>1. CronOnly(h, w, {p.u})
    BY CronWrite
  <2>2. CronOnly(w, x, {s.u})
    BY <2>1, CronWrite DEF CronOnly
  <2>3. \A y \in {h, w, x} : CronOnly(h, y, {s.u, p.u})
    BY <2>1, <2>2 DEF CronOnly
  <2>4. o \in Refuse(h) \/ o \in Change(<<h, w, x>>, p)
    BY <1>2 DEF CronUpdateMoves
  <2> HIDE DEF w, x
  <2>5. QED
    BY <2>3, <2>4, RefuseOutcome, ChangeOfThree
<1>3. QED
  BY <1>1, <1>2 DEF CronUpdate

\* Deleting one works on the crontab of the state.
LEMMA CronDeleted ==
    ASSUME NEW h, CronShape(h), NEW s, NEW o \in CronDelete(h, s)
    PROVE  CronOnly(h, o.h, {s.u})
<1> DEFINE new == removeManagedCrontabEntry(h.tabs[s.u], s.k)
<1>1. o \in Answers(h, Nil) \/ o \in WriteOne(h, s.u, new, Nil)
  BY DEF CronDelete
<1> HIDE DEF new
<1>2. CronOnly(h, h, {s.u})
  BY DEF CronOnly
<1>3. o \in WriteOne(h, s.u, new, Nil) => CronOnly(h, o.h, {s.u})
  BY CronWriteOne
<1>4. QED
  BY <1>1, <1>2, <1>3, AnswerOutcome

-----------------------------------------------------------------------------
(* tls_identity *)

WithPair(h, k, v) == [h EXCEPT !.file[k] = v]
WithChain(h, k, v) == [h EXCEPT !.file[k].chain = v]

\* Writing or restoring one pair, half or whole, changes no other.
LEMMA TlsWrite ==
    ASSUME NEW h, TlsShape(h), NEW y, NEW k, NEW v, TlsOnly(y, h, {k})
    PROVE  TlsOnly(y, WithPair(h, k, v), {k}) /\ TlsOnly(y, WithChain(h, k, v), {k})
<1>1. ASSUME NEW w PROVE TlsOnly(y, [h EXCEPT !.file = [h.file EXCEPT ![k] = w]], {k})
  BY DEF TlsShape, TlsOnly
<1>2. /\ WithPair(h, k, v) = [h EXCEPT !.file = [h.file EXCEPT ![k] = v]]
      /\ WithChain(h, k, v) = [h EXCEPT !.file = [h.file EXCEPT ![k] = [h.file[k] EXCEPT !.chain = v]]]
  BY DEF TlsShape, WithPair, WithChain
<1>3. QED
  BY <1>1, <1>2

\* Installing a pair, and putting the old one back, works on the files of its name.
LEMMA TlsApplied ==
    ASSUME NEW h, TlsShape(h), NEW p, NEW o \in applyTLSIdentity(h, p)
    PROVE  TlsOnly(h, o.h, {p.k}) /\ o.out \in {p, Refused, Failed}
<1> DEFINE hs == reconcileTLSIdentity(h, p)
           half == WithChain(h, p.k, p.v)
           done == WithPair(h, p.k, Pair(p.v))
           back(x) == WithChain(x, p.k, h.file[p.k].chain)
<1>1. hs = <<h, half, done>>
  BY DEF reconcileTLSIdentity, WithPair, WithChain
<1>2. \A x \in {h, half, done} : TlsOnly(h, x, {p.k})
  <2>1. TlsOnly(h, h, {p.k})
    BY DEF TlsOnly
  <2>2. QED
    BY <2>1, TlsWrite
<1>3. \A x \in {h, half, done} : TlsOnly(h, back(x), {p.k})
  <2>1. \A x \in {h, half, done} : TlsShape(x)
    BY <1>2 DEF TlsOnly
  <2>2. QED
    BY <1>2, <2>1, TlsWrite
<1>4. o \in Change(<<h, half, done>>, p) \/ \E x \in {h, half, done} : o \in Change(<<x, back(x), h>>, Refused)
  <2>1. o \in Change(hs, p) \/ \E i \in DOMAIN hs : o \in Change(restoreTLSIdentity(hs[i], h, p), Refused)
    BY DEF applyTLSIdentity
  <2>2. ASSUME NEW i \in DOMAIN hs PROVE hs[i] \in {h, half, done}
    BY <1>1, <2>2
  <2>3. QED
    BY <1>1, <2>1, <2>2 DEF restoreTLSIdentity, WithChain
<1> HIDE DEF half, done, back
<1>5. CASE o \in Change(<<h, half, done>>, p)
  BY <1>2, <1>5, ChangeOfThree
<1>6. ASSUME NEW x \in {h, half, done}, o \in Change(<<x, back(x), h>>, Refused)
      PROVE  TlsOnly(h, o.h, {p.k}) /\ o.out \in {p, Refused, Failed}
  <2>1. o.h \in {x, back(x), h} /\ o.out \in {Refused, Failed}
    BY <1>6, ChangeOfThree
  <2>2. QED
    BY <1>2, <1>3, <2>1
<1>7. QED
  BY <1>4, <1>5, <1>6

\* Creating a pair works on the files of its name.
LEMMA TlsCreated ==
    ASSUME NEW h, TlsShape(h), NEW p, NEW o \in TlsCreate(h, p)
    PROVE  TlsOnly(h, o.h, {p.k}) /\ o.out \in {p, Refused, Failed}
<1>1. o \in Refuse(h) \/ o \in applyTLSIdentity(h, p)
  BY DEF TlsCreate
<1>2. TlsOnly(h, h, {p.k})
  BY DEF TlsOnly
<1>3. QED
  BY <1>1, <1>2, RefuseOutcome, TlsApplied

\* Deleting a pair works on the files of its name.
LEMMA TlsDeleted ==
    ASSUME NEW h, TlsShape(h), NEW s, NEW o \in removeTLSIdentity(h, s)
    PROVE  TlsOnly(h, o.h, {s.k})
<1> DEFINE half == WithChain(h, s.k, Nil)
           gone == WithPair(h, s.k, NoPair)
<1>1. \A x \in {h, half, gone} : TlsOnly(h, x, {s.k})
  <2>1. TlsOnly(h, h, {s.k})
    BY DEF TlsOnly
  <2>2. QED
    BY <2>1, TlsWrite
<1>2. o \in Change(<<h, half, gone>>, Nil)
  BY DEF removeTLSIdentity, WithPair, WithChain
<1> HIDE DEF half, gone
<1>3. o.h \in {h, half, gone}
  BY <1>2, ChangeOfThree
<1>4. QED
  BY <1>1, <1>3

-----------------------------------------------------------------------------
(* apt_repository *)

\* Every keyring of h that a source of x names is on x.
KeysStay(h, x) ==
    /\ RepoShape(x)
    /\ \A f \in RepoFile : x.files[f] # Nil /\ x.files[f].by \in h.rings => x.files[f].by \in x.rings

WithRings(h, rings) == [h EXCEPT !.rings = rings]
WithFile(h, f, v) == [h EXCEPT !.files[f] = v]

\* The fields of a host with other keyrings.
LEMMA RingsFields ==
    ASSUME NEW h, RepoShape(h), NEW rings
    PROVE  /\ RepoShape(WithRings(h, rings))
           /\ WithRings(h, rings).files = h.files /\ WithRings(h, rings).rings = rings
  BY DEF RepoShape, WithRings

\* A source that names a keyring keeps it from the removal of unused ones.
LEMMA CleanupKeeps ==
    ASSUME NEW h, NEW x, KeysStay(h, x), NEW s, NEW p, NEW absent
    PROVE  KeysStay(h, cleanupRepositoryKeyrings(x, s, p, absent))
<1> DEFINE paths == CleanupPaths(managedSignedByPath(s), managedSignedByPath(p), absent)
           left == x.rings \ {ring \in paths : ~Referenced(x, ring)}
<1>1. cleanupRepositoryKeyrings(x, s, p, absent) = WithRings(x, left)
  BY DEF cleanupRepositoryKeyrings, removeRepositoryKeyringIfUnused, WithRings
<1>2. WithRings(x, left).files = x.files /\ WithRings(x, left).rings = left /\ RepoShape(WithRings(x, left))
  BY RingsFields DEF KeysStay
<1>3. ASSUME NEW f \in RepoFile, x.files[f] # Nil PROVE x.files[f].by \in x.rings => x.files[f].by \in left
  <2>1. Referenced(x, x.files[f].by)
    BY <1>3 DEF Referenced
  <2>2. QED
    BY <2>1
<1> HIDE DEF left
<1>4. QED
  BY <1>1, <1>2, <1>3 DEF KeysStay

\* Writing or removing the file of a source, when the keyring it names is there.
LEMMA FileKeeps ==
    ASSUME NEW h, NEW x, KeysStay(h, x), NEW f, NEW v, v # Nil => v.by \in x.rings \/ v.by \notin h.rings
    PROVE  KeysStay(h, WithFile(x, f, v))
<1>1. /\ WithFile(x, f, v).rings = x.rings
      /\ WithFile(x, f, v).files = [x.files EXCEPT ![f] = v]
      /\ RepoShape(WithFile(x, f, v))
  BY DEF KeysStay, RepoShape, WithFile
<1>2. QED
  BY <1>1 DEF KeysStay, RepoShape

\* No step of an apply takes away a keyring that is in use.
LEMMA RepoApplied ==
    ASSUME NEW h, RepoShape(h), NEW s, NEW p, NEW o \in applyRepository(h, s, p)
    PROVE  KeysStay(h, o.h)
<1> DEFINE keyed == WithRings(h, h.rings \cup ({managedSignedByPath(p)} \ {""}))
           written == WithFile(keyed, p.k, renderRepositoryFile(p))
           removed == WithFile(h, p.k, Nil)
           absent == p.ensure = "absent"
           done == cleanupRepositoryKeyrings(IF absent THEN removed ELSE written, s, p, absent)
<1>1. KeysStay(h, h)
  BY DEF KeysStay
<1>2. KeysStay(h, keyed) /\ h.rings \subseteq keyed.rings
  <2>1. /\ RepoShape(keyed)
        /\ keyed.files = h.files /\ keyed.rings = h.rings \cup ({managedSignedByPath(p)} \ {""})
    BY RingsFields
  <2> HIDE DEF keyed
  <2>2. QED
    BY <2>1 DEF KeysStay
<1>3. KeysStay(h, written)
  <2>1. renderRepositoryFile(p).by \in keyed.rings \/ renderRepositoryFile(p).by \notin h.rings
    BY <1>2
  <2> HIDE DEF keyed
  <2>2. QED
    BY <1>2, <2>1, FileKeeps
<1>4. KeysStay(h, removed)
  BY <1>1, FileKeeps
<1>5. /\ \/ o \in Change(<<h, removed, done>>, p)
         \/ o \in Change(<<h, keyed, written, done>>, p)
         \/ o \in {Outcome(h, Failed), Outcome(removed, Failed), Outcome(written, Failed)}
  BY DEF applyRepository, WithRings, WithFile
<1> HIDE DEF keyed, written, removed
<1>6. KeysStay(h, done)
  BY <1>3, <1>4, CleanupKeeps
<1> HIDE DEF done
<1>7. o.h \in {h, keyed, written, removed, done}
  BY <1>5, ChangeOfThree, ChangeOfFour DEF Outcome
<1>8. QED
  BY <1>1, <1>2, <1>3, <1>4, <1>6, <1>7

\* Nor does one of a create.
LEMMA RepoCreated ==
    ASSUME NEW h, RepoShape(h), NEW p, NEW o \in RepoCreate(h, p)
    PROVE  KeysStay(h, o.h)
<1>1. \/ o \in applyRepository(h, Nil, p)
      \/ o \in Answers(h, [p EXCEPT !.ensure = "present"])
      \/ o \in Refuse(h)
  BY DEF RepoCreate
<1>2. KeysStay(h, h)
  BY DEF KeysStay
<1>3. QED
  BY <1>1, <1>2, RepoApplied, AnswerOutcome, RefuseOutcome

\* Nor does one of a delete.
LEMMA RepoDeleted ==
    ASSUME NEW h, RepoShape(h), NEW s, NEW o \in RepoDelete(h, s)
    PROVE  KeysStay(h, o.h)
<1> DEFINE removed == WithFile(h, s.k, Nil)
           done == cleanupRepositoryKeyrings(removed, s, s, TRUE)
<1>1. KeysStay(h, h)
  BY DEF KeysStay
<1>2. KeysStay(h, removed)
  BY <1>1, FileKeeps
<1>3. o \in Change(<<h, removed, done>>, Nil) \/ o = Outcome(h, Failed)
  BY DEF RepoDelete, WithFile
<1> HIDE DEF removed
<1>4. KeysStay(h, done)
  BY <1>2, CleanupKeeps
<1> HIDE DEF done
<1>5. o.h \in {h, removed, done}
  BY <1>3, ChangeOfThree DEF Outcome
<1>6. QED
  BY <1>1, <1>2, <1>4, <1>5

-----------------------------------------------------------------------------
(* file *)

\* A file and what is left beside it, between the operations and during one.
FileHostOf(path, cand, back, left) == [path |-> path, cand |-> cand, back |-> back, left |-> left]
FileShape(h) == h = FileHostOf(h.path, Nil, Nil, h.left)
FileFields(h) == h = FileHostOf(h.path, h.cand, h.back, h.left)

\* Where an install of a file may stop: with the temporary files it made, or, if it
\* was refused, as it began.
InstallStops(h, o) == FileFields(o.h) /\ (MarksApart /\ o.out = Refused => o.h = h)

\* The host after one of its files changes.
LEMMA FileChanged ==
    ASSUME NEW path, NEW cand, NEW back, NEW left, NEW v
    PROVE  /\ [FileHostOf(path, cand, back, left) EXCEPT !.path = v] = FileHostOf(v, cand, back, left)
           /\ [FileHostOf(path, cand, back, left) EXCEPT !.cand = v] = FileHostOf(path, v, back, left)
           /\ [FileHostOf(path, cand, back, left) EXCEPT !.back = v] = FileHostOf(path, cand, v, left)
           /\ FileHostOf(path, cand, back, left).path = path
           /\ FileHostOf(path, cand, back, left).cand = cand
           /\ FileHostOf(path, cand, back, left).back = back
           /\ FileFields(FileHostOf(path, cand, back, left))
  BY DEF FileHostOf, FileFields

\* The host after one of them is renamed.
LEMMA FileRenamed ==
    ASSUME NEW path, NEW cand, NEW back, NEW left
    PROVE  /\ FileRename(FileHostOf(path, cand, back, left), "cand", "path") = FileHostOf(cand, Nil, back, left)
           /\ FileRename(FileHostOf(path, cand, back, left), "path", "back") = FileHostOf(Nil, cand, path, left)
           /\ FileRename(FileHostOf(path, cand, back, left), "back", "path") = FileHostOf(back, cand, Nil, left)
<1>1. FileRename(FileHostOf(path, cand, back, left), "cand", "path") = FileHostOf(cand, Nil, back, left)
  BY DEF FileRename, FileHostOf
<1>2. FileRename(FileHostOf(path, cand, back, left), "path", "back") = FileHostOf(Nil, cand, path, left)
  BY DEF FileRename, FileHostOf
<1>3. FileRename(FileHostOf(path, cand, back, left), "back", "path") = FileHostOf(back, cand, Nil, left)
  BY DEF FileRename, FileHostOf
<1>4. QED
  BY <1>1, <1>2, <1>3

\* The candidate file is written, and given to its owner.
LEMMA CandidateWritten ==
    ASSUME NEW h, FileShape(h), NEW p
    PROVE  \E b, c : writeManagedFile(h, p) =
             <<h, FileHostOf(h.path, b, Nil, h.left), FileHostOf(h.path, c, Nil, h.left)>>
<1> DEFINE b == [c |-> p.c, own |-> "executor"]
           c == [b EXCEPT !.own = p.own]
           new == [h EXCEPT !.cand = b]
<1>1. new = FileHostOf(h.path, b, Nil, h.left)
  BY FileChanged DEF FileShape
<1>2. Chowned(new, "cand", p.own) = [new EXCEPT !.cand = [new.cand EXCEPT !.own = p.own]]
  BY DEF Chowned
<1> HIDE DEF new
<1>3. new.cand = b
  BY <1>1, FileChanged
<1> HIDE DEF b
<1>4. Chowned(new, "cand", p.own) = FileHostOf(h.path, c, Nil, h.left)
  BY <1>1, <1>2, <1>3, FileChanged
<1> USE DEF new, b
<1>5. writeManagedFile(h, p) = <<h, new, Chowned(new, "cand", p.own)>>
  BY DEF writeManagedFile
<1> HIDE DEF b, c, new
<1>6. QED
  BY <1>1, <1>4, <1>5

\* The state of a file is no mark.
LEMMA FileStateIsOne ==
    ASSUME MarksApart, NEW x, NEW p
    PROVE  FileState(x, p) # Refused
<1> DEFINE f == FileState(x, p)
<1>1. f = [i \in DOMAIN f |-> f[i]]
  BY DEF FileState
<1> HIDE DEF f
<1>2. f # Refused
  BY <1>1, Zenon DEF MarksApart
<1>3. QED
  BY <1>2 DEF f

\* An install that is validated on the candidate,
LEMMA StagedStops ==
    ASSUME NEW h, FileShape(h), NEW p, NEW o \in applyFileWithStagedValidation(h, p)
    PROVE  InstallStops(h, o)
<1>1. MarksApart => Failed # Refused /\ \A x : FileState(x, p) # Refused
  BY FileStateIsOne DEF MarksApart
<1>2. PICK b, c : writeManagedFile(h, p) =
             <<h, FileHostOf(h.path, b, Nil, h.left), FileHostOf(h.path, c, Nil, h.left)>>
  BY CandidateWritten
<1> DEFINE new == FileHostOf(h.path, b, Nil, h.left)
           w == FileHostOf(h.path, c, Nil, h.left)
           done == FileRename(w, "cand", "path")
           clean == [w EXCEPT !.cand = Nil]
<1>3. /\ h = FileHostOf(h.path, Nil, Nil, h.left)
      /\ clean = h /\ done = FileHostOf(c, Nil, Nil, h.left)
  BY FileChanged, FileRenamed DEF FileShape
<1>8. FileFields(h) /\ FileFields(new) /\ FileFields(w) /\ FileFields(done)
  BY <1>3, FileChanged
<1>4. Last(<<h, new, w>>) = w
  BY DEF Last
<1> HIDE DEF new, w, done, clean
<1>5. \/ o \in Then(<<h, new, w>>, {Outcome(clean, Refused)})
      \/ o \in Then(<<h, new, w>>, Answers(done, FileState(done, p)))
      \/ o \in Then(<<h, new, w>>, {Outcome(x, Failed) : x \in {clean, w}})
  BY <1>2, <1>4 DEF applyFileWithStagedValidation, Then, Cleanup, clean, done, new, w
<1>6. o.h \in {h, new, w, clean, done} /\ (MarksApart /\ o.out = Refused => o.h = h)
  BY <1>1, <1>3, <1>5, ThenOfThree DEF Outcome, Answers
<1>7. QED
  BY <1>3, <1>6, <1>8 DEF InstallStops

\* one that is validated in place of the old file, which is put back if it is rejected,
LEMMA InPlaceStops ==
    ASSUME NEW h, FileShape(h), NEW p, NEW o \in applyFileWithInPlaceValidation(h, p)
    PROVE  InstallStops(h, o)
<1>1. MarksApart => Failed # Refused /\ \A x : FileState(x, p) # Refused
  BY FileStateIsOne DEF MarksApart
<1>2. PICK b, c : writeManagedFile(h, p) =
             <<h, FileHostOf(h.path, b, Nil, h.left), FileHostOf(h.path, c, Nil, h.left)>>
  BY CandidateWritten
<1> DEFINE left == h.left
           new == FileHostOf(h.path, b, Nil, left)
           hs == writeManagedFile(h, p)
           w == Last(hs)
           existed == h.path # Nil
           moved == IF existed THEN FileRename(w, "path", "back") ELSE w
           placed == FileRename(moved, "cand", "path")
           done == [placed EXCEPT !.back = Nil]
           restored == IF existed THEN FileRename(moved, "back", "path") ELSE moved
           rollback == rollbackValidatedFile(placed, existed)
           swept == UNION {{Outcome(x, Failed) : x \in Cleanup(m)} : m \in {w, moved, restored}}
           passed == Run(<<placed, done>>, FileState(done, p))
           undone == Run(rollback, Refused)
           f == swept \cup IF runFileValidation(p.c) THEN passed ELSE undone
<1>3. applyFileWithInPlaceValidation(h, p) = Then(hs, f)
  BY DEF applyFileWithInPlaceValidation
<1>9. hs = <<h, new, w>> /\ w = FileHostOf(h.path, c, Nil, left)
  BY <1>2 DEF Last
<1> HIDE DEF hs, w
<1>4. \/ o.h \in {h, new} /\ o.out = Failed
      \/ o.out = Failed /\ \E m \in {w, moved, restored} : o.h \in {[m EXCEPT !.cand = Nil], m}
      \/ o \in Run(<<placed, done>>, FileState(done, p))
      \/ o \in Run(rollback, Refused)
  <2>1. o \in f => o \in swept \/ o \in passed \/ o \in undone
    <3> HIDE DEF swept, passed, undone
    <3>1. QED
      OBVIOUS
  <2>2. (o.h \in {h, new} /\ o.out = Failed) \/ o \in f
    <3> HIDE DEF new, w, f
    <3>1. QED
      BY <1>3, <1>9, ThenOfThree
  <2> HIDE DEF w, moved, placed, done, restored, rollback, f
  <2>3. QED
    BY <2>1, <2>2 DEF Outcome, Cleanup
<1>5. h = FileHostOf(h.path, Nil, Nil, left) /\ w.path = h.path
  BY <1>9, FileChanged DEF FileShape
<1>6. CASE existed
  <2>1. /\ moved = FileHostOf(Nil, c, h.path, left) /\ placed = FileHostOf(c, Nil, h.path, left)
        /\ done = FileHostOf(c, Nil, Nil, left) /\ restored = w
    BY <1>6, <1>9, FileChanged, FileRenamed
  <2>2. rollback = <<placed, FileHostOf(Nil, Nil, h.path, left), h>>
    <3>1. rollback = <<placed, [placed EXCEPT !.path = Nil], FileRename([placed EXCEPT !.path = Nil], "back", "path")>>
      BY <1>6 DEF rollbackValidatedFile
    <3>2. [placed EXCEPT !.path = Nil] = FileHostOf(Nil, Nil, h.path, left)
      BY <2>1, FileChanged
    <3> HIDE DEF placed, rollback
    <3>3. QED
      BY <1>5, <3>1, <3>2, FileRenamed
  <2> HIDE DEF moved, placed, done, restored, rollback, f
  <2>3. \/ o.out = Failed /\ o.h \in {h, new, w, FileHostOf(h.path, Nil, Nil, left), moved,
                                      FileHostOf(Nil, Nil, h.path, left), placed, done}
        \/ o.out = FileState(done, p) /\ o.h = done
        \/ o.out = Refused /\ o.h = h
    <3>1. o \in Run(<<placed, done>>, FileState(done, p)) =>
            \/ o.out = Failed /\ o.h \in {placed, done}
            \/ o.out = FileState(done, p) /\ o.h = done
      BY RunOfTwo
    <3>2. o \in Run(rollback, Refused) =>
            \/ o.out = Failed /\ o.h \in {placed, FileHostOf(Nil, Nil, h.path, left), h}
            \/ o.out = Refused /\ o.h = h
      BY <2>2, RunOfThree
    <3>3. \A m \in {w, moved, restored} :
            [m EXCEPT !.cand = Nil] \in {FileHostOf(h.path, Nil, Nil, left), FileHostOf(Nil, Nil, h.path, left)}
      BY <1>9, <2>1, FileChanged
    <3> HIDE DEF new
    <3>4. QED
      BY <1>4, <2>1, <3>1, <3>2, <3>3 DEF Outcome
  <2>4. QED
    BY <1>1, <1>5, <1>9, <2>1, <2>3, FileChanged DEF InstallStops
<1>7. CASE ~existed
  <2>1. /\ moved = w /\ restored = w /\ placed = FileHostOf(c, Nil, Nil, left) /\ done = placed
    BY <1>7, <1>9, FileChanged, FileRenamed
  <2>2. rollback = <<placed, h>>
    <3>1. rollback = <<placed, [placed EXCEPT !.path = Nil]>>
      BY <1>7 DEF rollbackValidatedFile
    <3>2. [placed EXCEPT !.path = Nil] = FileHostOf(Nil, Nil, Nil, left)
      BY <2>1, FileChanged
    <3> HIDE DEF placed, rollback
    <3>3. QED
      BY <1>5, <1>7, <3>1, <3>2
  <2> HIDE DEF moved, placed, done, restored, rollback, f
  <2>3. \/ o.out = Failed /\ o.h \in {h, new, w, FileHostOf(h.path, Nil, Nil, left), placed}
        \/ o.out = FileState(done, p) /\ o.h = placed
        \/ o.out = Refused /\ o.h = h
    <3>1. o \in Run(<<placed, done>>, FileState(done, p)) =>
            \/ o.out = Failed /\ o.h = placed
            \/ o.out = FileState(done, p) /\ o.h = placed
      BY <2>1, RunOfTwo
    <3>2. o \in Run(rollback, Refused) =>
            \/ o.out = Failed /\ o.h \in {placed, h}
            \/ o.out = Refused /\ o.h = h
      BY <2>2, RunOfTwo
    <3>3. \A m \in {w, moved, restored} : [m EXCEPT !.cand = Nil] = FileHostOf(h.path, Nil, Nil, left)
      BY <1>9, <2>1, FileChanged
    <3> HIDE DEF new
    <3>4. QED
      BY <1>4, <2>1, <3>1, <3>2, <3>3 DEF Outcome
  <2>4. QED
    BY <1>1, <1>5, <1>9, <2>1, <2>3, FileChanged DEF InstallStops
<1>8. QED
  BY <1>6, <1>7

\* and one that is not validated.
LEMMA PlainStops ==
    ASSUME NEW h, FileShape(h), NEW p, p.validation \notin {"staged", "in_place"},
           NEW o \in FileInstall(h, p)
    PROVE  InstallStops(h, o)
<1> DEFINE cut == [h EXCEPT !["path"] = Torn]
           new == [h EXCEPT !["path"] = [c |-> p.c, own |-> "executor"]]
           done(hs) == Chowned(Last(hs), "path", p.own)
           owned == [new EXCEPT !.path = [new.path EXCEPT !.own = p.own]]
<1>1. MarksApart => Failed # Refused /\ \A x : FileState(x, p) # Refused
  BY FileStateIsOne DEF MarksApart
<1>2. PICK hs \in FileWrite(h, "path", p.c) : o \in Run(Append(hs, done(hs)), FileState(done(hs), p))
  BY DEF FileInstall
<1>3. hs = <<h, new>> \/ hs = <<h, cut, new>>
  BY <1>2 DEF FileWrite
<1>4. /\ cut = FileHostOf(Torn, Nil, Nil, h.left)
      /\ new = FileHostOf([c |-> p.c, own |-> "executor"], Nil, Nil, h.left)
  <2>1. \A v : [h EXCEPT !["path"] = v] = FileHostOf(v, Nil, Nil, h.left)
    BY FileChanged DEF FileShape
  <2>2. QED
    BY <2>1
<1> HIDE DEF cut, new
<1>5. FileFields(h) /\ FileFields(cut) /\ FileFields(new) /\ FileFields(owned)
  <2>1. \A v : [new EXCEPT !.path = v] = FileHostOf(v, Nil, Nil, h.left)
    BY <1>4, FileChanged
  <2>2. h = FileHostOf(h.path, Nil, Nil, h.left)
    BY DEF FileShape
  <2>3. owned = FileHostOf([new.path EXCEPT !.own = p.own], Nil, Nil, h.left)
    BY <2>1
  <2> HIDE DEF owned
  <2>4. QED
    BY <1>4, <2>2, <2>3, FileChanged
<1>6. done(hs) = owned
  <2>1. Last(hs) = new
    BY <1>3 DEF Last
  <2>2. QED
    BY <2>1 DEF Chowned
<1> HIDE DEF owned, done
<1>7. o.h \in {h, cut, new, owned} /\ (MarksApart => o.out # Refused)
  <2> DEFINE out == FileState(done(hs), p)
  <2>1. MarksApart => out # Refused
    BY <1>1
  <2> HIDE DEF out
  <2>2. Append(hs, owned) = <<h, new, owned>> \/ Append(hs, owned) = <<h, cut, new, owned>>
    <3>1. CASE hs = <<h, new>>
      BY <3>1, AppendToTwo, Zenon
    <3>2. CASE hs = <<h, cut, new>>
      BY <3>2, AppendToThree, Zenon
    <3>3. QED
      BY <1>3, <3>1, <3>2
  <2>3. o \in Run(<<h, new, owned>>, out) \/ o \in Run(<<h, cut, new, owned>>, out)
    BY <1>2, <1>6, <2>2, Zenon DEF out
  <2>4. QED
    BY <1>1, <2>1, <2>3, RunOfThree, RunOfFour
<1>8. QED
  BY <1>5, <1>7 DEF InstallStops

\* The temporary files that are left get names of their own, and a host without them
\* stays as it is.
LEMMA TempPaths ==
    ASSUME NEW h, FileFields(h)
    PROVE  FileShape(fileValidationTempPath(h)) /\ (FileShape(h) => fileValidationTempPath(h) = h)
<1> DEFINE left == h.left \cup {x.c : x \in {h.cand, h.back} \ {Nil}}
<1>1. fileValidationTempPath(h) = FileHostOf(h.path, Nil, Nil, left)
  <2>1. fileValidationTempPath(h) = [h EXCEPT !.left = left, !.cand = Nil, !.back = Nil]
    BY Zenon DEF fileValidationTempPath
  <2> HIDE DEF left
  <2> DEFINE x == [h EXCEPT !.left = left]
             y == [x EXCEPT !.cand = Nil]
  <2>2. fileValidationTempPath(h) = [y EXCEPT !.back = Nil]
    BY <2>1
  <2>3. x = FileHostOf(h.path, h.cand, h.back, left)
    <3>1. DOMAIN h = {"path", "cand", "back", "left"}
      BY DEF FileFields, FileHostOf
    <3>2. QED
      BY <3>1 DEF FileHostOf
  <2> HIDE DEF x
  <2>4. y = FileHostOf(h.path, Nil, h.back, left)
    BY <2>3, FileChanged
  <2> HIDE DEF y
  <2>5. QED
    BY <2>2, <2>4, FileChanged
<1>2. FileShape(h) => left = h.left
  BY DEF FileShape, FileHostOf
<1> HIDE DEF left
<1>3. QED
  BY <1>1, <1>2 DEF FileShape, FileHostOf

\* An apply of a file leaves a host without its temporary files, which is as it was if
\* the apply is refused.
LEMMA FileApplied ==
    ASSUME NEW h, FileShape(h), NEW p, NEW o \in applyFile(h, p)
    PROVE  FileShape(o.h) /\ (MarksApart /\ o.out = Refused => o.h = h)
<1>1. PICK q \in FileInstall(h, p) \cup {Outcome(h, Failed)} : o = Outcome(fileValidationTempPath(q.h), q.out)
  BY DEF applyFile
<1>2. o.h = fileValidationTempPath(q.h) /\ o.out = q.out
  BY <1>1 DEF Outcome
<1>3. InstallStops(h, q)
  <2>1. CASE q = Outcome(h, Failed)
    BY <2>1, FileChanged DEF Outcome, InstallStops, FileShape
  <2>2. CASE p.validation = "staged" /\ q \in FileInstall(h, p)
    BY <2>2, StagedStops DEF FileInstall
  <2>3. CASE p.validation = "in_place" /\ q \in FileInstall(h, p)
    BY <2>3, InPlaceStops DEF FileInstall
  <2>4. CASE p.validation \notin {"staged", "in_place"} /\ q \in FileInstall(h, p)
    BY <2>4, PlainStops
  <2>5. QED
    BY <1>1, <2>1, <2>2, <2>3, <2>4
<1>4. QED
  BY <1>2, <1>3, TempPaths DEF InstallStops

\* So do a create
LEMMA FileCreated ==
    ASSUME NEW h, FileShape(h), NEW p, NEW o \in FileCreate(h, p)
    PROVE  FileShape(o.h) /\ (MarksApart /\ o.out = Refused => o.h = h)
<1>1. CASE o \in Refuse(h)
  BY <1>1 DEF Refuse, Outcome
<1>2. CASE o \in applyFile(h, p)
  BY <1>2, FileApplied
<1>3. QED
  BY <1>1, <1>2 DEF FileCreate

\* and a delete.
LEMMA FileDeleted ==
    ASSUME NEW h, FileShape(h), NEW s, NEW o \in FileDelete(h, s)
    PROVE  FileShape(o.h) /\ (MarksApart /\ o.out = Refused => o.h = h)
<1>1. MarksApart => Nil # Refused /\ Failed # Refused
  BY DEF MarksApart
<1> DEFINE gone == [h EXCEPT !.path = Nil]
<1>2. FileShape(gone)
  BY FileChanged DEF FileShape
<1>3. o \in Answers(h, Nil) \/ o \in Run(<<h, gone>>, Nil)
  BY DEF FileDelete
<1> HIDE DEF gone
<1>4. o.h \in {h, gone} /\ (MarksApart => o.out # Refused)
  BY <1>1, <1>3, RunOfTwo DEF Answers, Outcome
<1>5. QED
  BY <1>2, <1>4

-----------------------------------------------------------------------------
(* trusted_cert *)

\* The anchors, and those the store was built of.
CertShape(h) == h = [file |-> h.file, live |-> h.live]

\* An anchor is installed or removed and the store built, or everything is put back:
\* the store as it was, too, as it is not built again.
LEMMA CertInstalled ==
    ASSUME NEW h, CertShape(h), NEW k, NEW v, NEW out, NEW o \in CertInstall(h, k, v, out)
    PROVE  CertShape(o.h) /\ (MarksApart /\ out # Refused /\ o.out = Refused => o.h = h)
<1> DEFINE w == [h EXCEPT !.file[k] = v]
           x == [w EXCEPT !.file = h.file]
<1>1. MarksApart => Failed # Refused
  BY DEF MarksApart
<1>2. w = [h EXCEPT !.file = [h.file EXCEPT ![k] = v]]
  OBVIOUS
<1>3. CertShape(w)
  BY <1>2 DEF CertShape
<1>4. w.live = h.live
  BY <1>2 DEF CertShape
<1>5. \/ o \in Answers(h, out)
      \/ o \in Run(<<h, w, updateTrustStore(w)>>, out)
      \/ o \in Run(<<w, x>>, Refused)
  BY DEF CertInstall, restoreSnapshot
<1> HIDE DEF w
<1>6. x = h
  BY <1>3, <1>4 DEF CertShape
<1>7. CertShape(updateTrustStore(w))
  BY <1>3 DEF CertShape, updateTrustStore
<1>8. o.h \in {h, w, updateTrustStore(w)} /\ (MarksApart /\ out # Refused /\ o.out = Refused => o.h = h)
  BY <1>1, <1>5, <1>6, RunOfTwo, RunOfThree DEF Answers, Outcome
<1>9. QED
  BY <1>3, <1>7, <1>8

\* So it is with a create,
LEMMA CertCreated ==
    ASSUME NEW h, CertShape(h), NEW p, NEW o \in CertCreate(h, p)
    PROVE  CertShape(o.h) /\ (MarksApart /\ p # Refused /\ o.out = Refused => o.h = h)
<1>1. o \in Refuse(h) \/ o \in CertInstall(h, p.k, p.v, p)
  BY DEF CertCreate, applyTrustedCert
<1>2. QED
  BY <1>1, RefuseOutcome, CertInstalled

\* an update
LEMMA CertUpdated ==
    ASSUME NEW h, CertShape(h), NEW p, NEW o \in applyTrustedCert(h, p)
    PROVE  CertShape(o.h) /\ (MarksApart /\ p # Refused /\ o.out = Refused => o.h = h)
  BY CertInstalled DEF applyTrustedCert

\* and a delete.
LEMMA CertDeleted ==
    ASSUME NEW h, CertShape(h), NEW s, NEW o \in CertDelete(h, s)
    PROVE  CertShape(o.h) /\ (MarksApart /\ o.out = Refused => o.h = h)
<1>1. MarksApart => Nil # Refused
  BY DEF MarksApart
<1>2. QED
  BY <1>1, CertInstalled DEF CertDelete

-----------------------------------------------------------------------------
(* systemd_unit *)

\* A unit has the fields of UnitHost.
UnitField == {"pkg", "path", "drop", "override", "seen", "runs", "enabled", "active"}
UnitShape(h) == h = [f \in UnitField |-> h[f]]

\* What systemd loads, and the drop-in that is put back.
LEMMA UnitSteps ==
    ASSUME NEW h, UnitShape(h)
    PROVE  /\ UnitShape(daemonReload(h))
           /\ \A v : UnitShape([h EXCEPT !.drop = v]) /\ UnitShape([h EXCEPT !.path = v])
           /\ \A w : UnitShape(w) /\ w.seen = effective(w) /\ (\A g \in UnitField \ {"drop", "seen"} : h[g] = w[g])
                => daemonReload([h EXCEPT !.drop = w.drop]) = w
<1>1. \A v : UnitShape([h EXCEPT !.drop = v]) /\ UnitShape([h EXCEPT !.path = v])
  BY DEF UnitShape
<1>2. \A x : UnitShape(x) => UnitShape(daemonReload(x))
  BY DEF UnitShape, daemonReload
<1>3. ASSUME NEW w, UnitShape(w), w.seen = effective(w), \A g \in UnitField \ {"drop", "seen"} : h[g] = w[g]
      PROVE  daemonReload([h EXCEPT !.drop = w.drop]) = w
  <2> DEFINE x == [h EXCEPT !.drop = w.drop]
             y == daemonReload(x)
  <2>1. UnitShape(x) /\ \A g \in UnitField \ {"seen"} : x[g] = w[g]
    BY <1>3 DEF UnitShape, UnitField
  <2> HIDE DEF x
  <2>2. effective(x) = effective(w)
    BY <2>1 DEF effective, UnitField
  <2>3. UnitShape(y) /\ \A g \in UnitField : y[g] = w[g]
    BY <1>3, <2>1, <2>2 DEF UnitShape, UnitField, daemonReload
  <2> HIDE DEF y
  <2>4. y = w
    BY <1>3, <2>3 DEF UnitShape
  <2>5. QED
    BY <2>4 DEF x, y
<1>4. QED
  BY <1>1, <1>2, <1>3

\* What the pack asks of systemctl.
Verb == {"enable", "disable", "mask", "unmask", "stop", "start", "restart"}

\* systemctl keeps a unit one.
LEMMA EffectShape ==
    ASSUME NEW h, UnitShape(h), NEW verb \in Verb
    PROVE  UnitShape(Effect(h, verb))
<1>1. \A v : /\ UnitShape([h EXCEPT !.enabled = v]) /\ UnitShape([h EXCEPT !.path = v])
             /\ UnitShape([h EXCEPT !.active = v])
  BY DEF UnitShape
<1>2. \A v, u : UnitShape([h EXCEPT !.active = v, !.runs = u])
  BY DEF UnitShape
<1>3. QED
  BY <1>1, <1>2 DEF Effect, Verb

\* A sequence of units, and commands that passed through one.
UnitSeq(hs) == Len(hs) > 0 /\ \E S : hs \in Seq(S) /\ \A y \in S : UnitShape(y)
Commanded(x) == x = [hs |-> x.hs, ok |-> x.ok] /\ UnitSeq(x.hs)

\* A record of such a sequence.
LEMMA CommandedRecord ==
    ASSUME NEW hs, UnitSeq(hs), NEW ok
    PROVE  Commanded([hs |-> hs, ok |-> ok])
<1> DEFINE x == [hs |-> hs, ok |-> ok]
<1>1. x.hs = hs /\ x.ok = ok
  OBVIOUS
<1>2. QED
  BY <1>1 DEF Commanded

\* Its last member is a unit, and another may follow.
LEMMA UnitSeqGrows ==
    ASSUME NEW hs, UnitSeq(hs)
    PROVE  /\ UnitShape(Last(hs)) /\ \A i \in 1 .. Len(hs) : UnitShape(hs[i])
           /\ \A e : UnitShape(e) => UnitSeq(Append(hs, e))
<1>1. PICK S : hs \in Seq(S) /\ \A y \in S : UnitShape(y)
  BY DEF UnitSeq
<1>2. Len(hs) \in Nat /\ Len(hs) > 0
  BY <1>1 DEF UnitSeq
<1>3. \A i \in 1 .. Len(hs) : UnitShape(hs[i])
  BY <1>1
<1>4. UnitShape(Last(hs))
  BY <1>2, <1>3 DEF Last
<1>5. ASSUME NEW e, UnitShape(e) PROVE UnitSeq(Append(hs, e))
  <2> DEFINE T == S \cup {e}
  <2>1. \A y \in T : UnitShape(y)
    BY <1>1, <1>5
  <2>2. S \subseteq T /\ e \in T
    OBVIOUS
  <2> HIDE DEF T
  <2>3. hs \in Seq(T)
    BY <1>1, <2>2
  <2>4. Append(hs, e) \in Seq(T) /\ Len(Append(hs, e)) = Len(hs) + 1
    BY <2>2, <2>3
  <2>5. QED
    BY <1>2, <2>1, <2>4 DEF UnitSeq
<1>6. QED
  BY <1>3, <1>4, <1>5

\* The hosts commands passed through are units after the next command,
LEMMA CommandedNext ==
    ASSUME NEW x, Commanded(x), NEW verb \in Verb \cup {""}
    PROVE  Commanded(systemctl(x, verb))
<1> DEFINE e == Effect(Last(x.hs), verb)
           hs == Append(x.hs, e)
<1>1. x = [hs |-> x.hs, ok |-> x.ok] /\ UnitSeq(x.hs)
  BY DEF Commanded
<1>2. \/ systemctl(x, verb) = x
      \/ systemctl(x, verb) = [x EXCEPT !.ok = FALSE]
      \/ verb # "" /\ systemctl(x, verb) = [x EXCEPT !.hs = hs]
  BY Zenon DEF systemctl
<1>3. CASE systemctl(x, verb) = [x EXCEPT !.ok = FALSE]
  <2>1. systemctl(x, verb) = [hs |-> x.hs, ok |-> FALSE]
    BY <1>1, <1>3
  <2>2. QED
    BY <1>1, <2>1, CommandedRecord, Zenon
<1>4. CASE verb # "" /\ systemctl(x, verb) = [x EXCEPT !.hs = hs]
  <2>1. UnitShape(e)
    BY <1>1, <1>4, UnitSeqGrows, EffectShape
  <2> HIDE DEF e
  <2>2. UnitSeq(hs)
    BY <1>1, <2>1, UnitSeqGrows
  <2> HIDE DEF hs
  <2>3. systemctl(x, verb) = [hs |-> hs, ok |-> x.ok]
    BY <1>1, <1>4
  <2>4. QED
    BY <2>2, <2>3, CommandedRecord, Zenon
<1>5. QED
  BY <1>2, <1>3, <1>4

\* and at the end of those of a create or an update.
LEMMA UnitCommanded ==
    ASSUME NEW h, UnitShape(h), NEW s, NEW p, NEW changed
    PROVE  Commanded(UnitCommands(h, s, p, changed))
<1> DEFINE start == [hs |-> <<h>>, ok |-> TRUE]
           state == IF s = Nil THEN reconcileCreateServiceState(h, p, changed)
                    ELSE reconcileUpdateServiceState(h, s, p, changed)
           enabled == reconcileEnabled(s, p)
           masked == reconcileMasked(s, p)
<1>1. Commanded(start)
  <2> DEFINE S == {h}
  <2>1. <<h>> \in Seq(S) /\ Len(<<h>>) > 0 /\ \A y \in S : UnitShape(y)
    OBVIOUS
  <2> HIDE DEF S
  <2>2. UnitSeq(<<h>>)
    BY <2>1 DEF UnitSeq
  <2>3. QED
    BY <2>2, CommandedRecord
<1>2. enabled \in Verb \cup {""} /\ masked \in Verb \cup {""}
  BY DEF reconcileEnabled, reconcileMasked, If, Verb
<1>3. state \in Verb \cup {""}
  BY DEF reconcileCreateServiceState, reconcileUpdateServiceState, ensureUnitRunningAfterIdentityChange,
         restartActiveUnit, If, Verb
<1>4. UnitCommands(h, s, p, changed) = systemctl(systemctl(systemctl(start, enabled), masked), state)
  BY Zenon DEF UnitCommands
<1> HIDE DEF start, state, enabled, masked
<1>5. QED
  BY <1>1, <1>2, <1>3, <1>4, CommandedNext, Zenon

\* Where an operation on a unit may stop: with a unit, and, if it was refused, with the
\* one it began with.
UnitStop(h, o) == UnitShape(o.h) /\ (MarksApart /\ o.out = Refused => o.h = h)

\* The hosts a run through units may leave.
LEMMA RunOfUnits ==
    ASSUME NEW hs, UnitSeq(hs), NEW out, NEW o \in Run(hs, out)
    PROVE  UnitShape(o.h) /\ o.out \in {Failed, out}
<1>1. Len(hs) \in Nat
  BY DEF UnitSeq
<1>2. \/ \E i \in 1 .. Len(hs) : o.h = hs[i] /\ o.out = Failed
      \/ o.h = Last(hs) /\ o.out = out
  <2>1. \/ \E i \in DOMAIN hs : o = Outcome(hs[i], Failed)
        \/ o = Outcome(Last(hs), out)
    BY DEF Run
  <2>2. DOMAIN hs = 1 .. Len(hs)
    BY DEF UnitSeq
  <2>3. QED
    BY <2>1, <2>2 DEF Outcome
<1>3. QED
  BY <1>2, UnitSeqGrows

\* An identity that does not take effect is put back, or the unit left as it is.
LEMMA UnitUndone ==
    ASSUME NEW h, UnitShape(h), NEW w, UnitShape(w), NEW x, UnitShape(x),
           \A g \in UnitField \ {"drop", "seen"} : x[g] = w[g],
           NEW o,
           \/ o \in Run(rollbackServiceIdentityDropIn(x, w),
                        IF w = h /\ h.seen = effective(h) THEN Refused ELSE Failed)
           \/ o = Outcome(x, IF x = h THEN Refused ELSE Failed)
    PROVE  UnitStop(h, o)
<1> DEFINE y == [x EXCEPT !.drop = w.drop]
           z == daemonReload(y)
           out == IF w = h /\ h.seen = effective(h) THEN Refused ELSE Failed
<1>1. UnitShape(y) /\ UnitShape(z)
  <2>1. UnitShape(y)
    BY UnitSteps
  <2> HIDE DEF y
  <2>2. QED
    BY <2>1, UnitSteps
<1>2. w = h /\ h.seen = effective(h) => z = h
  BY UnitSteps
<1>3. o \in Run(<<x, y, z>>, out) \/ o = Outcome(x, IF x = h THEN Refused ELSE Failed)
  BY DEF rollbackServiceIdentityDropIn
<1> HIDE DEF y, z
<1>4. MarksApart => Failed # Refused
  BY DEF MarksApart
<1>5. CASE o \in Run(<<x, y, z>>, out)
  <2>1. \/ o.h \in {x, y, z} /\ o.out = Failed
        \/ o.h = z /\ o.out = out
    <3> HIDE DEF out
    <3>1. QED
      BY <1>5, RunOfThree
  <2>2. QED
    BY <1>1, <1>2, <1>4, <2>1 DEF UnitStop
<1>6. CASE o = Outcome(x, IF x = h THEN Refused ELSE Failed)
  BY <1>4, <1>6 DEF Outcome, UnitStop
<1>7. QED
  BY <1>3, <1>5, <1>6

\* What a create and an update share.
LEMMA UnitApplied ==
    ASSUME NEW h, UnitShape(h), NEW w, UnitShape(w), NEW s, NEW p, NEW reload,
           NEW o \in ApplyUnit(h, w, s, p, reload)
    PROVE  UnitStop(h, o)
<1> DEFINE d == applyServiceIdentityDropIn(w, s, p)
           changed == d.drop # w.drop
           ready == IF reload \/ changed THEN daemonReload(d) ELSE d
           cmds == UnitCommands(ready, s, p, changed)
           read == UnitRead(Last(cmds.hs), p)
           out == IF cmds.ok /\ IsState(read) THEN read ELSE Failed
           fresh == w = h /\ h.seen = effective(h)
           undo(x) == IF changed THEN Run(rollbackServiceIdentityDropIn(x, w), IF fresh THEN Refused ELSE Failed)
                      ELSE {Outcome(x, IF x = h THEN Refused ELSE Failed)}
           passed == Run(cmds.hs, out)
           f == (IF reload \/ changed THEN undo(d) ELSE {})
                \cup (IF p.ident # "" THEN undo(ready) ELSE {})
                \cup IF validateEffectiveServiceIdentity(ready, p) THEN passed ELSE {}
<1>1. MarksApart => Failed # Refused
  BY DEF MarksApart
<1>2. CASE d = Refused
  <2>1. o \in Change(<<h, w>>, IF w = h THEN Refused ELSE Failed)
    BY <1>2, Zenon DEF ApplyUnit
  <2>2. \/ o.h \in {h, w} /\ o.out = Failed
        \/ o.h = w /\ o.out = IF w = h THEN Refused ELSE Failed
    BY <2>1, ChangeOfTwo
  <2>3. QED
    BY <1>1, <2>2 DEF UnitStop
<1>3. CASE d # Refused
  <2>1. o \in ChangeThen(<<h, w, d, ready>>, f)
    BY <1>3, Zenon DEF ApplyUnit
  <2>2. d = w \/ \E v : d = [w EXCEPT !.drop = v]
    BY <1>3 DEF applyServiceIdentityDropIn
  <2>3. UnitShape(d) /\ \A g \in UnitField \ {"drop", "seen"} : d[g] = w[g]
    <3> HIDE DEF d
    <3>1. QED
      BY <2>2 DEF UnitShape, UnitField
  <2>4. UnitShape(ready) /\ \A g \in UnitField \ {"drop", "seen"} : ready[g] = w[g]
    <3> HIDE DEF d
    <3>1. UnitShape(daemonReload(d)) /\ \A g \in UnitField \ {"drop", "seen"} : daemonReload(d)[g] = d[g]
      BY <2>3 DEF UnitShape, UnitField, daemonReload
    <3>2. QED
      BY <2>3, <3>1
  <2> HIDE DEF d, ready
  <2>5. Commanded(cmds)
    BY <2>4, UnitCommanded
  <2>6. UnitSeq(cmds.hs) /\ UnitShape(Last(cmds.hs))
    BY <2>5, UnitSeqGrows DEF Commanded
  <2>7. MarksApart => out # Refused
    BY <1>1 DEF IsState
  <2>8. ASSUME NEW x \in {d, ready}, o \in undo(x) PROVE UnitStop(h, o)
    <3>1. \/ o \in Run(rollbackServiceIdentityDropIn(x, w), IF w = h /\ h.seen = effective(h) THEN Refused ELSE Failed)
          \/ o = Outcome(x, IF x = h THEN Refused ELSE Failed)
      BY <2>8, Zenon
    <3>2. UnitShape(x) /\ \A g \in UnitField \ {"drop", "seen"} : x[g] = w[g]
      BY <2>3, <2>4
    <3>3. QED
      BY <3>1, <3>2, UnitUndone
  <2>9. ASSUME o \in passed PROVE UnitStop(h, o)
    <3> HIDE DEF cmds, out
    <3>1. UnitShape(o.h) /\ o.out \in {Failed, out}
      BY <2>6, <2>9, RunOfUnits
    <3>2. QED
      BY <1>1, <2>7, <3>1 DEF UnitStop
  <2>10. o \in f => o \in undo(d) \/ o \in undo(ready) \/ o \in passed
    <3> HIDE DEF undo, passed, changed
    <3>1. QED
      OBVIOUS
  <2> HIDE DEF f, undo, passed
  <2>11. \/ o.h \in {h, w, d} /\ o.out = Failed
         \/ o \in f
    BY <2>1, ChangeThenOfFour
  <2>12. CASE o.h \in {h, w, d} /\ o.out = Failed
    BY <1>1, <2>3, <2>12 DEF UnitStop
  <2>13. QED
    BY <2>8, <2>9, <2>10, <2>11, <2>12
<1>4. QED
  BY <1>2, <1>3

\* A create,
LEMMA UnitCreated ==
    ASSUME NEW h, UnitShape(h), NEW p, NEW o \in UnitCreate(h, p)
    PROVE  UnitStop(h, o)
<1> DEFINE w == IF p.content = "" THEN h ELSE [h EXCEPT !.path = p.content]
<1>1. UnitShape(w)
  BY UnitSteps
<1>2. o \in ApplyUnit(h, w, Nil, p, w # h)
  BY DEF UnitCreate
<1> HIDE DEF w
<1>3. QED
  BY <1>1, <1>2, UnitApplied

\* an update
LEMMA UnitUpdated ==
    ASSUME NEW h, UnitShape(h), NEW s, NEW p, NEW o \in UnitUpdate(h, s, p)
    PROVE  UnitStop(h, o)
<1> DEFINE w == CASE p.content = s.content -> h
                  [] p.content \notin {"", s.content} -> [h EXCEPT !.path = p.content]
                  [] OTHER -> [h EXCEPT !.path = Nil]
<1>1. w = h \/ \E v : w = [h EXCEPT !.path = v]
  BY Zenon
<1>2. o \in ApplyUnit(h, w, s, p, p.content # s.content)
  BY Zenon DEF UnitUpdate
<1> HIDE DEF w
<1>3. UnitShape(w)
  BY <1>1, UnitSteps, ZenonT(40)
<1>4. QED
  BY <1>2, <1>3, UnitApplied

\* and a delete, which refuses before it has tried anything.
LEMMA UnitDeleted ==
    ASSUME NEW h, UnitShape(h), NEW s, NEW o \in UnitDelete(h, s)
    PROVE  UnitStop(h, o)
<1> DEFINE tries(hs, verb) == hs \cup {Effect(x, verb) : x \in hs}
           unmasked == IF s.masked THEN tries({h}, "unmask") ELSE {h}
           stopped == tries(tries(unmasked, "stop"), "disable")
           undropped(x) ==
             IF hasServiceIdentityState(s) THEN <<x, [x EXCEPT !.drop = Nil], daemonReload([x EXCEPT !.drop = Nil])>> ELSE <<x>>
           removed(x) == IF s.content = "" THEN {x} ELSE {x, [x EXCEPT !.path = Nil], daemonReload([x EXCEPT !.path = Nil])}
           last(x) == UNION {Answers(y, Nil) : y \in removed(Last(undropped(x)))}
           tried == UNION {Then(undropped(x), last(x)) : x \in stopped}
<1>1. MarksApart => Nil # Refused /\ Failed # Refused
  BY DEF MarksApart
<1>2. \A hs, verb : verb \in Verb /\ (\A x \in hs : UnitShape(x)) => \A x \in tries(hs, verb) : UnitShape(x)
  BY EffectShape
<1>3. \A x \in stopped : UnitShape(x)
  <2>1. {"unmask", "stop", "disable"} \subseteq Verb
    BY DEF Verb
  <2>2. \A x \in unmasked : UnitShape(x)
    <3>1. unmasked = {h} \/ unmasked = tries({h}, "unmask")
      BY Zenon
    <3> HIDE DEF tries, unmasked
    <3>2. \A x \in tries({h}, "unmask") : UnitShape(x)
      BY <1>2, <2>1
    <3>3. QED
      BY <3>1, <3>2
  <2> HIDE DEF tries, unmasked
  <2>3. QED
    BY <1>2, <2>1, <2>2
<1> HIDE DEF stopped
<1>4. \A x : UnitShape(x) => \A y \in removed(x) : UnitShape(y)
  <2>1. SUFFICES ASSUME NEW x, UnitShape(x) PROVE \A y \in removed(x) : UnitShape(y)
    OBVIOUS
  <2> DEFINE y == [x EXCEPT !.path = Nil]
  <2>2. UnitShape(y)
    BY <2>1, UnitSteps
  <2> HIDE DEF y
  <2>3. UnitShape(daemonReload(y))
    BY <2>2, UnitSteps
  <2>4. QED
    BY <2>1, <2>2, <2>3 DEF y
<1>5. ASSUME NEW x \in stopped, NEW f, o \in Then(undropped(x), f),
             \A y \in f : UnitShape(Last(undropped(x))) => UnitShape(y.h) /\ y.out \in {Nil, Failed}
      PROVE  UnitShape(o.h) /\ o.out \in {Nil, Failed}
  <2> DEFINE y == [x EXCEPT !.drop = Nil]
             z == daemonReload(y)
  <2>1. UnitShape(x) /\ UnitShape(y)
    BY <1>3, <1>5, UnitSteps
  <2>2. UnitShape(z)
    <3> HIDE DEF y
    <3>1. QED
      BY <2>1, UnitSteps
  <2>3. undropped(x) = <<x, y, z>> \/ undropped(x) = <<x>>
    BY Zenon
  <2> HIDE DEF y, z, undropped
  <2>4. UnitShape(Last(undropped(x)))
    BY <2>1, <2>2, <2>3 DEF Last
  <2>5. o \in f \/ (o.out = Failed /\ o.h \in {x, y})
    <3>1. CASE undropped(x) = <<x, y, z>>
      BY <1>5, <3>1, ThenOfThree
    <3>2. CASE undropped(x) = <<x>>
      BY <1>5, <3>2 DEF Then
    <3>3. QED
      BY <2>3, <3>1, <3>2
  <2>6. QED
    BY <1>5, <2>1, <2>4, <2>5
<1>6. ASSUME NEW x \in stopped, o \in Then(undropped(x), last(x))
      PROVE  UnitShape(o.h) /\ o.out \in {Nil, Failed}
  <2>1. \A y \in last(x) : UnitShape(Last(undropped(x))) => UnitShape(y.h) /\ y.out \in {Nil, Failed}
    <3> HIDE DEF removed, undropped
    <3>1. QED
      BY <1>4 DEF Answers, Outcome
  <2> HIDE DEF last, undropped
  <2>2. QED
    BY <1>5, <1>6, <2>1
<1>7. o \in Refuse(h) \/ o \in tried
  <2>1. o \in IF hasServiceIdentityState(s) /\ ~validateServiceIdentityDropInMatchesState(h, s) THEN Refuse(h)
               ELSE tried
    BY Zenon DEF UnitDelete, stopped
  <2> HIDE DEF tried
  <2>2. QED
    BY <2>1
<1>8. CASE o \in Refuse(h)
  BY <1>8 DEF Refuse, Outcome, UnitStop
<1>9. CASE o \in tried
  <2>1. PICK x \in stopped : o \in Then(undropped(x), last(x))
    <3> HIDE DEF undropped, last
    <3>1. QED
      BY <1>9
  <2>2. UnitShape(o.h) /\ o.out \in {Nil, Failed}
    BY <1>6, <2>1, Zenon
  <2>3. QED
    BY <1>1, <2>2 DEF UnitStop
<1>10. QED
  BY <1>7, <1>8, <1>9

-----------------------------------------------------------------------------
(* The operations by type. *)

\* What is known of a host and of a state for each type.
HostShape(t, h) ==
    /\ t = "crontab_entry" => CronShape(h)
    /\ t = "tls_identity" => TlsShape(h)
    /\ t = "apt_repository" => RepoShape(h)
    /\ t = "file" => FileShape(h)
    /\ t = "trusted_cert" => CertShape(h)
    /\ t = "systemd_unit" => UnitShape(h)

\* The types of which more than that is known of every host.
Shaped == {"crontab_entry", "tls_identity", "apt_repository", "file", "trusted_cert", "systemd_unit"}

StateShape(t, s) ==
    /\ t = "crontab_entry" => s = [u |-> s.u, k |-> s.k, v |-> s.v] /\ s.u \in CronUser
    /\ t = "tls_identity" => s.k \in TlsName

\* The operations of the pack that serves crontab entries.
LEMMA CronOps ==
    ASSUME NEW h, NEW s, NEW p
    PROVE  /\ CreateOp("crontab_entry", h, p) = CronCreate(h, p)
           /\ UpdateOp("crontab_entry", h, s, p) = CronUpdate(h, s, p)
           /\ DeleteOp("crontab_entry", h, s) = CronDelete(h, s)
           /\ ReadOp("crontab_entry", h, s) = CronRead(h, s)
  BY DEF CreateOp, UpdateOp, DeleteOp, ReadOp

\* The operations of the pack that serves TLS identities.
LEMMA TlsOps ==
    ASSUME NEW h, NEW s, NEW p
    PROVE  /\ CreateOp("tls_identity", h, p) = TlsCreate(h, p)
           /\ UpdateOp("tls_identity", h, s, p) = applyTLSIdentity(h, p)
           /\ DeleteOp("tls_identity", h, s) = removeTLSIdentity(h, s)
           /\ ReadOp("tls_identity", h, s) = readTLSIdentityState(h, s)
  BY DEF CreateOp, UpdateOp, DeleteOp, ReadOp

\* The operations of the pack that serves apt repositories.
LEMMA RepoOps ==
    ASSUME NEW h, NEW s, NEW p
    PROVE  /\ CreateOp("apt_repository", h, p) = RepoCreate(h, p)
           /\ UpdateOp("apt_repository", h, s, p) = applyRepository(h, s, p)
           /\ DeleteOp("apt_repository", h, s) = RepoDelete(h, s)
           /\ ReadOp("apt_repository", h, s) = RepoRead(h, s)
  BY DEF CreateOp, UpdateOp, DeleteOp, ReadOp

\* The operations of the pack that serves files,
LEMMA FileOps ==
    ASSUME NEW h, NEW s, NEW p
    PROVE  /\ CreateOp("file", h, p) = FileCreate(h, p)
           /\ UpdateOp("file", h, s, p) = applyFile(h, p)
           /\ DeleteOp("file", h, s) = FileDelete(h, s)
  BY DEF CreateOp, UpdateOp, DeleteOp

\* of the one that serves trusted certificates,
LEMMA CertOps ==
    ASSUME NEW h, NEW s, NEW p
    PROVE  /\ CreateOp("trusted_cert", h, p) = CertCreate(h, p)
           /\ UpdateOp("trusted_cert", h, s, p) = applyTrustedCert(h, p)
           /\ DeleteOp("trusted_cert", h, s) = CertDelete(h, s)
  BY DEF CreateOp, UpdateOp, DeleteOp

\* and of the one that serves units.
LEMMA UnitOps ==
    ASSUME NEW h, NEW s, NEW p
    PROVE  /\ CreateOp("systemd_unit", h, p) = UnitCreate(h, p)
           /\ UpdateOp("systemd_unit", h, s, p) = UnitUpdate(h, s, p)
           /\ DeleteOp("systemd_unit", h, s) = UnitDelete(h, s)
  BY DEF CreateOp, UpdateOp, DeleteOp

\* The plans of a type have the shape of its states.
LEMMA PlanShape ==
    ASSUME NEW t, NEW p \in Plans(t) \cup ImportIds(t)
    PROVE  StateShape(t, p)
<1>1. CASE t = "crontab_entry"
  <2>1. p \in CronPlan \/ p \in [u : CronUser, k : {"a", "b"}, v : {""}]
    BY <1>1 DEF Plans, ImportIds
  <2>2. \E v : p \in [u : CronUser, k : {"a", "b"}, v : v]
    BY <2>1 DEF CronPlan
  <2>3. QED
    BY <1>1, <2>2 DEF StateShape
<1>2. CASE t = "tls_identity"
  <2>1. p \in TlsPlan \/ p \in [k : TlsName, family : {"pem"}]
    BY <1>2 DEF Plans, ImportIds
  <2>2. QED
    BY <1>2, <2>1 DEF TlsPlan, StateShape
<1>3. QED
  BY <1>1, <1>2 DEF StateShape

\* A create keeps the shape of the host, and what it returns has that of a state.
LEMMA CreateShape ==
    ASSUME NEW t, NEW h, HostShape(t, h), NEW p \in Plans(t), NEW o \in CreateOp(t, h, p)
    PROVE  HostShape(t, o.h) /\ (IsState(o.out) => StateShape(t, o.out))
<1>1. StateShape(t, p)
  BY PlanShape
<1>2. CASE t = "crontab_entry"
  <2>1. o \in CronCreate(h, p) /\ CronShape(h)
    BY <1>2, CronOps DEF HostShape
  <2>2. CronOnly(h, o.h, {p.u}) /\ o.out \in {p, Refused, Failed}
    BY <2>1, CronCreated
  <2>3. QED
    BY <1>1, <1>2, <2>2 DEF HostShape, StateShape, IsState, CronOnly
<1>3. CASE t = "tls_identity"
  <2>1. o \in TlsCreate(h, p) /\ TlsShape(h)
    BY <1>3, TlsOps DEF HostShape
  <2>2. TlsOnly(h, o.h, {p.k}) /\ o.out \in {p, Refused, Failed}
    BY <2>1, TlsCreated
  <2>3. QED
    BY <1>1, <1>3, <2>2 DEF HostShape, StateShape, IsState, TlsOnly
<1>4. CASE t = "apt_repository"
  BY <1>4, RepoOps, RepoCreated DEF HostShape, StateShape, KeysStay
<1>5. CASE t = "file"
  BY <1>5, FileOps, FileCreated DEF HostShape, StateShape
<1>6. CASE t = "trusted_cert"
  BY <1>6, CertOps, CertCreated DEF HostShape, StateShape
<1>7. CASE t = "systemd_unit"
  BY <1>7, UnitOps, UnitCreated DEF HostShape, StateShape, UnitStop
<1>8. QED
  BY <1>2, <1>3, <1>4, <1>5, <1>6, <1>7 DEF HostShape, StateShape

\* So does an update.
LEMMA UpdateShape ==
    ASSUME NEW t, NEW h, HostShape(t, h), NEW s, NEW p \in Plans(t), NEW o \in UpdateOp(t, h, s, p)
    PROVE  HostShape(t, o.h) /\ (IsState(o.out) => StateShape(t, o.out))
<1>1. StateShape(t, p)
  BY PlanShape
<1>2. CASE t = "crontab_entry"
  <2>1. o \in CronUpdate(h, s, p) /\ CronShape(h)
    BY <1>2, CronOps DEF HostShape
  <2>2. CronOnly(h, o.h, {s.u, p.u}) /\ o.out \in {p, Refused, Failed}
    BY <2>1, CronUpdated
  <2>3. QED
    BY <1>1, <1>2, <2>2 DEF HostShape, StateShape, IsState, CronOnly
<1>3. CASE t = "tls_identity"
  <2>1. o \in applyTLSIdentity(h, p) /\ TlsShape(h)
    BY <1>3, TlsOps DEF HostShape
  <2>2. TlsOnly(h, o.h, {p.k}) /\ o.out \in {p, Refused, Failed}
    BY <2>1, TlsApplied
  <2>3. QED
    BY <1>1, <1>3, <2>2 DEF HostShape, StateShape, IsState, TlsOnly
<1>4. CASE t = "apt_repository"
  BY <1>4, RepoOps, RepoApplied DEF HostShape, StateShape, KeysStay
<1>5. CASE t = "file"
  BY <1>5, FileOps, FileApplied DEF HostShape, StateShape
<1>6. CASE t = "trusted_cert"
  BY <1>6, CertOps, CertUpdated DEF HostShape, StateShape
<1>7. CASE t = "systemd_unit"
  BY <1>7, UnitOps, UnitUpdated DEF HostShape, StateShape, UnitStop
<1>8. QED
  BY <1>2, <1>3, <1>4, <1>5, <1>6, <1>7 DEF HostShape, StateShape

\* A delete keeps the shape of the host.
LEMMA DeleteShape ==
    ASSUME NEW t, NEW h, HostShape(t, h), NEW s, NEW o \in DeleteOp(t, h, s)
    PROVE  HostShape(t, o.h)
<1>1. CASE t = "crontab_entry"
  <2>1. o \in CronDelete(h, s) /\ CronShape(h)
    BY <1>1, CronOps DEF HostShape
  <2>2. QED
    BY <1>1, <2>1, CronDeleted DEF HostShape, CronOnly
<1>2. CASE t = "tls_identity"
  <2>1. o \in removeTLSIdentity(h, s) /\ TlsShape(h)
    BY <1>2, TlsOps DEF HostShape
  <2>2. QED
    BY <1>2, <2>1, TlsDeleted DEF HostShape, TlsOnly
<1>3. CASE t = "apt_repository"
  BY <1>3, RepoOps, RepoDeleted DEF HostShape, KeysStay
<1>4. CASE t = "file"
  BY <1>4, FileOps, FileDeleted DEF HostShape
<1>5. CASE t = "trusted_cert"
  BY <1>5, CertOps, CertDeleted DEF HostShape
<1>6. CASE t = "systemd_unit"
  BY <1>6, UnitOps, UnitDeleted DEF HostShape, UnitStop
<1>7. QED
  BY <1>1, <1>2, <1>3, <1>4, <1>5, <1>6 DEF HostShape

\* What a read reports of an object has the shape of a state.
LEMMA ReadShape ==
    ASSUME NEW t, NEW h, NEW s, StateShape(t, s), IsState(ReadOp(t, h, s))
    PROVE  StateShape(t, ReadOp(t, h, s))
<1>1. CASE t = "crontab_entry"
  <2>1. CronRead(h, s) \in {Refused, Nil} \/ \E v : CronRead(h, s) = [s EXCEPT !.v = v]
    BY DEF CronRead
  <2>2. QED
    BY <1>1, <2>1, CronOps DEF IsState, StateShape
<1>2. CASE t = "tls_identity"
  <2>1. readTLSIdentityState(h, s) \in {Refused, Nil} \/ readTLSIdentityState(h, s).k = s.k
    BY DEF readTLSIdentityState
  <2>2. QED
    BY <1>2, <2>1, TlsOps DEF IsState, StateShape
<1>3. QED
  BY <1>1, <1>2 DEF StateShape

-----------------------------------------------------------------------------
(* An operation that is refused leaves the host as it was. *)

\* Of the outcomes of an operation on h, those that are refused are at home.
Harmless(h, outcomes) == \A o \in outcomes : o.out = Refused => o.h = h

\* A record or another function is none of the marks.
LEMMA FunctionsAreStates ==
    ASSUME MarksApart
    PROVE  \A f : f = [x \in DOMAIN f |-> f[x]] => IsState(f) /\ f # Refused
<1>1. SUFFICES ASSUME NEW f, f \in {Nil, Refused, Failed} PROVE f # [x \in DOMAIN f |-> f[x]]
  BY Zenon DEF IsState
<1>2. QED
  BY <1>1, Zenon DEF MarksApart

\* What is made of calls that answer, fail or refuse at once refuses only at home.
LEMMA HarmlessOutcomes ==
    ASSUME MarksApart, NEW h
    PROVE  /\ \A hs, out : out # Refused => Harmless(h, Run(hs, out)) /\ Harmless(h, Change(hs, out))
           /\ \A hs, f : Harmless(h, f) => Harmless(h, Then(hs, f)) /\ Harmless(h, ChangeThen(hs, f))
           /\ \A out : Harmless(h, Answers(h, out))
           /\ Harmless(h, Refuse(h)) /\ Harmless(h, {})
           /\ \A x, out : out # Refused => Harmless(h, {Outcome(x, out)})
           /\ \A A, B : Harmless(h, A) /\ Harmless(h, B) => Harmless(h, A \cup B)
           /\ \A S : (\A A \in S : Harmless(h, A)) => Harmless(h, UNION S)
<1>1. \A x, out : Outcome(x, out).h = x /\ Outcome(x, out).out = out
  BY DEF Outcome
<1>2. Failed # Refused
  BY DEF MarksApart
<1>3. \A out : Harmless(h, Answers(h, out))
  BY <1>1 DEF Harmless, Answers
<1>4. Harmless(h, Refuse(h)) /\ Harmless(h, {})
  BY <1>1 DEF Harmless, Refuse
<1>5. \A x, out : out # Refused => Harmless(h, {Outcome(x, out)})
  BY <1>1 DEF Harmless
<1>6. \A A, B : Harmless(h, A) /\ Harmless(h, B) => Harmless(h, A \cup B)
  BY DEF Harmless
<1>7. \A S : (\A A \in S : Harmless(h, A)) => Harmless(h, UNION S)
  BY DEF Harmless
<1>8. \A hs, f : Harmless(h, f) => Harmless(h, Then(hs, f)) /\ Harmless(h, ChangeThen(hs, f))
  BY <1>1, <1>2 DEF Harmless, Then, ChangeThen
<1>9. \A hs, out : out # Refused => Harmless(h, Run(hs, out)) /\ Harmless(h, Change(hs, out))
  <2>1. \A hs, out : out # Refused => Harmless(h, Run(hs, out))
    BY <1>1, <1>2 DEF Harmless, Run
  <2>2. \A x, out : out # Refused => Harmless(h, Answers(x, out))
    BY <1>1, <1>2 DEF Harmless, Answers
  <2>3. QED
    BY <1>8, <2>1, <2>2 DEF Change
<1>10. QED
  BY <1>3, <1>4, <1>5, <1>6, <1>7, <1>8, <1>9

\* Two sets of outcomes together,
LEMMA HarmlessUnion ==
    ASSUME NEW h, NEW A, NEW B, Harmless(h, A), Harmless(h, B)
    PROVE  Harmless(h, A \cup B)
  BY DEF Harmless

\* and any number of them.
LEMMA HarmlessAll ==
    ASSUME NEW h, NEW S, \A A \in S : Harmless(h, A)
    PROVE  Harmless(h, UNION S)
  BY DEF Harmless

\* A rollback that ends where the operation began may refuse there.
LEMMA RefusedAtHome ==
    ASSUME MarksApart, NEW h, NEW hs, Last(hs) = h
    PROVE  Harmless(h, Run(hs, Refused)) /\ Harmless(h, Change(hs, Refused))
<1>1. \A x, out : Outcome(x, out).h = x /\ Outcome(x, out).out = out
  BY DEF Outcome
<1>2. Failed # Refused
  BY DEF MarksApart
<1>3. Harmless(h, Run(hs, Refused))
  BY <1>1, <1>2 DEF Harmless, Run
<1>4. Harmless(h, Change(hs, Refused))
  BY HarmlessOutcomes DEF Change
<1>5. QED
  BY <1>3, <1>4

\* A shared file that is written fails where it is cut short; it refuses nothing.
LEMMA TornHarmless ==
    ASSUME MarksApart, NEW h, NEW doc
    PROVE  /\ Harmless(h, TornWrite(h, doc)) /\ Harmless(h, writeFstabEntries(h, doc))
           /\ \A out : out # Refused => Harmless(h, writeLines(h, doc, out))
<1>1. Failed # Refused
  BY DEF MarksApart
<1>2. Harmless(h, TornWrite(h, doc))
  BY <1>1 DEF Harmless, TornWrite, Outcome
<1>3. Harmless(h, writeFstabEntries(h, doc))
  BY <1>2, HarmlessOutcomes DEF writeFstabEntries
<1>4. ASSUME NEW out, out # Refused PROVE Harmless(h, writeLines(h, doc, out))
  <2>1. Harmless(h, Run(<<h, [h EXCEPT !.doc = doc]>>, out))
    BY <1>4, HarmlessOutcomes
  <2>2. QED
    BY <1>2, <2>1, HarmlessUnion, Zenon DEF writeLines
<1>5. QED
  BY <1>2, <1>3, <1>4

\* The records the packs return.
LEMMA RecordsAreStates ==
    ASSUME MarksApart, NEW a, NEW b, NEW c, NEW d, NEW e
    PROVE  /\ [k |-> a, v |-> b] # Refused
           /\ [c |-> a, own |-> b, validation |-> c] # Refused
           /\ [ipv4 |-> a, ipv6 |-> b] # Refused
           /\ [enabled |-> a, servers |-> b] # Refused
           /\ [k |-> a, ensure |-> b, gid |-> c] # Refused
           /\ [k |-> a, ensure |-> b, ver |-> c, ring |-> d] # Refused
           /\ [k |-> a, ensure |-> b, shell |-> c, groups |-> d, append |-> e] # Refused
<1>1. \A f : f = [x \in DOMAIN f |-> f[x]] => f # Refused
  BY FunctionsAreStates, Zenon
<1>2. [k |-> a, v |-> b] = [x \in DOMAIN [k |-> a, v |-> b] |-> [k |-> a, v |-> b][x]]
  OBVIOUS
<1>3. [c |-> a, own |-> b, validation |-> c]
        = [x \in DOMAIN [c |-> a, own |-> b, validation |-> c] |-> [c |-> a, own |-> b, validation |-> c][x]]
  OBVIOUS
<1>4. [ipv4 |-> a, ipv6 |-> b] = [x \in DOMAIN [ipv4 |-> a, ipv6 |-> b] |-> [ipv4 |-> a, ipv6 |-> b][x]]
  OBVIOUS
<1>5. [enabled |-> a, servers |-> b] = [x \in DOMAIN [enabled |-> a, servers |-> b] |-> [enabled |-> a, servers |-> b][x]]
  OBVIOUS
<1>6. [k |-> a, ensure |-> b, gid |-> c]
        = [x \in DOMAIN [k |-> a, ensure |-> b, gid |-> c] |-> [k |-> a, ensure |-> b, gid |-> c][x]]
  OBVIOUS
<1>7. [k |-> a, ensure |-> b, ver |-> c, ring |-> d]
        = [x \in DOMAIN [k |-> a, ensure |-> b, ver |-> c, ring |-> d] |-> [k |-> a, ensure |-> b, ver |-> c, ring |-> d][x]]
  OBVIOUS
<1>8. [k |-> a, ensure |-> b, shell |-> c, groups |-> d, append |-> e]
        = [x \in DOMAIN [k |-> a, ensure |-> b, shell |-> c, groups |-> d, append |-> e]
             |-> [k |-> a, ensure |-> b, shell |-> c, groups |-> d, append |-> e][x]]
  OBVIOUS
<1>9. QED
  BY <1>1, <1>2, <1>3, <1>4, <1>5, <1>6, <1>7, <1>8, Zenon

\* symlink refuses what is at the path before it links or removes.
LEMMA SymlinkHarmless ==
    ASSUME MarksApart, NEW h, NEW s, NEW p, IsState(p)
    PROVE  /\ Harmless(h, SymlinkCreate(h, p)) /\ Harmless(h, applySymlink(h, p))
           /\ Harmless(h, SymlinkDelete(h, s))
<1>1. Nil # Refused /\ p # Refused
  BY DEF MarksApart, IsState
<1>2. Harmless(h, applySymlink(h, p))
  BY <1>1, HarmlessOutcomes DEF applySymlink
<1>3. Harmless(h, SymlinkCreate(h, p))
  BY <1>2, HarmlessOutcomes DEF SymlinkCreate
<1>4. Harmless(h, SymlinkDelete(h, s))
  BY <1>1, HarmlessOutcomes DEF SymlinkDelete
<1>5. QED
  BY <1>2, <1>3, <1>4

\* kernel_modules refuses nothing.
LEMMA ModulesHarmless ==
    ASSUME MarksApart, NEW h, NEW s, NEW p
    PROVE  /\ Harmless(h, applyKernelModules(h, p)) /\ Harmless(h, ModulesDelete(h, s))
<1>1. Nil # Refused /\ \A k, v : [k |-> k, v |-> v] # Refused
  BY RecordsAreStates DEF MarksApart
<1>2. QED
  BY <1>1, HarmlessOutcomes DEF applyKernelModules, ModulesDelete

\* hosts_entry refuses a create of an entry that is there and an update of one that is not.
LEMMA HostsHarmless ==
    ASSUME MarksApart, NEW h, NEW s, NEW p, p # Refused
    PROVE  /\ Harmless(h, HostsCreate(h, p)) /\ Harmless(h, HostsUpdate(h, s, p))
           /\ Harmless(h, HostsDelete(h, s))
<1>1. Nil # Refused /\ \A k, v : [k |-> k, v |-> v] # Refused
  BY RecordsAreStates DEF MarksApart
<1>2. Harmless(h, HostsCreate(h, p))
  BY <1>1, HarmlessOutcomes, TornHarmless DEF HostsCreate
<1>3. Harmless(h, HostsUpdate(h, s, p))
  BY <1>1, HarmlessOutcomes, TornHarmless DEF HostsUpdate
<1>4. Harmless(h, HostsDelete(h, s))
  BY <1>1, TornHarmless DEF HostsDelete
<1>5. QED
  BY <1>2, <1>3, <1>4

\* sysctl_entry refuses an entry that is there before it writes.
LEMMA SysctlHarmless ==
    ASSUME MarksApart, NEW h, NEW s, NEW p
    PROVE  /\ Harmless(h, SysctlCreate(h, p)) /\ Harmless(h, applySysctlEntry(h, p))
           /\ Harmless(h, SysctlDelete(h, s))
<1>1. Nil # Refused /\ Failed # Refused /\ \A k, v : [k |-> k, v |-> v] # Refused
  BY RecordsAreStates DEF MarksApart
<1>2. \A x : SysctlRead(x, p) # Refused
  BY <1>1 DEF SysctlRead, findKeyValueEntry
<1>3. Harmless(h, applySysctlEntry(h, p))
  <2> DEFINE w == [h EXCEPT !.doc = upsertKeyValueEntry(@, p.k, p.v)]
             a == [w EXCEPT !.live[p.k] = p.v]
  <2>1. applySysctlEntry(h, p) = Run(<<h, w, a>>, SysctlRead(a, p)) \cup TornWrite(h, w.doc)
    BY Zenon DEF applySysctlEntry
  <2> HIDE DEF w, a
  <2>2. Harmless(h, Run(<<h, w, a>>, SysctlRead(a, p)))
    BY <1>2, HarmlessOutcomes
  <2>3. QED
    BY <2>1, <2>2, TornHarmless, HarmlessUnion
<1>4. Harmless(h, SysctlCreate(h, p))
  BY <1>3, HarmlessOutcomes DEF SysctlCreate
<1>5. Harmless(h, SysctlDelete(h, s))
  BY <1>1, TornHarmless DEF SysctlDelete
<1>6. QED
  BY <1>3, <1>4, <1>5

\* network_stack refuses to create a file that is there.
LEMMA NetHarmless ==
    ASSUME MarksApart, NEW h, NEW s, NEW p
    PROVE  /\ Harmless(h, NetCreate(h, p)) /\ Harmless(h, applyNetworkStack(h, p))
           /\ Harmless(h, NetDelete(h, s))
<1>1. Nil # Refused /\ \A f : buildNetworkStackState(f) # Refused
  BY RecordsAreStates DEF MarksApart, buildNetworkStackState
<1>2. Harmless(h, applyNetworkStack(h, p))
  BY <1>1, HarmlessOutcomes DEF applyNetworkStack
<1>3. Harmless(h, NetCreate(h, p))
  BY <1>2, HarmlessOutcomes DEF NetCreate
<1>4. Harmless(h, NetDelete(h, s))
  BY <1>1, HarmlessOutcomes DEF NetDelete
<1>5. QED
  BY <1>2, <1>3, <1>4

\* fstab_entry refuses an entry that is there before it writes.
LEMMA FstabHarmless ==
    ASSUME MarksApart, NEW h, NEW s, NEW p
    PROVE  /\ Harmless(h, FstabCreate(h, p)) /\ Harmless(h, applyFstabEntry(h, p))
           /\ Harmless(h, FstabDelete(h, s))
<1>1. Nil # Refused /\ Failed # Refused /\ \A k, v : [k |-> k, v |-> v] # Refused
  BY RecordsAreStates DEF MarksApart
<1>2. \A x : FstabRead(x, p) # Refused
  BY <1>1 DEF FstabRead, findFstabEntry
<1>3. Harmless(h, applyFstabEntry(h, p))
  BY <1>2, TornHarmless DEF applyFstabEntry
<1>4. Harmless(h, FstabCreate(h, p))
  BY <1>3, HarmlessOutcomes DEF FstabCreate
<1>5. Harmless(h, FstabDelete(h, s))
  BY <1>1, TornHarmless DEF FstabDelete
<1>6. QED
  BY <1>3, <1>4, <1>5

\* swap refuses to enable what is not there before it writes.
LEMMA SwapHarmless ==
    ASSUME MarksApart, NEW h, NEW s, NEW p, p # Refused
    PROVE  Harmless(h, applySwap(h, p)) /\ Harmless(h, SwapDelete(h, s))
<1>1. Nil # Refused /\ Failed # Refused
  BY DEF MarksApart
<1>2. ASSUME NEW out, out # Refused PROVE Harmless(h, disableManagedSwap(h, out))
  <2> DEFINE w == [h EXCEPT !.doc = disableSwapEntries(@)]
             hs == <<h, w, [w EXCEPT !.live = "off"]>>
  <2>1. disableManagedSwap(h, out) = Change(hs, out) \cup writeFstabEntries(h, w.doc)
    BY Zenon DEF disableManagedSwap
  <2> HIDE DEF w, hs
  <2>2. Harmless(h, Change(hs, out))
    BY <1>2, HarmlessOutcomes
  <2>3. QED
    BY <2>1, <2>2, TornHarmless, HarmlessUnion
<1>3. ASSUME NEW strict, NEW out, out # Refused PROVE Harmless(h, enableManagedSwap(h, strict, out))
  <2> DEFINE doc == restoreManagedSwapEntries(h.doc)
             swapon == doc # h.doc \/ (h.live = "off" /\ hasEnabledSwapEntries(doc))
             w == [h EXCEPT !.doc = doc]
             hs == <<h, w, [w EXCEPT !.live = IF swapon THEN "on" ELSE @]>>
             nothing == h.live = "off" /\ ~hasEnabledSwapEntries(doc) /\ strict
  <2>1. enableManagedSwap(h, strict, out) = IF nothing THEN Refuse(h) ELSE Change(hs, out) \cup writeFstabEntries(h, doc)
    BY Zenon DEF enableManagedSwap
  <2> HIDE DEF doc, hs, nothing
  <2>2. Harmless(h, Change(hs, out)) /\ Harmless(h, Refuse(h))
    BY <1>3, HarmlessOutcomes
  <2>3. Harmless(h, Change(hs, out) \cup writeFstabEntries(h, doc))
    BY <2>2, TornHarmless, HarmlessUnion
  <2>4. QED
    BY <2>1, <2>2, <2>3
<1>4. QED
  BY <1>1, <1>2, <1>3, HarmlessOutcomes DEF applySwap, SwapDelete

\* sshd_config refuses what sshd -t rejects, on a copy.
LEMMA SshdHarmless ==
    ASSUME MarksApart, NEW h, NEW s, NEW p
    PROVE  Harmless(h, applyConfig(h, p)) /\ Harmless(h, SshdDelete(h, s))
<1>1. Nil # Refused /\ \A doc : directivesToState(doc) # Refused
  <2>1. SUFFICES ASSUME NEW doc PROVE directivesToState(doc) # Refused
    BY DEF MarksApart
  <2>2. directivesToState(doc) = [d \in DOMAIN directivesToState(doc) |-> directivesToState(doc)[d]]
    BY DEF directivesToState
  <2>3. QED
    BY <2>2, FunctionsAreStates, Zenon
<1>2. ASSUME NEW doc, NEW out, out # Refused PROVE Harmless(h, InstallSshd(h, doc, out))
  <2> DEFINE w == [h EXCEPT !.doc = doc]
             hs == <<h, w, [w EXCEPT !.live = doc]>>
  <2>1. InstallSshd(h, doc, out) \in {Answers(h, out), Refuse(h), Run(hs, out) \cup TornWrite(h, doc)}
    BY Zenon DEF InstallSshd
  <2> HIDE DEF w, hs
  <2>2. Harmless(h, Answers(h, out)) /\ Harmless(h, Refuse(h)) /\ Harmless(h, Run(hs, out))
    BY <1>2, HarmlessOutcomes
  <2>3. Harmless(h, Run(hs, out) \cup TornWrite(h, doc))
    BY <2>2, TornHarmless, HarmlessUnion
  <2>4. QED
    BY <2>1, <2>2, <2>3
<1>3. Harmless(h, applyConfig(h, p))
  <2>1. \A A \in {InstallSshd(h, doc, directivesToState(doc)) : doc \in SshdContents(h.doc, p)} : Harmless(h, A)
    BY <1>1, <1>2
  <2>2. QED
    BY <2>1, HarmlessOutcomes DEF applyConfig
<1>4. Harmless(h, SshdDelete(h, s))
  BY <1>1, <1>2, Zenon DEF SshdDelete
<1>5. QED
  BY <1>3, <1>4

\* crontab_entry refuses an ambiguous crontab before it writes the first one.
LEMMA CronHarmless ==
    ASSUME MarksApart, NEW h, NEW s, NEW p, p # Refused
    PROVE  /\ Harmless(h, CronCreate(h, p)) /\ Harmless(h, CronUpdate(h, s, p))
           /\ Harmless(h, CronDelete(h, s))
<1>1. Nil # Refused /\ Failed # Refused
  BY DEF MarksApart
<1>2. \A u, lines, out : out # Refused => Harmless(h, WriteOne(h, u, lines, out))
  BY <1>1, HarmlessOutcomes DEF WriteOne
<1>3. Harmless(h, CronUpdateHere(h, s, p))
  BY <1>2, Zenon DEF CronUpdateHere
<1>4. Harmless(h, CronUpdateMoves(h, s, p))
  BY HarmlessOutcomes DEF CronUpdateMoves
<1>5. QED
  BY <1>1, <1>2, <1>3, <1>4, HarmlessOutcomes DEF CronCreate, CronUpdate, CronDelete

\* package refuses nothing.
LEMMA PkgHarmless ==
    ASSUME MarksApart, NEW h, NEW s, NEW p
    PROVE  Harmless(h, applyPackage(h, s, p)) /\ Harmless(h, PkgDelete(h, s))
<1>1. Nil # Refused /\ Failed # Refused /\ \A q, ver : buildPackageState(q, ver) # Refused
  BY RecordsAreStates DEF MarksApart, buildPackageState
<1>2. Harmless(h, applyPackage(h, s, p))
  <2> DEFINE removed == removePackage(h, p.k)
             inst == IF PkgSatisfied(h, p) THEN h ELSE installPackage(h, p)
             ringed == [inst EXCEPT !.rings = IF p.ring = "" THEN @ ELSE @ \cup {p.ring}]
             done == IF p.ensure = "absent" THEN cleanupPackageRepoKeyring(removed, s, p) ELSE cleanupPackageRepoKeyring(ringed, s, p)
  <2>1. CASE p.ensure = "absent"
    <3>1. Harmless(h, Change(<<h, removed, done>>, buildPackageState(p, "")))
      BY <1>1, HarmlessOutcomes
    <3>2. QED
      BY <2>1, <3>1, Zenon DEF applyPackage
  <2>2. CASE p.ensure # "absent" /\ p.ring # "" /\ h.pm # "apt"
    <3>1. Harmless(h, Change(<<h, inst>>, Failed))
      BY <1>1, HarmlessOutcomes
    <3>2. QED
      BY <2>2, <3>1, Zenon DEF applyPackage
  <2>3. CASE p.ensure # "absent" /\ ~(p.ring # "" /\ h.pm # "apt")
    <3>1. Harmless(h, Change(<<h, inst, ringed, done>>, buildPackageState(p, done.ver[p.k])))
      BY <1>1, HarmlessOutcomes
    <3>2. applyPackage(h, s, p) = Change(<<h, inst, ringed, done>>, buildPackageState(p, done.ver[p.k]))
      BY <2>3, Zenon DEF applyPackage
    <3> HIDE DEF inst, ringed, done
    <3>3. QED
      BY <3>1, <3>2
  <2>4. QED
    BY <2>1, <2>2, <2>3
<1>3. Harmless(h, PkgDelete(h, s))
  <2> DEFINE hs == <<h, removePackage(h, s.k), cleanupPackageRepoKeyring(removePackage(h, s.k), s, [s EXCEPT !.ensure = "absent"])>>
  <2>1. PkgDelete(h, s) = Change(hs, Nil)
    BY Zenon DEF PkgDelete
  <2> HIDE DEF hs
  <2>2. Harmless(h, Change(hs, Nil))
    BY <1>1, HarmlessOutcomes
  <2>3. QED
    BY <2>1, <2>2
<1>4. QED
  BY <1>2, <1>3

\* package_lock refuses nothing.
LEMMA LockHarmless ==
    ASSUME MarksApart, NEW h, NEW s, NEW p, p # Refused
    PROVE  Harmless(h, applyPackageLock(h, s, p)) /\ Harmless(h, LockDelete(h, s))
<1>1. Nil # Refused /\ Failed # Refused
  BY DEF MarksApart
<1>2. \A out, H : out # Refused => Harmless(h, UNION {Run(hs, out) : hs \in H})
  <2>1. ASSUME NEW out, out # Refused, NEW H PROVE Harmless(h, UNION {Run(hs, out) : hs \in H})
    <3>1. \A hs : Harmless(h, Run(hs, out))
      BY <2>1, HarmlessOutcomes
    <3>2. \A A \in {Run(hs, out) : hs \in H} : Harmless(h, A)
      BY <3>1, Zenon
    <3>3. QED
      BY <3>2, HarmlessAll
  <2>2. QED
    BY <2>1
<1>4. Harmless(h, LockDelete(h, s))
  BY <1>1, <1>2 DEF LockDelete
<1>5. CASE p.ensure # "present"
  <2> DEFINE managed == IF s = Nil THEN p.pkgs ELSE p.pkgs \cup s.pkgs
             steps == changePackageLocks(h, currentPackageLocks(h, managed), "absent")
  <2>1. applyPackageLock(h, s, p) = UNION {Run(hs, p) : hs \in steps}
    BY <1>5, Zenon DEF applyPackageLock
  <2>2. Harmless(h, UNION {Run(hs, p) : hs \in steps})
    BY <1>2
  <2> HIDE DEF steps
  <2>3. QED
    BY <1>4, <2>1, <2>2
<1>6. CASE p.ensure = "present"
  <2> DEFINE missing == p.pkgs \ currentPackageLocks(h, p.pkgs)
             locking == changePackageLocks(h, missing, "present")
             after(hs) == UNION {Run(gs, p) : gs \in changePackageLocks(Last(hs), packagesToUnlock(h, s, p), "absent")}
  <2>1. \A hs : Harmless(h, after(hs))
    BY <1>2, Zenon
  <2>2. Harmless(h, UNION {Then(hs, after(hs)) : hs \in locking})
    <3> HIDE DEF after, locking
    <3>1. \A hs : Harmless(h, Then(hs, after(hs)))
      BY <2>1, HarmlessOutcomes
    <3>2. \A A \in {Then(hs, after(hs)) : hs \in locking} : Harmless(h, A)
      BY <3>1, Zenon
    <3>3. QED
      BY <3>2, HarmlessAll
  <2>3. applyPackageLock(h, s, p) = UNION {Then(hs, after(hs)) : hs \in locking}
    BY <1>6, Zenon DEF applyPackageLock
  <2> HIDE DEF after, locking
  <2>4. QED
    BY <1>4, <2>2, <2>3
<1>7. QED
  BY <1>4, <1>5, <1>6

\* apt_repository refuses a file that is there before it writes.
LEMMA RepoHarmless ==
    ASSUME MarksApart, NEW h, NEW s, NEW p, p # Refused
    PROVE  /\ Harmless(h, RepoCreate(h, p)) /\ Harmless(h, applyRepository(h, s, p))
           /\ Harmless(h, RepoDelete(h, s))
<1>1. Nil # Refused /\ Failed # Refused
  BY DEF MarksApart
<1>2. \A x : Harmless(h, applyRepository(h, x, p))
  BY HarmlessOutcomes DEF applyRepository
<1>3. Harmless(h, RepoCreate(h, p))
  BY <1>2, HarmlessOutcomes DEF RepoCreate
<1>4. Harmless(h, RepoDelete(h, s))
  BY <1>1, HarmlessOutcomes DEF RepoDelete
<1>5. QED
  BY <1>2, <1>3, <1>4

\* tls_identity refuses once the old pair is back, its chain and its key.
LEMMA TlsHarmless ==
    ASSUME MarksApart, NEW h, TlsShape(h), NEW s, NEW p, p # Refused
    PROVE  /\ Harmless(h, TlsCreate(h, p)) /\ Harmless(h, applyTLSIdentity(h, p))
           /\ Harmless(h, removeTLSIdentity(h, s))
<1> DEFINE hs == reconcileTLSIdentity(h, p)
           back(i) == Change(restoreTLSIdentity(hs[i], h, p), Refused)
<1>1. Nil # Refused
  BY DEF MarksApart
<1>2. Harmless(h, applyTLSIdentity(h, p))
  <2>1. \A i : Harmless(h, back(i))
    <3>1. \A x : Last(restoreTLSIdentity(x, h, p)) = h
      BY DEF restoreTLSIdentity, Last
    <3>2. QED
      BY <3>1, RefusedAtHome, Zenon
  <2>2. applyTLSIdentity(h, p) = Change(hs, p) \cup UNION {back(i) : i \in DOMAIN hs}
    BY Zenon DEF applyTLSIdentity
  <2> HIDE DEF hs, back
  <2>3. \A A \in {back(i) : i \in DOMAIN hs} : Harmless(h, A)
    BY <2>1, Zenon
  <2>4. Harmless(h, UNION {back(i) : i \in DOMAIN hs})
    BY <2>3, HarmlessAll
  <2>5. Harmless(h, Change(hs, p))
    BY HarmlessOutcomes
  <2>6. Harmless(h, Change(hs, p) \cup UNION {back(i) : i \in DOMAIN hs})
    BY <2>4, <2>5, HarmlessUnion, Zenon
  <2>7. QED
    BY <2>2, <2>6
<1>3. Harmless(h, TlsCreate(h, p))
  BY <1>2, HarmlessOutcomes DEF TlsCreate
<1>4. Harmless(h, removeTLSIdentity(h, s))
  <2> DEFINE gone == <<h, [h EXCEPT !.file[s.k].chain = Nil], [h EXCEPT !.file[s.k] = NoPair]>>
  <2>1. removeTLSIdentity(h, s) = Change(gone, Nil)
    BY Zenon DEF removeTLSIdentity
  <2> HIDE DEF gone
  <2>2. Harmless(h, Change(gone, Nil))
    BY <1>1, HarmlessOutcomes
  <2>3. QED
    BY <2>1, <2>2
<1>5. QED
  BY <1>2, <1>3, <1>4

\* ufw_rule refuses what would cut SSH off before it changes a rule.
LEMMA UfwHarmless ==
    ASSUME MarksApart, NEW h, NEW s, NEW p, p # Refused
    PROVE  Harmless(h, applyUFWRule(h, s, p)) /\ Harmless(h, UfwDelete(h, s))
<1>1. Nil # Refused /\ Failed # Refused
  BY DEF MarksApart
<1>2. \A hs, out : out # Refused => Harmless(h, Run(hs, out))
  BY HarmlessOutcomes
<1>3. Harmless(h, Refuse(h))
  BY HarmlessOutcomes
<1>4. \E hs : applyUFWRule(h, s, p) \in {Refuse(h), Run(hs, p)}
  BY Zenon DEF applyUFWRule
<1>5. Harmless(h, UfwDelete(h, s))
  BY <1>1, <1>2, <1>3 DEF UfwDelete
<1>6. QED
  BY <1>2, <1>3, <1>4, <1>5

\* group refuses a name or number that is taken, or a group that is gone, before it acts.
LEMMA GroupHarmless ==
    ASSUME MarksApart, NEW h, NEW s, NEW p, p # Refused
    PROVE  /\ Harmless(h, GroupCreate(h, p)) /\ Harmless(h, GroupUpdate(h, s, p))
           /\ Harmless(h, GroupDelete(h, s))
<1>1. Nil # Refused /\ Failed # Refused /\ \A k, ensure, gid : [k |-> k, ensure |-> ensure, gid |-> gid] # Refused
  BY RecordsAreStates DEF MarksApart
<1>2. \A k, out : out # Refused => Harmless(h, GroupRemove(h, k, out))
  BY HarmlessOutcomes DEF GroupRemove
<1>3. Harmless(h, groupadd(h, p))
  <2> DEFINE hs(n) == <<h, [h EXCEPT !.gid[p.k] = n]>>
             out(n) == [k |-> p.k, ensure |-> "present", gid |-> n]
             N == IF p.gid = 0 THEN FreeId(h, p.k) ELSE {p.gid}
  <2>1. groupadd(h, p) = Refuse(h) \/ groupadd(h, p) = UNION {Run(hs(n), out(n)) : n \in N}
    BY Zenon DEF groupadd
  <2>2. \A n : out(n) # Refused
    BY <1>1
  <2> HIDE DEF hs, out, N
  <2>3. \A n : Harmless(h, Run(hs(n), out(n)))
    BY <2>2, HarmlessOutcomes
  <2>4. \A A \in {Run(hs(n), out(n)) : n \in N} : Harmless(h, A)
    BY <2>3, Zenon
  <2>5. Harmless(h, UNION {Run(hs(n), out(n)) : n \in N})
    BY <2>4, HarmlessAll
  <2>6. Harmless(h, Refuse(h))
    BY HarmlessOutcomes
  <2>7. QED
    BY <2>1, <2>5, <2>6
<1>4. Harmless(h, GroupCreate(h, p))
  BY <1>2, <1>3, HarmlessOutcomes DEF GroupCreate
<1>5. \A x : GroupRead(x, s) # Refused
  BY <1>1 DEF GroupRead
<1>6. \A x, y : Harmless(h, Change(<<h, x>>, GroupRead(y, s)))
  BY <1>1, <1>5, HarmlessOutcomes
<1>7. Harmless(h, GroupUpdate(h, s, p))
  BY <1>2, <1>6, HarmlessOutcomes DEF GroupUpdate
<1>8. QED
  BY <1>1, <1>2, <1>4, <1>7 DEF GroupDelete

\* user refuses a name that is taken, a user or a group that is not there, before it acts.
LEMMA UserHarmless ==
    ASSUME MarksApart, NEW h, NEW s, NEW p
    PROVE  /\ Harmless(h, UserCreate(h, p)) /\ Harmless(h, UserUpdate(h, s, p))
           /\ Harmless(h, UserDelete(h, s))
<1>1. /\ Nil # Refused /\ Failed # Refused
      /\ \A k, ensure, shell, groups, append :
           [k |-> k, ensure |-> ensure, shell |-> shell, groups |-> groups, append |-> append] # Refused
  BY RecordsAreStates DEF MarksApart
<1>2. \A k : absentUserState(k) # Refused
  BY <1>1 DEF absentUserState
<1>3. \A k, u : carryUserPlanFields(UserState(k, u, p.append), p) # Refused
  <2>1. \A f : f = [x \in DOMAIN f |-> f[x]] => f # Refused
    BY FunctionsAreStates, Zenon
  <2>2. ASSUME NEW f, NEW g, NEW a
        PROVE  [f EXCEPT !.groups = g, !.append = a] # Refused
    <3> DEFINE e == [f EXCEPT !.groups = g, !.append = a]
    <3>1. e = [x \in DOMAIN e |-> e[x]]
      OBVIOUS
    <3>2. QED
      BY <2>1, <3>1, Zenon
  <2>3. QED
    BY <2>2 DEF carryUserPlanFields
<1>4. \A k, out : out # Refused => Harmless(h, userdel(h, k, out))
  BY HarmlessOutcomes DEF userdel
<1>5. \A k, u : Harmless(h, UserWrite(h, k, u, p))
  <2>1. SUFFICES ASSUME NEW k, NEW u PROVE Harmless(h, UserWrite(h, k, u, p))
    OBVIOUS
  <2> DEFINE w == [h EXCEPT !.user[k] = u]
             out == carryUserPlanFields(UserState(k, u, p.append), p)
  <2>2. UserWrite(h, k, u, p) = Change(<<h, w>>, out)
    BY Zenon DEF UserWrite
  <2>3. out # Refused
    BY <1>3
  <2> HIDE DEF w, out
  <2>4. Harmless(h, Change(<<h, w>>, out))
    BY <2>3, HarmlessOutcomes
  <2>5. QED
    BY <2>2, <2>4
<1>6. Harmless(h, UserCreate(h, p))
  BY <1>2, <1>4, <1>5, HarmlessOutcomes DEF UserCreate
<1>7. Harmless(h, UserUpdate(h, s, p))
  BY <1>2, <1>4, <1>5, HarmlessOutcomes DEF UserUpdate
<1>8. QED
  BY <1>1, <1>4, <1>6, <1>7 DEF UserDelete

\* command refuses nothing.
LEMMA CommandHarmless ==
    ASSUME MarksApart, NEW h, NEW s, NEW p, p # Refused
    PROVE  /\ Harmless(h, CommandCreate(h, p)) /\ Harmless(h, CommandUpdate(h, s, p))
           /\ Harmless(h, CommandDelete(h, s))
<1>1. Nil # Refused /\ Failed # Refused
  BY DEF MarksApart
<1>2. \A x : Harmless(h, CommandUpdate(h, x, p))
  BY <1>1, HarmlessOutcomes DEF CommandUpdate
<1>3. Harmless(h, CommandCreate(h, p))
  BY <1>2, HarmlessOutcomes DEF CommandCreate
<1>4. Harmless(h, CommandDelete(h, s))
  BY <1>1, HarmlessOutcomes DEF CommandDelete
<1>5. QED
  BY <1>2, <1>3, <1>4

\* timezone refuses nothing.
LEMMA ZoneHarmless ==
    ASSUME MarksApart, NEW h, NEW s, NEW p, p # Refused
    PROVE  Harmless(h, applyTimezone(h, p)) /\ Harmless(h, ZoneDelete(h, s))
<1>1. Nil # Refused /\ Failed # Refused
  BY DEF MarksApart
<1>2. Harmless(h, applyTimezone(h, p))
  BY <1>1, HarmlessOutcomes DEF applyTimezone
<1>3. QED
  BY <1>1, <1>2, HarmlessOutcomes DEF ZoneDelete

\* timesync refuses nothing.
LEMMA SyncHarmless ==
    ASSUME MarksApart, NEW h, NEW s, NEW p
    PROVE  Harmless(h, applyTimesync(h, p)) /\ Harmless(h, SyncDelete(h, s))
<1>1. Nil # Refused /\ Failed # Refused /\ \A x, y : SyncRead(x, y) # Refused
  BY RecordsAreStates DEF MarksApart, SyncRead
<1>2. Harmless(h, applyTimesync(h, p))
  BY <1>1, HarmlessOutcomes DEF applyTimesync
<1>3. QED
  BY <1>1, <1>2, HarmlessOutcomes DEF SyncDelete

\* file refuses after its temporary files are gone and the old one is back,
\* trusted_cert after the old anchor is, and systemd_unit after the old drop-in is.
LEMMA FileCertUnitHarmless ==
    ASSUME MarksApart, NEW t, NEW h, HostShape(t, h), NEW s, NEW p, p # Refused,
           t \in {"file", "trusted_cert", "systemd_unit"}
    PROVE  Harmless(h, CreateOp(t, h, p)) /\ Harmless(h, UpdateOp(t, h, s, p)) /\ Harmless(h, DeleteOp(t, h, s))
<1>1. CASE t = "file"
  BY <1>1, FileOps, FileCreated, FileApplied, FileDeleted DEF HostShape, Harmless
<1>2. CASE t = "trusted_cert"
  BY <1>2, CertOps, CertCreated, CertUpdated, CertDeleted DEF HostShape, Harmless
<1>3. CASE t = "systemd_unit"
  BY <1>3, UnitOps, UnitCreated, UnitUpdated, UnitDeleted DEF HostShape, Harmless, UnitStop
<1>4. QED
  BY <1>1, <1>2, <1>3

\* So it is with the operations of every type.
LEMMA OpsHarmless ==
    ASSUME MarksApart, NEW t \in Types, NEW h, HostShape(t, h), NEW s, NEW p, IsState(p)
    PROVE  Harmless(h, CreateOp(t, h, p)) /\ Harmless(h, UpdateOp(t, h, s, p)) /\ Harmless(h, DeleteOp(t, h, s))
<1>0. p # Refused
  BY DEF IsState
<1>1. CASE t = "symlink"
  BY <1>0, <1>1, SymlinkHarmless DEF CreateOp, UpdateOp, DeleteOp
<1>2. CASE t = "kernel_modules"
  BY <1>0, <1>2, ModulesHarmless DEF CreateOp, UpdateOp, DeleteOp
<1>3. CASE t = "hosts_entry"
  BY <1>0, <1>3, HostsHarmless DEF CreateOp, UpdateOp, DeleteOp
<1>4. CASE t = "sysctl_entry"
  BY <1>0, <1>4, SysctlHarmless DEF CreateOp, UpdateOp, DeleteOp
<1>5. CASE t = "network_stack"
  BY <1>0, <1>5, NetHarmless DEF CreateOp, UpdateOp, DeleteOp
<1>6. CASE t = "fstab_entry"
  BY <1>0, <1>6, FstabHarmless DEF CreateOp, UpdateOp, DeleteOp
<1>7. CASE t = "swap"
  BY <1>0, <1>7, SwapHarmless DEF CreateOp, UpdateOp, DeleteOp
<1>8. CASE t = "sshd_config"
  BY <1>0, <1>8, SshdHarmless DEF CreateOp, UpdateOp, DeleteOp
<1>9. CASE t = "crontab_entry"
  BY <1>0, <1>9, CronOps, CronHarmless
<1>10. CASE t = "package"
  BY <1>0, <1>10, PkgHarmless DEF CreateOp, UpdateOp, DeleteOp
<1>11. CASE t = "package_lock"
  BY <1>0, <1>11, LockHarmless DEF CreateOp, UpdateOp, DeleteOp
<1>12. CASE t = "apt_repository"
  BY <1>0, <1>12, RepoOps, RepoHarmless
<1>13. CASE t = "tls_identity"
  BY <1>0, <1>13, TlsOps, TlsHarmless DEF HostShape
<1>14. CASE t = "ufw_rule"
  BY <1>0, <1>14, UfwHarmless DEF CreateOp, UpdateOp, DeleteOp
<1>15. CASE t = "group"
  BY <1>0, <1>15, GroupHarmless DEF CreateOp, UpdateOp, DeleteOp
<1>16. CASE t = "user"
  BY <1>0, <1>16, UserHarmless DEF CreateOp, UpdateOp, DeleteOp
<1>17. CASE t = "command"
  BY <1>0, <1>17, CommandHarmless DEF CreateOp, UpdateOp, DeleteOp
<1>18. CASE t = "timezone"
  BY <1>0, <1>18, ZoneHarmless DEF CreateOp, UpdateOp, DeleteOp
<1>19. CASE t = "timesync"
  BY <1>0, <1>19, SyncHarmless DEF CreateOp, UpdateOp, DeleteOp
<1>20. CASE t \in {"file", "trusted_cert", "systemd_unit"}
  BY <1>0, <1>20, FileCertUnitHarmless
<1>21. QED
  BY <1>1, <1>2, <1>3, <1>4, <1>5, <1>6, <1>7, <1>8, <1>9, <1>10, <1>11,
     <1>12, <1>13, <1>14, <1>15, <1>16, <1>17, <1>18, <1>19, <1>20
     DEF Types, FileTypes, SystemTypes

\* What a configuration asks for is a state.
LEMMA PlansAreStates ==
    ASSUME MarksApart, NEW t \in Types, NEW p \in Plans(t)
    PROVE  IsState(p)
<1>1. p = [x \in DOMAIN p |-> p[x]]
  <2>1. CASE t = "file"
    BY <2>1 DEF Plans, FilePlan
  <2>2. CASE t = "symlink"
    BY <2>2 DEF Plans, SymlinkPlan
  <2>3. CASE t = "kernel_modules"
    BY <2>3 DEF Plans, ModulesPlan
  <2>4. CASE t = "hosts_entry"
    BY <2>4 DEF Plans, HostsPlan
  <2>5. CASE t = "sysctl_entry"
    BY <2>5 DEF Plans, SysctlPlan
  <2>6. CASE t = "network_stack"
    BY <2>6 DEF Plans, NetPlan
  <2>7. CASE t = "fstab_entry"
    BY <2>7 DEF Plans, FstabPlan
  <2>8. CASE t = "swap"
    BY <2>8 DEF Plans, SwapPlan
  <2>9. CASE t = "sshd_config"
    BY <2>9 DEF Plans, SshdPlan
  <2>10. CASE t = "crontab_entry"
    BY <2>10 DEF Plans, CronPlan
  <2>11. CASE t = "package"
    BY <2>11 DEF Plans, PkgPlan
  <2>12. CASE t = "package_lock"
    BY <2>12 DEF Plans, LockPlan
  <2>13. CASE t = "apt_repository"
    BY <2>13 DEF Plans, RepoPlan
  <2>14. CASE t = "trusted_cert"
    BY <2>14 DEF Plans, CertPlan
  <2>15. CASE t = "tls_identity"
    BY <2>15 DEF Plans, TlsPlan
  <2>16. CASE t = "ufw_rule"
    BY <2>16 DEF Plans, UfwPlan
  <2>17. CASE t = "user"
    BY <2>17 DEF Plans, UserPlan
  <2>18. CASE t = "group"
    BY <2>18 DEF Plans, GroupPlan
  <2>19. CASE t = "command"
    BY <2>19 DEF Plans, CommandPlan
  <2>20. CASE t = "systemd_unit"
    BY <2>20 DEF Plans, UnitPlan
  <2>21. CASE t = "timezone"
    BY <2>21 DEF Plans, ZonePlan
  <2>22. CASE t = "timesync"
    BY <2>22 DEF Plans, SyncPlan
  <2>23. QED
    BY <2>1, <2>2, <2>3, <2>4, <2>5, <2>6, <2>7, <2>8, <2>9, <2>10, <2>11,
       <2>12, <2>13, <2>14, <2>15, <2>16, <2>17, <2>18, <2>19, <2>20, <2>21, <2>22
       DEF Types, FileTypes, SystemTypes
<1>2. QED
  BY <1>1, FunctionsAreStates, Zenon

-----------------------------------------------------------------------------
(* Positions in their order. *)

\* The number of positions of S up to i.
Rank(S, i) == Cardinality({j \in S : j <= i})

\* A set of positions.
Finite(S) == S \in SUBSET Nat /\ IsFiniteSet(S)

\* The numbers up to m are a finite set of m elements.
LEMMA FiniteUpTo ==
    ASSUME NEW m \in Nat
    PROVE  Finite(1 .. m) /\ Cardinality(1 .. m) = m
<1>1. IsFiniteSet(1 .. m) /\ Cardinality(1 .. m) = IF 1 > m THEN 0 ELSE m - 1 + 1
  BY FS_Interval
<1>2. 1 .. m \in SUBSET Nat
  OBVIOUS
<1>3. QED
  BY <1>1, <1>2 DEF Finite

\* A part of a finite set is finite and no larger, and as large only when it is the whole.
LEMMA FinitePart ==
    ASSUME NEW S, Finite(S), NEW T, T \subseteq S
    PROVE  Finite(T) /\ Cardinality(T) <= Cardinality(S) /\ (Cardinality(S) = Cardinality(T) => S = T)
<1>1. T \in SUBSET S /\ S \in SUBSET Nat /\ IsFiniteSet(S)
  BY DEF Finite
<1>2. QED
  BY <1>1, FS_Subset DEF Finite

\* Ranks grow with the positions and end at their number.
LEMMA Ranks ==
    ASSUME NEW S, Finite(S)
    PROVE  /\ Cardinality(S) \in Nat
           /\ \A i \in S : Rank(S, i) \in 1 .. Cardinality(S)
           /\ \A i, j \in S : i < j => Rank(S, i) < Rank(S, j)
           /\ \A i, j \in S : Rank(S, i) = Rank(S, j) => i = j
<1> USE DEF Finite
<1> DEFINE upto(i) == {j \in S : j <= i}
<1>1. Cardinality(S) \in Nat
  BY FS_CardinalityType
<1>2. \A i : /\ IsFiniteSet(upto(i)) /\ Cardinality(upto(i)) \in Nat
             /\ Cardinality(upto(i)) <= Cardinality(S)
  <2>1. SUFFICES ASSUME NEW i PROVE IsFiniteSet(upto(i)) /\ Cardinality(upto(i)) <= Cardinality(S)
    BY FS_CardinalityType
  <2>2. upto(i) \in SUBSET S
    OBVIOUS
  <2>3. QED
    BY <2>2, FS_Subset
<1>3. \A i \in S : Cardinality(upto(i)) # 0
  <2>1. SUFFICES ASSUME NEW i \in S PROVE upto(i) # {}
    BY <1>2, FS_EmptySet
  <2>2. QED
    BY <2>1
<1>4. \A i, j \in S : i < j => Cardinality(upto(i)) < Cardinality(upto(j))
  <2>1. SUFFICES ASSUME NEW i \in S, NEW j \in S, i < j PROVE Cardinality(upto(i)) < Cardinality(upto(j))
    OBVIOUS
  <2>2. upto(i) \in SUBSET upto(j) /\ j \in upto(j) /\ j \notin upto(i)
    <3>1. i \in Nat /\ j \in Nat /\ \A k \in S : k \in Nat
      OBVIOUS
    <3>2. \A k \in S : k <= i => k <= j
      BY <2>1, <3>1
    <3>3. j <= j /\ ~(j <= i)
      BY <2>1, <3>1
    <3>4. QED
      BY <3>2, <3>3
  <2>3. /\ Cardinality(upto(i)) <= Cardinality(upto(j))
        /\ Cardinality(upto(i)) # Cardinality(upto(j))
    BY <1>2, <2>2, FS_Subset
  <2> HIDE DEF upto
  <2>4. QED
    BY <1>2, <2>3
<1>5. \A i : Rank(S, i) = Cardinality(upto(i))
  BY DEF Rank
<1> HIDE DEF upto
<1>6. \A i, j \in S : i = j \/ i < j \/ j < i
  OBVIOUS
<1>7. \A i \in S : Rank(S, i) \in 1 .. Cardinality(S)
  BY <1>1, <1>2, <1>3, <1>5
<1>8. \A i, j \in S : i < j => Rank(S, i) < Rank(S, j)
  BY <1>4, <1>5
<1>9. \A i, j \in S : Rank(S, i) = Rank(S, j) => i = j
  BY <1>6, <1>7, <1>8
<1>10. QED
  BY <1>1, <1>7, <1>8, <1>9

\* Nth is the inverse of Rank: ranks are different, so that each of them is reached.
LEMMA NthOfRank ==
    ASSUME NEW S, Finite(S)
    PROVE  /\ \A n \in 1 .. Cardinality(S) : Nth(S, n) \in S /\ Rank(S, Nth(S, n)) = n
           /\ \A i \in S : Nth(S, Rank(S, i)) = i
<1> DEFINE N == 1 .. Cardinality(S)
           f == [i \in S |-> Rank(S, i)]
<1>1. Cardinality(S) \in Nat /\ IsFiniteSet(N) /\ Cardinality(N) = Cardinality(S)
  BY Ranks, FS_Interval
<1>2. f \in Injection(S, N)
  <2>1. \A i, j \in S : f[i] = f[j] => i = j
    BY Ranks
  <2>2. f \in [S -> N]
    BY Ranks
  <2>3. QED
    BY <2>1, <2>2, Fun_IsInj
<1>3. f \in Surjection(S, N)
  <2> HIDE DEF N, f
  <2>1. QED
    BY <1>1, <1>2, FS_Injection
<1>4. \A n \in N : \E i \in S : Rank(S, i) = n
  <2>1. \A n \in N : \E i \in S : f[i] = n
    <3> HIDE DEF N, f
    <3>1. QED
      BY <1>3, Fun_SurjectionProperties
  <2>2. QED
    BY <2>1
<1>5. \A n \in N : Nth(S, n) \in S /\ Rank(S, Nth(S, n)) = n
  BY <1>4 DEF Nth, Rank
<1>6. \A i \in S : Nth(S, Rank(S, i)) = i
  <2>1. SUFFICES ASSUME NEW i \in S PROVE Nth(S, Rank(S, i)) = i
    OBVIOUS
  <2>2. Rank(S, i) \in N
    BY Ranks
  <2>3. Nth(S, Rank(S, i)) \in S /\ Rank(S, Nth(S, Rank(S, i))) = Rank(S, i)
    BY <1>5, <2>2
  <2>4. QED
    BY <2>3, Ranks
<1>7. QED
  BY <1>5, <1>6

\* What At is made of.
LEMMA AtElements ==
    ASSUME NEW S, Finite(S), NEW s
    PROVE  /\ Cardinality(S) \in Nat
           /\ At(s, S) = [n \in 1 .. Cardinality(S) |-> s[Nth(S, n)]]
           /\ DOMAIN At(s, S) = 1 .. Cardinality(S)
           /\ \A n \in DOMAIN At(s, S) : At(s, S)[n] = s[Nth(S, n)] /\ Nth(S, n) \in S
           /\ \A i \in S : Rank(S, i) \in DOMAIN At(s, S) /\ At(s, S)[Rank(S, i)] = s[i]
<1>1. DOMAIN At(s, S) = 1 .. Cardinality(S) /\ \A n \in DOMAIN At(s, S) : At(s, S)[n] = s[Nth(S, n)]
  BY DEF At
<1>2. \A n \in DOMAIN At(s, S) : Nth(S, n) \in S
  BY <1>1, NthOfRank
<1>3. \A i \in S : Rank(S, i) \in 1 .. Cardinality(S) /\ Nth(S, Rank(S, i)) = i
  BY Ranks, NthOfRank
<1>4. QED
  BY <1>1, <1>2, <1>3, Ranks DEF At

\* Nth grows.
LEMMA NthGrows ==
    ASSUME NEW S, Finite(S), NEW m \in 1 .. Cardinality(S), NEW n \in 1 .. Cardinality(S)
    PROVE  m < n <=> Nth(S, m) < Nth(S, n)
<1>1. /\ Nth(S, m) \in S /\ Rank(S, Nth(S, m)) = m
      /\ Nth(S, n) \in S /\ Rank(S, Nth(S, n)) = n
  BY NthOfRank
<1>2. Nth(S, m) \in Nat /\ Nth(S, n) \in Nat /\ Cardinality(S) \in Nat
  BY <1>1, Ranks DEF Finite
<1>3. Nth(S, m) < Nth(S, n) => m < n
  BY <1>1, Ranks
<1>4. Nth(S, n) < Nth(S, m) => n < m
  BY <1>1, Ranks
<1>5. QED
  BY <1>1, <1>2, <1>3, <1>4

\* Two sequences hold the same at positions that correspond, in their order.
LEMMA AtIso ==
    ASSUME NEW S, Finite(S), NEW T, Finite(T), NEW s, NEW t, NEW f \in [S -> T],
           \A i, j \in S : i < j => f[i] < f[j],
           \A k \in T : \E i \in S : f[i] = k,
           \A i \in S : s[i] = t[f[i]]
    PROVE  At(s, S) = At(t, T) /\ Cardinality(S) = Cardinality(T)
<1>0. S \in SUBSET Nat /\ T \in SUBSET Nat
  BY DEF Finite
<1>1. \A i, j \in S : /\ i < j <=> f[i] < f[j]
                      /\ i <= j <=> f[i] <= f[j]
                      /\ i = j <=> f[i] = f[j]
  <2>1. SUFFICES ASSUME NEW i \in S, NEW j \in S
                 PROVE  (i < j <=> f[i] < f[j]) /\ (i <= j <=> f[i] <= f[j]) /\ (i = j <=> f[i] = f[j])
    OBVIOUS
  <2>2. i \in Nat /\ j \in Nat /\ f[i] \in Nat /\ f[j] \in Nat
    BY <1>0
  <2>3. (i < j => f[i] < f[j]) /\ (j < i => f[j] < f[i])
    OBVIOUS
  <2>4. QED
    BY <2>2, <2>3
<1>2. ASSUME NEW A, A \subseteq S, NEW B, B = {f[i] : i \in A}
      PROVE  Cardinality(B) = Cardinality(A)
  <2> DEFINE g == [i \in A |-> f[i]]
  <2>1. g \in [A -> B]
    BY <1>2
  <2>2. \A i, j \in A : g[i] = g[j] => i = j
    BY <1>1, <1>2
  <2>3. \A k \in B : \E i \in A : g[i] = k
    BY <1>2
  <2>4. IsFiniteSet(A)
    BY <1>2, FS_Subset DEF Finite
  <2> HIDE DEF g
  <2>5. g \in Bijection(A, B)
    BY <2>1, <2>2, <2>3, Fun_IsBij
  <2>6. QED
    BY <2>4, <2>5, FS_Bijection DEF ExistsBijection
<1>3. Cardinality(S) = Cardinality(T)
  BY <1>2, T = {f[i] : i \in S}
<1>4. \A i \in S : Rank(T, f[i]) = Rank(S, i)
  <2>1. SUFFICES ASSUME NEW i \in S PROVE Rank(T, f[i]) = Rank(S, i)
    OBVIOUS
  <2>2. {k \in T : k <= f[i]} = {f[j] : j \in {j \in S : j <= i}}
    BY <1>1
  <2>3. QED
    BY <1>2, <2>2 DEF Rank
<1>5. \A n \in 1 .. Cardinality(S) : s[Nth(S, n)] = t[Nth(T, n)]
  <2>1. SUFFICES ASSUME NEW n \in 1 .. Cardinality(S) PROVE s[Nth(S, n)] = t[Nth(T, n)]
    OBVIOUS
  <2>2. Nth(S, n) \in S /\ Rank(S, Nth(S, n)) = n
    BY NthOfRank
  <2>3. f[Nth(S, n)] \in T /\ Rank(T, f[Nth(S, n)]) = n
    BY <1>4, <2>2
  <2>4. Nth(T, n) = f[Nth(S, n)]
    BY <2>3, NthOfRank
  <2>5. QED
    BY <2>2, <2>4
<1>6. QED
  BY <1>3, <1>5 DEF At

\* Only the set of positions and what is there matter.
LEMMA AtSame ==
    ASSUME NEW S, Finite(S), NEW s, NEW t, \A i \in S : s[i] = t[i]
    PROVE  At(s, S) = At(t, S)
<1>1. \A n \in 1 .. Cardinality(S) : s[Nth(S, n)] = t[Nth(S, n)]
  BY NthOfRank
<1>2. QED
  BY <1>1 DEF At

\* The elements of a sequence at all of its positions are the sequence.
LEMMA AtAll ==
    ASSUME NEW m \in Nat, NEW s
    PROVE  At(s, 1 .. m) = [i \in 1 .. m |-> s[i]]
<1>1. Finite(1 .. m) /\ Cardinality(1 .. m) = m
  BY FiniteUpTo
<1>2. \A i \in 1 .. m : Rank(1 .. m, i) = i
  <2>1. SUFFICES ASSUME NEW i \in 1 .. m PROVE Rank(1 .. m, i) = i
    OBVIOUS
  <2>2. {j \in 1 .. m : j <= i} = 1 .. i
    OBVIOUS
  <2>3. QED
    BY <2>2, i \in Nat, FiniteUpTo DEF Rank
<1>3. \A i \in 1 .. m : Nth(1 .. m, i) = i
  BY <1>1, <1>2, NthOfRank
<1>4. QED
  BY <1>1, <1>3 DEF At

\* The elements at the positions U of those at S are those at both.
LEMMA AtOfAt ==
    ASSUME NEW S, Finite(S), NEW U, NEW s, NEW T, T = {n \in 1 .. Cardinality(S) : Nth(S, n) \in U}
    PROVE  At(At(s, S), T) = At(s, S \cap U) /\ Finite(T) /\ Finite(S \cap U)
<1> DEFINE f == [n \in T |-> Nth(S, n)]
<1>1. Cardinality(S) \in Nat
  BY Ranks
<1>2. Finite(T)
  BY <1>1, FiniteUpTo, FinitePart, T \subseteq 1 .. Cardinality(S)
<1>3. Finite(S \cap U)
  BY FinitePart
<1>4. f \in [T -> S \cap U]
  BY NthOfRank
<1>5. \A m, n \in T : m < n => f[m] < f[n]
  BY NthGrows
<1>6. \A k \in S \cap U : \E n \in T : f[n] = k
  <2>1. SUFFICES ASSUME NEW k \in S \cap U PROVE Rank(S, k) \in T /\ Nth(S, Rank(S, k)) = k
    OBVIOUS
  <2>2. QED
    BY Ranks, NthOfRank
<1>7. \A n \in T : At(s, S)[n] = s[f[n]]
  BY AtElements
<1> HIDE DEF f
<1>8. At(At(s, S), T) = At(s, S \cap U)
  BY <1>2, <1>3, <1>4, <1>5, <1>6, <1>7, AtIso
<1>9. QED
  BY <1>2, <1>3, <1>8

-----------------------------------------------------------------------------
(* Lines of a file. *)

\* The words of the lines: what they are, their keys and their values.
Word ==
  {"entry", "raw", "disabled", "marker", "job"}
  \cup {"", "a", "b", "m", "n", "none", "Port", "Root", "Other"}
  \cup {"x", "c", "#c", "0", "1", "2", "ext4", "xfs", "swap", "bad", "j1", "j2"}
Line == [t : Word, k : Word, v : Word]

\* A file is a sequence of lines: what is said of a sequence the other way round.
LEMMA SeqShape ==
    ASSUME NEW X, NEW s \in Seq(X)
    PROVE  /\ Len(s) \in Nat /\ DOMAIN s = 1 .. Len(s)
           /\ s = [i \in 1 .. Len(s) |-> s[i]]
           /\ Finite(DOMAIN s)
           /\ \A i \in DOMAIN s : s[i] \in X
<1>1. Len(s) \in Nat /\ DOMAIN s = 1 .. Len(s) /\ s \in [1 .. Len(s) -> X]
  BY LenProperties
<1>2. Finite(1 .. Len(s))
  BY <1>1, FiniteUpTo
<1>3. QED
  BY <1>1, <1>2

\* A part of the positions of a sequence.
LEMMA PartFinite ==
    ASSUME NEW X, NEW s \in Seq(X), NEW S, S \subseteq DOMAIN s
    PROVE  Finite(S)
  BY SeqShape, FinitePart

\* The elements at some positions of a sequence are a sequence of as many.
LEMMA AtSeq ==
    ASSUME NEW X, NEW s \in Seq(X), NEW S, S \subseteq DOMAIN s
    PROVE  At(s, S) \in Seq(X) /\ Len(At(s, S)) = Cardinality(S)
<1> DEFINE e(n) == s[Nth(S, n)]
<1>1. Finite(S) /\ Cardinality(S) \in Nat
  BY PartFinite, Ranks
<1>2. At(s, S) = [n \in 1 .. Cardinality(S) |-> e(n)]
  BY DEF At
<1>3. \A n \in 1 .. Cardinality(S) : e(n) \in X
  BY <1>1, NthOfRank, SeqShape
<1> HIDE DEF e
<1>4. [n \in 1 .. Cardinality(S) |-> e(n)] \in Seq(X)
  BY <1>1, <1>3, SeqDef
<1>5. QED
  BY <1>1, <1>2, <1>4, LenProperties

\* A file, as its lines.
Text == Seq(Line)

\* The least of some positions.
LEMMA Least ==
    ASSUME NEW P, Finite(P), P # {}, NEW m, m = CHOOSE i \in P : \A j \in P : i <= j
    PROVE  m \in P /\ \A j \in P : m <= j
<1>1. Cardinality(P) \in Nat /\ Cardinality(P) # 0
  BY Ranks, FS_EmptySet DEF Finite
<1>2. Nth(P, 1) \in P /\ Rank(P, Nth(P, 1)) = 1
  BY <1>1, NthOfRank
<1>3. ASSUME NEW j \in P PROVE Nth(P, 1) <= j
  <2>1. Rank(P, j) \in 1 .. Cardinality(P)
    BY Ranks
  <2>2. ~(j < Nth(P, 1))
    BY <1>1, <1>2, <2>1, Ranks
  <2>3. j \in Nat /\ Nth(P, 1) \in Nat
    BY <1>2 DEF Finite
  <2>4. QED
    BY <2>2, <2>3
<1>4. QED
  BY <1>2, <1>3

\* The greatest of some positions.
LEMMA Greatest ==
    ASSUME NEW P, Finite(P), P # {}, NEW m, m = CHOOSE i \in P : \A j \in P : j <= i
    PROVE  m \in P /\ \A j \in P : j <= m
<1> DEFINE c == Cardinality(P)
<1>1. c \in Nat /\ c # 0
  BY Ranks, FS_EmptySet DEF Finite
<1>2. Nth(P, c) \in P /\ Rank(P, Nth(P, c)) = c
  BY <1>1, NthOfRank
<1>3. ASSUME NEW j \in P PROVE j <= Nth(P, c)
  <2>1. Rank(P, j) \in 1 .. c
    BY Ranks
  <2>2. ~(Nth(P, c) < j)
    BY <1>1, <1>2, <2>1, Ranks
  <2>3. j \in Nat /\ Nth(P, c) \in Nat
    BY <1>2 DEF Finite
  <2>4. QED
    BY <2>2, <2>3
<1> HIDE DEF c
<1>4. QED
  BY <1>2, <1>3

-----------------------------------------------------------------------------
(* Files of entries. *)

\* The lines that are no entries of the objects ids.
Others(doc, ids) == {i \in DOMAIN doc : ~(doc[i].t = "entry" /\ <<doc[i].k>> \in ids)}
Rest(doc, ids) == At(doc, Others(doc, ids))

\* The line of an entry carries its key and its value.
LEMMA EntryLine ==
    ASSUME NEW k \in Word, NEW v \in Word
    PROVE  /\ Entry(k, v) \in Line
           /\ Entry(k, v).t = "entry" /\ Entry(k, v).k = k /\ Entry(k, v).v = v
<1>1. "entry" \in Word
  BY DEF Word
<1>2. QED
  BY <1>1 DEF Entry, Line

\* A line is the record of its type, key and value.
LEMMA LineParts ==
    ASSUME NEW line \in Line
    PROVE  line = [t |-> line.t, k |-> line.k, v |-> line.v] /\ line.t \in Word /\ line.k \in Word /\ line.v \in Word
  BY DEF Line

\* A record of three words is a line.
LEMMA LineMade ==
    ASSUME NEW t \in Word, NEW k \in Word, NEW v \in Word
    PROVE  [t |-> t, k |-> k, v |-> v] \in Line
  BY DEF Line

\* A function on the positions of a sequence is a sequence.
LEMMA OnPositions ==
    ASSUME NEW X, NEW Y, NEW s \in Seq(X), NEW new, new = [i \in DOMAIN s |-> new[i]], \A i \in DOMAIN s : new[i] \in Y
    PROVE  new \in Seq(Y) /\ DOMAIN new = DOMAIN s /\ Len(new) = Len(s)
<1>1. Len(s) \in Nat /\ DOMAIN s = 1 .. Len(s)
  BY SeqShape
<1> DEFINE e(i) == new[i]
<1>2. new = [i \in 1 .. Len(s) |-> e(i)] /\ \A i \in 1 .. Len(s) : e(i) \in Y
  BY <1>1
<1> HIDE DEF e
<1>3. [i \in 1 .. Len(s) |-> e(i)] \in Seq(Y)
  BY <1>1, <1>2, SeqDef
<1>4. QED
  BY <1>1, <1>2, <1>3, LenProperties

\* A text has finitely many positions, those of a key and those of the others too.
LEMMA OthersFinite ==
    ASSUME NEW doc \in Text, NEW ids
    PROVE  Finite(Others(doc, ids)) /\ Finite(DOMAIN doc) /\ \A k : Finite(Positions(doc, k))
  BY PartFinite, SeqShape DEF Text, Others, Positions

\* The first entry of a key is the first of the file's rest.
LEMMA FirstOfRest ==
    ASSUME NEW doc \in Text, NEW ids, NEW k, <<k>> \notin ids
    PROVE  /\ HasEntry(doc, k) <=> HasEntry(Rest(doc, ids), k)
           /\ HasEntry(doc, k) => FirstEntry(doc, k) = FirstEntry(Rest(doc, ids), k)
<1> DEFINE S == Others(doc, ids)
           r == Rest(doc, ids)
           P == Positions(doc, k)
           Q == Positions(r, k)
<1>1. Finite(S) /\ Finite(P)
  BY OthersFinite
<1>2. P \subseteq S /\ P \subseteq DOMAIN doc /\ \A i \in DOMAIN doc : i \in P <=> IsEntry(doc[i], k)
  BY DEF Positions, IsEntry, Others
<1>3. DOMAIN r = 1 .. Cardinality(S) /\ \A n \in DOMAIN r : r[n] = doc[Nth(S, n)] /\ Nth(S, n) \in S
  BY <1>1, AtElements DEF Rest
<1>4. S \subseteq DOMAIN doc
  BY DEF Others
<1>5. \A n \in DOMAIN r : n \in Q <=> Nth(S, n) \in P
  BY <1>2, <1>3, <1>4 DEF Positions
<1>6. Q \subseteq DOMAIN r
  BY DEF Positions
<1>7. \A i \in P : Rank(S, i) \in Q /\ Nth(S, Rank(S, i)) = i
  BY <1>1, <1>2, <1>3, <1>5, Ranks, NthOfRank
<1> HIDE DEF S, r, P, Q
<1>8. Q # {} <=> P # {}
  BY <1>5, <1>6, <1>7
<1>9. Finite(Q)
  BY <1>1, <1>3, <1>6, Ranks, FiniteUpTo, FinitePart
<1>10. ASSUME P # {} PROVE FirstEntry(doc, k) = FirstEntry(r, k)
  <2> DEFINE m == CHOOSE i \in P : \A j \in P : i <= j
             n == CHOOSE i \in Q : \A j \in Q : i <= j
  <2>1. m \in P /\ \A j \in P : m <= j
    BY <1>1, <1>10, Least
  <2>2. n \in Q /\ \A j \in Q : n <= j
    BY <1>8, <1>9, <1>10, Least
  <2> HIDE DEF m, n
  <2>3. n <= Rank(S, m) /\ Rank(S, m) \in Q /\ Nth(S, Rank(S, m)) = m
    BY <1>7, <2>1, <2>2
  <2>4. Nth(S, n) \in P /\ m <= Nth(S, n)
    BY <1>5, <1>6, <2>1, <2>2
  <2>5. m \in Nat /\ Nth(S, n) \in Nat /\ n \in Nat /\ Rank(S, m) \in Nat /\ Cardinality(S) \in Nat
    BY <1>1, <1>3, <1>6, <1>9, <2>1, <2>2, <2>3, <2>4, Ranks DEF Finite
  <2>6. ~(m < Nth(S, n))
    BY <1>1, <1>3, <1>6, <2>2, <2>3, <2>5, NthGrows
  <2>7. Nth(S, n) = m
    BY <2>4, <2>5, <2>6
  <2>8. r[n] = doc[m]
    BY <1>3, <1>6, <2>2, <2>7
  <2>9. QED
    BY <2>8 DEF FirstEntry, m, n, P, Q
<1>11. QED
  BY <1>8, <1>10 DEF HasEntry, P, Q, r

\* Files with the same rest answer alike for its keys.
LEMMA SameRest ==
    ASSUME NEW doc \in Text, NEW new \in Text, NEW ids, Rest(doc, ids) = Rest(new, ids), NEW k, <<k>> \notin ids
    PROVE  /\ HasEntry(doc, k) <=> HasEntry(new, k)
           /\ HasEntry(doc, k) => FirstEntry(doc, k) = FirstEntry(new, k)
  BY FirstOfRest

\* The first entry of a key is one.
LEMMA FirstIsEntry ==
    ASSUME NEW doc \in Text, NEW k, HasEntry(doc, k)
    PROVE  \E i \in Positions(doc, k) : FirstEntry(doc, k) = doc[i] /\ doc[i] \in Line /\ \A j \in Positions(doc, k) : i <= j
<1> DEFINE P == Positions(doc, k)
           m == CHOOSE i \in P : \A j \in P : i <= j
<1>1. Finite(P) /\ P # {} /\ P \subseteq DOMAIN doc
  BY OthersFinite DEF HasEntry, Positions
<1> HIDE DEF P
<1>2. m \in P /\ \A j \in P : m <= j
  BY <1>1, Least
<1>3. doc[m] \in Line
  BY <1>1, <1>2, SeqShape DEF Text
<1>4. QED
  BY <1>2, <1>3 DEF FirstEntry, P

\* Dropping the entries of a key: they are gone, and the rest is as it was.
LEMMA Dropped ==
    ASSUME NEW doc \in Text, NEW k
    PROVE  /\ DropEntries(doc, k) \in Text
           /\ ~HasEntry(DropEntries(doc, k), k)
           /\ \A ids : <<k>> \in ids => Rest(DropEntries(doc, k), ids) = Rest(doc, ids)
<1> DEFINE S == DOMAIN doc \ Positions(doc, k)
           new == DropEntries(doc, k)
<1>1. S \subseteq DOMAIN doc /\ Finite(S)
  BY PartFinite DEF Text
<1>2. new \in Text
  BY <1>1, AtSeq DEF DropEntries, Text
<1>3. DOMAIN new = 1 .. Cardinality(S) /\ \A n \in DOMAIN new : new[n] = doc[Nth(S, n)] /\ Nth(S, n) \in S
  <2>1. new = At(doc, S)
    BY DEF DropEntries
  <2> HIDE DEF S, new
  <2>2. QED
    BY <1>1, <2>1, AtElements
<1>4. \A i \in S : ~IsEntry(doc[i], k)
  BY DEF Positions
<1>5. ~HasEntry(new, k)
  BY <1>3, <1>4 DEF HasEntry, Positions
<1>6. ASSUME NEW ids, <<k>> \in ids PROVE Rest(new, ids) = Rest(doc, ids)
  <2> DEFINE U == Others(doc, ids)
             T == Others(new, ids)
  <2>1. U \subseteq S
    BY <1>6 DEF Others, Positions, IsEntry
  <2>2. T = {n \in 1 .. Cardinality(S) : Nth(S, n) \in U}
    BY <1>1, <1>3 DEF Others
  <2>3. S \cap U = U
    BY <2>1
  <2>4. new = At(doc, S)
    BY DEF DropEntries
  <2> HIDE DEF S, U, T, new
  <2>5. At(new, T) = At(doc, U)
    BY <1>1, <2>2, <2>3, <2>4, AtOfAt
  <2>6. QED
    BY <2>5 DEF Rest, U, T
<1>7. QED
  BY <1>2, <1>5, <1>6

\* Appending an entry.
LEMMA Appended ==
    ASSUME NEW doc \in Text, NEW line \in Line, line.t = "entry"
    PROVE  /\ Append(doc, line) \in Text
           /\ \A ids : <<line.k>> \in ids => Rest(Append(doc, line), ids) = Rest(doc, ids)
           /\ ~HasEntry(doc, line.k) => HasEntry(Append(doc, line), line.k) /\ FirstEntry(Append(doc, line), line.k) = line
<1> DEFINE new == Append(doc, line)
<1>1. /\ new \in Text /\ Len(new) = Len(doc) + 1
      /\ new[Len(doc) + 1] = line
      /\ \A i \in 1 .. Len(doc) : new[i] = doc[i]
  BY AppendProperties DEF Text
<1>2. Len(doc) \in Nat /\ DOMAIN doc = 1 .. Len(doc) /\ DOMAIN new = 1 .. Len(doc) + 1
  BY <1>1, SeqShape DEF Text
<1> HIDE DEF new
<1>3. ASSUME NEW ids, <<line.k>> \in ids PROVE Rest(new, ids) = Rest(doc, ids)
  <2>1. Others(new, ids) = Others(doc, ids)
    BY <1>1, <1>2, <1>3 DEF Others
  <2>2. \A i \in Others(doc, ids) : new[i] = doc[i]
    BY <1>1, <1>2 DEF Others
  <2>3. QED
    BY <2>1, <2>2, OthersFinite, AtSame DEF Rest
<1>4. ASSUME ~HasEntry(doc, line.k) PROVE HasEntry(new, line.k) /\ FirstEntry(new, line.k) = line
  <2>1. Positions(new, line.k) = {Len(doc) + 1}
    BY <1>1, <1>2, <1>4 DEF HasEntry, Positions, IsEntry
  <2>2. QED
    BY <1>1, <2>1 DEF HasEntry, FirstEntry
<1>5. QED
  BY <1>1, <1>3, <1>4 DEF new

\* Rewriting the entries of a key where they are.
LEMMA Rewritten ==
    ASSUME NEW doc \in Text, NEW new \in Text, DOMAIN new = DOMAIN doc, NEW k,
           \A i \in DOMAIN doc : IF IsEntry(doc[i], k) THEN IsEntry(new[i], k) ELSE new[i] = doc[i]
    PROVE  /\ \A ids : <<k>> \in ids => Rest(new, ids) = Rest(doc, ids)
           /\ Positions(new, k) = Positions(doc, k)
<1>1. ASSUME NEW ids, <<k>> \in ids PROVE Rest(new, ids) = Rest(doc, ids)
  <2>1. Others(new, ids) = Others(doc, ids)
    BY <1>1 DEF Others, IsEntry
  <2>2. \A i \in Others(doc, ids) : new[i] = doc[i]
    BY <1>1 DEF Others, IsEntry
  <2>3. QED
    BY <2>1, <2>2, OthersFinite, AtSame DEF Rest
<1>2. Positions(new, k) = Positions(doc, k)
  BY DEF Positions, IsEntry
<1>3. QED
  BY <1>1, <1>2

\* The upsert of sysctl.conf and of fstab.
LEMMA Upserted ==
    ASSUME NEW doc \in Text, NEW k \in Word, NEW v \in Word
    PROVE  /\ upsertFstabEntry(doc, k, v) = upsertKeyValueEntry(doc, k, v)
           /\ upsertKeyValueEntry(doc, k, v) \in Text
           /\ \A ids : <<k>> \in ids => Rest(upsertKeyValueEntry(doc, k, v), ids) = Rest(doc, ids)
           /\ HasEntry(upsertKeyValueEntry(doc, k, v), k) /\ FirstEntry(upsertKeyValueEntry(doc, k, v), k) = Entry(k, v)
<1> DEFINE new == upsertKeyValueEntry(doc, k, v)
<1>0. /\ upsertFstabEntry(doc, k, v) = new
      /\ new = IF HasEntry(doc, k) THEN ReplaceAllEntries(doc, k, Entry(k, v)) ELSE Append(doc, Entry(k, v))
  BY DEF upsertFstabEntry, upsertKeyValueEntry
<1> HIDE DEF new
<1>1. Entry(k, v) \in Line /\ IsEntry(Entry(k, v), k) /\ Entry(k, v).t = "entry" /\ Entry(k, v).k = k
  BY EntryLine DEF IsEntry
<1> DEFINE done == /\ new \in Text
                   /\ \A ids : <<k>> \in ids => Rest(new, ids) = Rest(doc, ids)
                   /\ HasEntry(new, k) /\ FirstEntry(new, k) = Entry(k, v)
<1>2. ASSUME ~HasEntry(doc, k) PROVE done
  <2>1. new = Append(doc, Entry(k, v))
    BY <1>0, <1>2
  <2>2. done
    BY <1>1, <1>2, <2>1, Appended
  <2>3. QED
    BY <2>2
<1>3. ASSUME HasEntry(doc, k) PROVE done
  <2>1. Len(doc) \in Nat /\ DOMAIN doc = 1 .. Len(doc) /\ \A i \in DOMAIN doc : doc[i] \in Line
    BY SeqShape DEF Text
  <2>2. /\ new = [i \in DOMAIN doc |-> new[i]]
        /\ \A i \in DOMAIN doc : new[i] = IF IsEntry(doc[i], k) THEN Entry(k, v) ELSE doc[i]
    BY <1>0, <1>3, <2>1 DEF ReplaceAllEntries
  <2>3. new \in Text /\ DOMAIN new = DOMAIN doc
    <3>1. \A i \in DOMAIN doc : new[i] \in Line
      BY <1>1, <2>1, <2>2
    <3>2. doc \in Seq(Line) /\ new = [i \in DOMAIN doc |-> new[i]]
      BY <2>2 DEF Text
    <3>3. new \in Seq(Line) /\ DOMAIN new = DOMAIN doc
      BY ONLY <3>1, <3>2, OnPositions
    <3>4. QED
      BY <3>3 DEF Text
  <2>4. Positions(new, k) = Positions(doc, k) /\ \A ids : <<k>> \in ids => Rest(new, ids) = Rest(doc, ids)
    <3>1. \A i \in DOMAIN doc : IF IsEntry(doc[i], k) THEN IsEntry(new[i], k) ELSE new[i] = doc[i]
      BY <1>1, <2>2
    <3>2. QED
      BY <2>3, <3>1, Rewritten
  <2>5. HasEntry(new, k)
    BY <1>3, <2>4 DEF HasEntry
  <2>6. FirstEntry(new, k) = Entry(k, v)
    <3>1. PICK i \in Positions(doc, k) : FirstEntry(new, k) = new[i]
      BY <2>3, <2>4, <2>5, FirstIsEntry
    <3>2. i \in DOMAIN doc /\ IsEntry(doc[i], k)
      BY DEF Positions
    <3>3. QED
      BY <2>2, <3>1, <3>2
  <2>7. QED
    BY <2>3, <2>4, <2>5, <2>6
<1>4. done
  BY <1>2, <1>3
<1>5. QED
  BY <1>0, <1>4 DEF new

\* A call that reads, and one that is refused.
LEMMA ReadOutcome ==
    ASSUME NEW h, NEW out, NEW o \in Answers(h, out) \cup Refuse(h) \cup {Outcome(h, Failed)}
    PROVE  o.h = h /\ ((o \in Answers(h, out) /\ o.out = out) \/ o.out \in {Refused, Failed})
  BY DEF Answers, Refuse, Outcome

-----------------------------------------------------------------------------
(* Writing a shared file. *)

\* What a failed write of doc leaves of a file that cannot be renamed over: lines of doc.
CutShort(h, o, doc) ==
    /\ h.mount /\ o.out = Failed
    /\ \E c \in Text : o.h = [h EXCEPT !.doc = c] /\ \A i \in DOMAIN c : i \in DOMAIN doc /\ c[i] = doc[i]

\* A failed write of such a file, whatever it left.
Cut(h, o) == h.mount /\ o.out = Failed

\* The beginnings of a file are files of its lines.
LEMMA LinesTorn ==
    ASSUME NEW h, NEW doc \in Text, NEW o \in TornWrite(h, doc)
    PROVE  CutShort(h, o, doc)
<1>1. h.mount /\ \E c \in Cuts(doc) : o = Outcome([h EXCEPT !.doc = c], Failed)
  BY DEF TornWrite
<1>2. ASSUME NEW c \in Cuts(doc) PROVE c \in Text /\ \A i \in DOMAIN c : i \in DOMAIN doc /\ c[i] = doc[i]
  <2>1. PICK n \in 0 .. Len(doc) - 1 : c = SubSeq(doc, 1, n)
    BY DEF Cuts
  <2>2. Len(doc) \in Nat /\ DOMAIN doc = 1 .. Len(doc) /\ \A i \in 1 .. Len(doc) : doc[i] \in Line
    BY SeqShape DEF Text
  <2>3. c \in Seq(Line) /\ Len(c) = n /\ \A i \in 1 .. n : c[i] = doc[i]
    BY <2>1, <2>2, SubSeqProperties DEF Text
  <2>4. DOMAIN c = 1 .. n
    BY <2>3, SeqShape
  <2>5. QED
    BY <2>2, <2>3, <2>4 DEF Text
<1>3. PICK c \in Cuts(doc) : o = Outcome([h EXCEPT !.doc = c], Failed)
  BY <1>1
<1>4. o.h = [h EXCEPT !.doc = c] /\ o.out = Failed
  BY <1>3 DEF Outcome
<1>5. QED
  BY <1>1, <1>2, <1>4 DEF CutShort

\* The hosts an operation may leave that writes the file.
LEMMA LinesWritten ==
    ASSUME NEW h, NEW doc \in Text, NEW out, NEW o \in writeLines(h, doc, out)
    PROVE  \/ o.h \in {h, [h EXCEPT !.doc = doc]} /\ o.out = Failed
           \/ o.h = [h EXCEPT !.doc = doc] /\ o.out = out
           \/ CutShort(h, o, doc)
<1> DEFINE w == [h EXCEPT !.doc = doc]
<1>1. o \in Run(<<h, w>>, out) \/ o \in TornWrite(h, doc)
  BY DEF writeLines
<1> HIDE DEF w
<1>2. o \in Run(<<h, w>>, out) => (o.h \in {h, w} /\ o.out = Failed) \/ (o.h = w /\ o.out = out)
  BY RunOfTwo
<1>3. QED
  BY <1>1, <1>2, LinesTorn DEF w

-----------------------------------------------------------------------------
(* hosts_entry *)

\* What the host holds for the type, and a state of it; so for the types below.
HostsFile(h) == h = [doc |-> h.doc, mount |-> h.mount] /\ h.doc \in Text

\* A hosts file whose rewrite was cut short is one still.
LEMMA HostsCut ==
    ASSUME NEW h, HostsFile(h), NEW doc, NEW o, CutShort(h, o, doc)
    PROVE  HostsFile(o.h) /\ Cut(h, o) /\ o.out = Failed
<1>1. PICK c \in Text : o.h = [h EXCEPT !.doc = c]
  BY DEF CutShort
<1>2. o.h = [doc |-> c, mount |-> h.mount]
  BY <1>1 DEF HostsFile
<1>3. QED
  BY <1>2 DEF HostsFile, Cut, CutShort

HostsState(s) == s = [k |-> s.k, v |-> s.v] /\ s.k \in {"a", "b"} /\ s.v \in {"", "c", "#c"}

\* From h to x only entries of the key k change.
DocOnly(h, x, k) == \A ids : <<k>> \in ids => Rest(x.doc, ids) = Rest(h.doc, ids)

\* What is read of other keys.
LEMMA HostsReadOther ==
    ASSUME NEW h, HostsFile(h), NEW x, HostsFile(x), NEW k, DocOnly(h, x, k), NEW s, s.k # k
    PROVE  HostsRead(x, s) = HostsRead(h, s)
<1>1. Rest(h.doc, {<<k>>}) = Rest(x.doc, {<<k>>}) /\ <<s.k>> \notin {<<k>>}
  BY DEF DocOnly
<1>2. QED
  BY <1>1, SameRest DEF HostsFile, HostsRead

\* A hosts comment is written with its '#' and read without it, so that only the comment that was
\* given with the '#' is read otherwise than it was written.
LEMMA HostsComment ==
    ASSUME NEW v \in {"", "c", "#c"}
    PROVE  serializeHostsComment(v) \in {"", "#c"} /\ (v # "#c" => hostsCommentState(serializeHostsComment(v)) = v)
  BY DEF serializeHostsComment, hostsCommentState

\* A create appends the entry.
LEMMA HostsCreated ==
    ASSUME NEW h, HostsFile(h), NEW p, HostsState(p), NEW o \in HostsCreate(h, p)
    PROVE  /\ HostsFile(o.h) /\ (DocOnly(h, o.h, p.k) \/ Cut(h, o))
           /\ IsState(o.out) => o.out = p /\ (p.v # "#c" => HostsRead(o.h, p) = p)
<1> DEFINE line == Entry(p.k, serializeHostsComment(p.v))
           d == DropEntries(h.doc, p.k)
           new == upsertHostsEntry(h.doc, line)
           w == [h EXCEPT !.doc = new]
<1>1. p.k \in Word /\ serializeHostsComment(p.v) \in Word
  BY HostsComment DEF HostsState, Word
<1>2. line \in Line /\ line.t = "entry" /\ line.k = p.k /\ line.v = serializeHostsComment(p.v)
  BY <1>1, EntryLine
<1>3. h.doc \in Text /\ h = [doc |-> h.doc, mount |-> h.mount]
  BY DEF HostsFile
<1>4. d \in Text /\ ~HasEntry(d, p.k) /\ \A ids : <<p.k>> \in ids => Rest(d, ids) = Rest(h.doc, ids)
  BY <1>3, Dropped
<1>5. new = Append(d, line)
  <2>1. new = Append(DropEntries(h.doc, line.k), line)
    BY DEF upsertHostsEntry
  <2> HIDE DEF new, line
  <2>2. QED
    BY <1>2, <2>1
<1>6. o \in Refuse(h) \/ o \in writeLines(h, new, p)
  BY DEF HostsCreate
<1> HIDE DEF line, d, new
<1>7. w = [doc |-> new, mount |-> h.mount]
  BY <1>3
<1> HIDE DEF w
<1>8. /\ Append(d, line) \in Text
      /\ \A ids : <<p.k>> \in ids => Rest(Append(d, line), ids) = Rest(d, ids)
      /\ HasEntry(Append(d, line), p.k) /\ FirstEntry(Append(d, line), p.k) = line
  BY <1>2, <1>4, Appended
<1>9. HostsFile(w) /\ DocOnly(h, w, p.k)
  BY <1>4, <1>5, <1>7, <1>8 DEF HostsFile, DocOnly
<1>10. HostsFile(h) /\ DocOnly(h, h, p.k)
  BY DEF DocOnly
<1>11. p.v # "#c" => HostsRead(w, p) = p
  BY <1>2, <1>5, <1>7, <1>8, HostsComment DEF HostsRead, HostsState
<1>12. CASE o \in Refuse(h)
  BY <1>10, <1>12, RefuseOutcome DEF IsState
<1>13. CASE o \in writeLines(h, new, p)
  <2>1. \/ o.h \in {h, w} /\ o.out = Failed
        \/ o.h = w /\ o.out = p
        \/ CutShort(h, o, new)
    BY <1>5, <1>8, <1>13, LinesWritten DEF w
  <2>2. QED
    BY <1>9, <1>10, <1>11, <2>1, HostsCut DEF IsState
<1>14. QED
  BY <1>6, <1>12, <1>13

\* An update rewrites the first entry of the prior state's key.
LEMMA HostsUpdated ==
    ASSUME NEW h, HostsFile(h), NEW s, HostsState(s), NEW p, HostsState(p), NEW o \in HostsUpdate(h, s, p)
    PROVE  /\ HostsFile(o.h) /\ (DocOnly(h, o.h, s.k) \/ Cut(h, o))
           /\ IsState(o.out) => /\ o.out = [k |-> s.k, v |-> p.v]
                                /\ p.v # "#c" => HostsRead(o.h, o.out) = o.out
<1> DEFINE P == Positions(h.doc, s.k)
           at == CHOOSE i \in P : \A j \in P : i <= j
           c == serializeHostsComment(p.v)
           changed == [h.doc EXCEPT ![at].v = c]
           new == [h EXCEPT !.doc = changed]
           out == [k |-> s.k, v |-> p.v]
<1>1. h.doc \in Text /\ h = [doc |-> h.doc, mount |-> h.mount] /\ c \in Word
  BY HostsComment DEF HostsFile, HostsState, Word
<1>2. o \in Refuse(h) \/ (HasEntry(h.doc, s.k) /\ o \in writeLines(h, changed, out))
  BY Zenon DEF HostsUpdate
<1>3. ASSUME HasEntry(h.doc, s.k)
      PROVE  /\ new.doc = changed /\ HostsFile(new) /\ DocOnly(h, new, s.k)
             /\ HasEntry(new.doc, s.k) /\ FirstEntry(new.doc, s.k).v = c
  <2>1. at \in P /\ P \subseteq DOMAIN h.doc
    <3>1. P # {} /\ P \subseteq DOMAIN h.doc
      BY <1>3 DEF HasEntry, Positions
    <3>2. Finite(P)
      BY <1>1, OthersFinite
    <3> HIDE DEF P
    <3>3. QED
      BY <3>1, <3>2, Least
  <2>2. \A i \in P : IsEntry(h.doc[i], s.k)
    BY DEF Positions
  <2>3. h.doc[at] \in Line /\ IsEntry(h.doc[at], s.k) /\ \A i \in DOMAIN h.doc : h.doc[i] \in Line
    BY <1>1, <2>1, <2>2, SeqShape DEF Text
  <2>4. P = Positions(h.doc, s.k)
    OBVIOUS
  <2> HIDE DEF at, P
  <2> DEFINE line == [h.doc[at] EXCEPT !.v = c]
  <2>5. line \in Line /\ IsEntry(line, s.k) /\ line.v = c
    <3>1. line = [t |-> h.doc[at].t, k |-> h.doc[at].k, v |-> c]
      BY <2>3 DEF Line
    <3> HIDE DEF line, c
    <3>2. QED
      BY <1>1, <2>3, <3>1 DEF Line, IsEntry
  <2>6. /\ new = [doc |-> new.doc, mount |-> new.mount] /\ new.doc = [i \in DOMAIN h.doc |-> new.doc[i]]
        /\ \A i \in DOMAIN h.doc : new.doc[i] = IF i = at THEN line ELSE h.doc[i]
    <3>1. new = [h EXCEPT !.doc = [h.doc EXCEPT ![at] = line]]
      OBVIOUS
    <3>2. new = [doc |-> [h.doc EXCEPT ![at] = line], mount |-> h.mount]
      BY <1>1, <3>1
    <3> HIDE DEF new, line
    <3>3. QED
      BY <3>2, <2>1
  <2>7. new.doc = changed
    BY <1>1
  <2> HIDE DEF new, changed, line
  <2>8. new.doc \in Text /\ DOMAIN new.doc = DOMAIN h.doc
    <3>1. \A i \in DOMAIN h.doc : new.doc[i] \in Line
      BY <2>3, <2>5, <2>6
    <3>2. h.doc \in Seq(Line) /\ new.doc = [i \in DOMAIN h.doc |-> new.doc[i]]
      BY <1>1, <2>6 DEF Text
    <3>3. new.doc \in Seq(Line) /\ DOMAIN new.doc = DOMAIN h.doc
      BY ONLY <3>1, <3>2, OnPositions
    <3>4. QED
      BY <3>3 DEF Text
  <2>9. \A i \in DOMAIN h.doc : IF IsEntry(h.doc[i], s.k) THEN IsEntry(new.doc[i], s.k) ELSE new.doc[i] = h.doc[i]
    BY <2>3, <2>5, <2>6
  <2>10. Positions(new.doc, s.k) = P /\ \A ids : <<s.k>> \in ids => Rest(new.doc, ids) = Rest(h.doc, ids)
    BY <1>1, <2>4, <2>8, <2>9, Rewritten
  <2>11. FirstEntry(new.doc, s.k) = new.doc[at]
    BY <2>10 DEF FirstEntry, at
  <2>12. QED
    BY <2>1, <2>5, <2>6, <2>7, <2>8, <2>10, <2>11 DEF HostsFile, DocOnly, HasEntry
<1>4. HostsFile(h) /\ DocOnly(h, h, s.k)
  BY DEF DocOnly
<1> HIDE DEF new, changed, at, P
<1>5. HasEntry(h.doc, s.k) /\ p.v # "#c" => HostsRead(new, out) = out
  BY <1>3, HostsComment DEF HostsRead, HostsState
<1>6. CASE o \in Refuse(h)
  BY <1>4, <1>6, RefuseOutcome DEF IsState
<1>7. CASE HasEntry(h.doc, s.k) /\ o \in writeLines(h, changed, out)
  <2>1. changed \in Text
    BY <1>3, <1>7 DEF HostsFile
  <2> HIDE DEF out
  <2>2. \/ o.h \in {h, new} /\ o.out = Failed
        \/ o.h = new /\ o.out = out
        \/ CutShort(h, o, changed)
    BY <1>7, <2>1, LinesWritten DEF new
  <2>3. QED
    BY <1>3, <1>4, <1>5, <1>7, <2>2, HostsCut DEF IsState, out
<1>8. QED
  BY <1>2, <1>6, <1>7

\* A delete drops the entries of the key.
LEMMA HostsDeleted ==
    ASSUME NEW h, HostsFile(h), NEW s, HostsState(s), NEW o \in HostsDelete(h, s)
    PROVE  /\ HostsFile(o.h) /\ (DocOnly(h, o.h, s.k) \/ Cut(h, o))
           /\ o.out = Failed \/ HostsRead(o.h, s) = Nil
<1> DEFINE d == DropEntries(h.doc, s.k)
           w == [h EXCEPT !.doc = d]
<1>1. d \in Text /\ h.doc \in Text
  BY Dropped DEF HostsFile
<1>2. \/ o.h \in {h, w} /\ o.out = Failed
      \/ o.h = w /\ o.out = Nil
      \/ CutShort(h, o, d)
  BY <1>1, LinesWritten DEF HostsDelete
<1>3. w = [doc |-> d, mount |-> h.mount]
  BY DEF HostsFile
<1> HIDE DEF w
<1>4. HostsFile(w) /\ DocOnly(h, w, s.k) /\ HostsRead(w, s) = Nil
  BY <1>1, <1>3, Dropped DEF HostsFile, DocOnly, HostsRead
<1> HIDE DEF d
<1>5. QED
  BY <1>2, <1>4, HostsCut DEF DocOnly

\* What a refresh reports is a state, and reported again.
LEMMA HostsReads ==
    ASSUME NEW h, HostsFile(h), NEW s, s.k \in {"a", "b"}, HostsRead(h, s) # Nil
    PROVE  HostsState(HostsRead(h, s)) /\ HostsRead(h, HostsRead(h, s)) = HostsRead(h, s) /\ HostsRead(h, s).k = s.k
<1> DEFINE v == hostsCommentState(FirstEntry(h.doc, s.k).v)
<1>1. HasEntry(h.doc, s.k) /\ HostsRead(h, s) = [k |-> s.k, v |-> v]
  BY DEF HostsRead
<1>2. v \in {"", "c"}
  BY DEF hostsCommentState
<1>3. HostsRead(h, [k |-> s.k, v |-> v]) = [k |-> s.k, v |-> v]
  BY <1>1 DEF HostsRead
<1> HIDE DEF v
<1>4. QED
  <2>1. HostsState([k |-> s.k, v |-> v])
    BY <1>2 DEF HostsState
  <2>2. QED
    BY <1>1, <1>3, <2>1

-----------------------------------------------------------------------------
(* sysctl_entry *)

SysctlFile(h) ==
    /\ h = [doc |-> h.doc, live |-> h.live, mount |-> h.mount]
    /\ h.doc \in Text /\ h.live = [k \in SysctlKey |-> h.live[k]]

\* A sysctl.conf whose rewrite was cut short is one still.
LEMMA SysctlCut ==
    ASSUME NEW h, SysctlFile(h), NEW doc, NEW o, CutShort(h, o, doc)
    PROVE  SysctlFile(o.h) /\ Cut(h, o) /\ o.out = Failed
<1>1. PICK c \in Text : o.h = [h EXCEPT !.doc = c]
  BY DEF CutShort
<1>2. o.h = [doc |-> c, live |-> h.live, mount |-> h.mount]
  BY <1>1 DEF SysctlFile
<1>3. QED
  BY <1>2 DEF SysctlFile, Cut, CutShort

SysctlState(s) == s = [k |-> s.k, v |-> s.v] /\ s.k \in SysctlKey /\ s.v \in Word

\* The first entry of a key, which both packs read.
LEMMA SysctlReadOther ==
    ASSUME NEW h, h.doc \in Text, NEW x, x.doc \in Text, NEW k, DocOnly(h, x, k), NEW s, s.k # k
    PROVE  SysctlRead(x, s) = SysctlRead(h, s) /\ FstabRead(x, s) = FstabRead(h, s)
<1>1. Rest(h.doc, {<<k>>}) = Rest(x.doc, {<<k>>}) /\ <<s.k>> \notin {<<k>>}
  BY DEF DocOnly
<1>2. QED
  BY <1>1, SameRest DEF SysctlRead, FstabRead, findKeyValueEntry, findFstabEntry

\* An apply rewrites the entries of the key, or appends one, and sets the value.
LEMMA SysctlApplied ==
    ASSUME NEW h, SysctlFile(h), NEW p, SysctlState(p), NEW o \in applySysctlEntry(h, p)
    PROVE  /\ SysctlFile(o.h) /\ (DocOnly(h, o.h, p.k) \/ Cut(h, o))
           /\ IsState(o.out) => o.out = p /\ SysctlRead(o.h, p) = p /\ o.h.live[p.k] = p.v
<1> DEFINE d == upsertKeyValueEntry(h.doc, p.k, p.v)
           w == [h EXCEPT !.doc = upsertKeyValueEntry(@, p.k, p.v)]
           a == [w EXCEPT !.live[p.k] = p.v]
<1>1. /\ h = [doc |-> h.doc, live |-> h.live, mount |-> h.mount]
      /\ h.doc \in Text /\ h.live = [k \in SysctlKey |-> h.live[k]]
  BY DEF SysctlFile
<1>2. p.k \in Word /\ p.v \in Word /\ p.k \in SysctlKey /\ p = [k |-> p.k, v |-> p.v]
  BY DEF SysctlState, SysctlKey, Word
<1>3. /\ d \in Text
      /\ \A ids : <<p.k>> \in ids => Rest(d, ids) = Rest(h.doc, ids)
      /\ HasEntry(d, p.k) /\ FirstEntry(d, p.k) = Entry(p.k, p.v)
  BY <1>1, <1>2, Upserted
<1>4. /\ w = [doc |-> d, live |-> h.live, mount |-> h.mount]
      /\ a = [doc |-> d, live |-> [h.live EXCEPT ![p.k] = p.v], mount |-> h.mount]
  <2>1. w = [doc |-> d, live |-> h.live, mount |-> h.mount]
    BY <1>1
  <2> HIDE DEF w, d
  <2>2. QED
    BY <2>1
<1>5. \/ (o.h \in {h, w, a} /\ o.out = Failed) \/ (o.h = a /\ o.out = SysctlRead(a, p))
      \/ CutShort(h, o, d)
  <2>1. o \in Run(<<h, w, a>>, SysctlRead(a, p)) \/ o \in TornWrite(h, w.doc)
    BY Zenon DEF applySysctlEntry
  <2>2. w.doc = d
    BY <1>4
  <2> HIDE DEF w, a, d
  <2>3. o \in Run(<<h, w, a>>, SysctlRead(a, p))
          => (o.h \in {h, w, a} /\ o.out = Failed) \/ (o.h = a /\ o.out = SysctlRead(a, p))
    BY RunOfThree
  <2>4. QED
    BY <1>3, <2>1, <2>2, <2>3, LinesTorn
<1> HIDE DEF d, w, a
<1>6. SysctlRead(a, p) = p
  BY <1>2, <1>3, <1>4, EntryLine DEF SysctlRead, findKeyValueEntry
<1>7. SysctlFile(w) /\ SysctlFile(a) /\ a.live[p.k] = p.v
  BY <1>1, <1>2, <1>3, <1>4 DEF SysctlFile
<1>8. DocOnly(h, h, p.k) /\ DocOnly(h, w, p.k) /\ DocOnly(h, a, p.k)
  BY <1>3, <1>4 DEF DocOnly
<1>9. QED
  BY <1>5, <1>6, <1>7, <1>8, SysctlCut DEF IsState

\* A sysctl entry is created as it is applied, unless one is there already.
LEMMA SysctlCreated ==
    ASSUME NEW h, SysctlFile(h), NEW p, SysctlState(p), NEW o \in SysctlCreate(h, p)
    PROVE  /\ SysctlFile(o.h) /\ (DocOnly(h, o.h, p.k) \/ Cut(h, o))
           /\ IsState(o.out) => o.out = p /\ SysctlRead(o.h, p) = p /\ o.h.live[p.k] = p.v
<1>1. o \in applySysctlEntry(h, p) \/ (o.h = h /\ ~IsState(o.out))
  BY RefuseOutcome DEF SysctlCreate, IsState
<1>2. QED
  BY <1>1, SysctlApplied DEF DocOnly

\* A deleted sysctl entry is not read again; the lines of the others stay.
LEMMA SysctlDeleted ==
    ASSUME NEW h, SysctlFile(h), NEW s, NEW o \in SysctlDelete(h, s)
    PROVE  /\ SysctlFile(o.h) /\ (DocOnly(h, o.h, s.k) \/ Cut(h, o))
           /\ o.out = Failed \/ SysctlRead(o.h, s) = Nil
<1> DEFINE d == DropEntries(h.doc, s.k)
           w == [h EXCEPT !.doc = d]
<1>1. d \in Text /\ h.doc \in Text
  BY Dropped DEF SysctlFile
<1>2. \/ o.h \in {h, w} /\ o.out = Failed
      \/ o.h = w /\ o.out = Nil
      \/ CutShort(h, o, d)
  BY <1>1, LinesWritten DEF SysctlDelete, deleteKeyValueEntry
<1>3. w = [doc |-> d, live |-> h.live, mount |-> h.mount] /\ h.live = [k \in SysctlKey |-> h.live[k]]
  BY DEF SysctlFile
<1> HIDE DEF w
<1>4. SysctlFile(w) /\ DocOnly(h, w, s.k) /\ SysctlRead(w, s) = Nil
  BY <1>1, <1>3, Dropped DEF SysctlFile, DocOnly, SysctlRead, findKeyValueEntry
<1> HIDE DEF d
<1>5. QED
  BY <1>2, <1>4, SysctlCut DEF DocOnly

\* A refresh reports an entry of the key, and would report it again.
LEMMA SysctlReads ==
    ASSUME NEW h, SysctlFile(h), NEW s, s.k \in SysctlKey, SysctlRead(h, s) # Nil
    PROVE  /\ SysctlState(SysctlRead(h, s)) /\ SysctlRead(h, s).k = s.k
           /\ SysctlRead(h, SysctlRead(h, s)) = SysctlRead(h, s)
<1> DEFINE v == FirstEntry(h.doc, s.k).v
           x == [k |-> s.k, v |-> v]
<1>1. HasEntry(h.doc, s.k) /\ SysctlRead(h, s) = x /\ \A y : y.k = s.k => SysctlRead(h, y) = x
  BY DEF SysctlRead, findKeyValueEntry
<1>2. v \in Word
  BY <1>1, FirstIsEntry, LineParts DEF SysctlFile
<1> HIDE DEF v
<1>3. x.k = s.k /\ SysctlState(x)
  BY <1>2 DEF SysctlState
<1>4. QED
  BY <1>1, <1>3

-----------------------------------------------------------------------------
(* fstab_entry and swap *)

\* The mount points of fstab entries, none of which is a swap area's.
MountPoint == {"m", "n"}

\* No entry of a mount point is a swap line, enabled or not.
Mounts(doc) == \A i \in DOMAIN doc : doc[i].k \in MountPoint => doc[i].v # "swap" /\ doc[i].t # "disabled"

FstabFile(h) ==
    /\ h = [doc |-> h.doc, live |-> h.live, mount |-> h.mount]
    /\ h.doc \in Text /\ Mounts(h.doc) /\ h.live \in {"on", "off"}

\* An fstab whose rewrite was cut short is one still, and the swap areas stay as they are.
LEMMA FstabCut ==
    ASSUME NEW h, FstabFile(h), NEW doc, Mounts(doc), NEW o, CutShort(h, o, doc)
    PROVE  FstabFile(o.h) /\ o.h.live = h.live /\ Cut(h, o) /\ o.out = Failed
<1>1. PICK c \in Text : o.h = [h EXCEPT !.doc = c] /\ \A i \in DOMAIN c : i \in DOMAIN doc /\ c[i] = doc[i]
  BY DEF CutShort
<1>2. o.h = [doc |-> c, live |-> h.live, mount |-> h.mount]
  BY <1>1 DEF FstabFile
<1>3. Mounts(c)
  BY <1>1 DEF Mounts
<1>4. QED
  BY <1>2, <1>3 DEF FstabFile, Cut, CutShort

FstabState(s) == s = [k |-> s.k, v |-> s.v] /\ s.k \in MountPoint /\ s.v \in Word \ {"swap"}
SwapState(s) == s = [enabled |-> s.enabled] /\ s.enabled \in {"on", "off"}

\* The swap lines that are enabled are in the rest of the file.
LEMMA SwapOfRest ==
    ASSUME NEW doc \in Text, Mounts(doc), NEW k \in MountPoint
    PROVE  hasEnabledSwapEntries(doc) <=> hasEnabledSwapEntries(Rest(doc, {<<k>>}))
<1> DEFINE S == Others(doc, {<<k>>})
           r == Rest(doc, {<<k>>})
<1>1. Finite(S) /\ S \subseteq DOMAIN doc
  BY OthersFinite DEF Others
<1>2. \A i \in DOMAIN doc : IsSwap(doc[i]) => i \in S
  BY DEF IsSwap, Others, Mounts
<1>3. r = At(doc, S)
  BY DEF Rest
<1> HIDE DEF S, r
<1>4. /\ \A n \in DOMAIN r : r[n] = doc[Nth(S, n)] /\ Nth(S, n) \in S
      /\ \A i \in S : Rank(S, i) \in DOMAIN r /\ r[Rank(S, i)] = doc[i]
  BY <1>1, <1>3, AtElements
<1>5. QED
  BY <1>1, <1>2, <1>4 DEF hasEnabledSwapEntries, r

\* An apply of a mount point.
LEMMA FstabApplied ==
    ASSUME NEW h, FstabFile(h), NEW p, FstabState(p), NEW o \in applyFstabEntry(h, p)
    PROVE  /\ FstabFile(o.h) /\ (DocOnly(h, o.h, p.k) \/ Cut(h, o)) /\ o.h.live = h.live
           /\ IsState(o.out) => o.out = p /\ FstabRead(o.h, p) = p
<1> DEFINE d == upsertFstabEntry(h.doc, p.k, p.v)
           w == [h EXCEPT !.doc = d]
<1>1. h = [doc |-> h.doc, live |-> h.live, mount |-> h.mount] /\ h.doc \in Text /\ Mounts(h.doc)
  BY DEF FstabFile
<1>2. p.k \in Word /\ p.v \in Word /\ p.k \in MountPoint /\ p = [k |-> p.k, v |-> p.v] /\ p.v # "swap"
  BY DEF FstabState, MountPoint, Word
<1>3. /\ d \in Text
      /\ \A ids : <<p.k>> \in ids => Rest(d, ids) = Rest(h.doc, ids)
      /\ HasEntry(d, p.k) /\ FirstEntry(d, p.k) = Entry(p.k, p.v)
  BY <1>1, <1>2, Upserted
<1>4. w = [doc |-> d, live |-> h.live, mount |-> h.mount]
  BY <1>1
<1>5. \/ (o.h \in {h, w} /\ o.out = Failed) \/ (o.h = w /\ o.out = FstabRead(w, p))
      \/ CutShort(h, o, d)
  <2>1. o \in writeLines(h, d, FstabRead(w, p))
    BY Zenon DEF applyFstabEntry
  <2>2. QED
    BY <1>3, <2>1, LinesWritten
<1>6. Mounts(d)
  <2>1. \A i \in DOMAIN d : d[i] = Entry(p.k, p.v) \/ (i \in DOMAIN h.doc /\ d[i] = h.doc[i])
    <3>1. CASE HasEntry(h.doc, p.k)
      BY <3>1 DEF upsertFstabEntry, ReplaceAllEntries
    <3>2. CASE ~HasEntry(h.doc, p.k)
      <4>1. Len(h.doc) \in Nat /\ DOMAIN h.doc = 1 .. Len(h.doc) /\ h.doc \in Seq(Line) /\ Entry(p.k, p.v) \in Line
        BY <1>1, <1>2, SeqShape, EntryLine DEF Text
      <4>2. d = Append(h.doc, Entry(p.k, p.v))
        BY <3>2 DEF upsertFstabEntry
      <4> HIDE DEF d
      <4>3. /\ d \in Seq(Line) /\ Len(d) = Len(h.doc) + 1 /\ d[Len(h.doc) + 1] = Entry(p.k, p.v)
            /\ \A i \in 1 .. Len(h.doc) : d[i] = h.doc[i]
        BY <4>1, <4>2, AppendProperties
      <4>4. DOMAIN d = 1 .. Len(h.doc) + 1
        BY <4>3, SeqShape
      <4>5. QED
        BY <4>1, <4>3, <4>4
    <3>3. QED
      BY <3>1, <3>2
  <2> HIDE DEF d
  <2>2. Entry(p.k, p.v).v # "swap" /\ Entry(p.k, p.v).t # "disabled"
    BY <1>2 DEF Entry
  <2>3. QED
    BY <1>1, <2>1, <2>2 DEF Mounts
<1> HIDE DEF d, w
<1>7. FstabRead(w, p) = p
  BY <1>2, <1>3, <1>4, EntryLine DEF FstabRead, findFstabEntry
<1>8. FstabFile(w) /\ DocOnly(h, w, p.k) /\ DocOnly(h, h, p.k)
  BY <1>1, <1>3, <1>4, <1>6 DEF FstabFile, DocOnly
<1>9. QED
  BY <1>4, <1>5, <1>6, <1>7, <1>8, FstabCut DEF IsState

\* An fstab entry is created as it is applied, unless one is there already.
LEMMA FstabCreated ==
    ASSUME NEW h, FstabFile(h), NEW p, FstabState(p), NEW o \in FstabCreate(h, p)
    PROVE  /\ FstabFile(o.h) /\ (DocOnly(h, o.h, p.k) \/ Cut(h, o)) /\ o.h.live = h.live
           /\ IsState(o.out) => o.out = p /\ FstabRead(o.h, p) = p
<1>1. o \in applyFstabEntry(h, p) \/ (o.h = h /\ ~IsState(o.out))
  BY RefuseOutcome DEF FstabCreate, IsState
<1>2. QED
  BY <1>1, FstabApplied DEF DocOnly

\* A deleted fstab entry is not read again; the lines of the others stay, and the swap areas too.
LEMMA FstabDeleted ==
    ASSUME NEW h, FstabFile(h), NEW s, NEW o \in FstabDelete(h, s)
    PROVE  /\ FstabFile(o.h) /\ (DocOnly(h, o.h, s.k) \/ Cut(h, o)) /\ o.h.live = h.live
           /\ o.out = Failed \/ FstabRead(o.h, s) = Nil
<1> DEFINE d == DropEntries(h.doc, s.k)
           w == [h EXCEPT !.doc = d]
<1>1. \/ o.h \in {h, w} /\ o.out = Failed
      \/ o.h = w /\ o.out = Nil
      \/ CutShort(h, o, d)
  BY Dropped, LinesWritten DEF FstabDelete, deleteFstabEntry, FstabFile
<1>2. w = [doc |-> d, live |-> h.live, mount |-> h.mount] /\ h.doc \in Text /\ Mounts(h.doc)
  BY DEF FstabFile
<1>3. Mounts(d)
  <2> DEFINE S == DOMAIN h.doc \ Positions(h.doc, s.k)
  <2>1. Finite(S) /\ S \subseteq DOMAIN h.doc /\ d = At(h.doc, S)
    BY <1>2, PartFinite DEF Text, DropEntries
  <2> HIDE DEF S, d
  <2>2. \A n \in DOMAIN d : \E i \in DOMAIN h.doc : d[n] = h.doc[i]
    BY <2>1, AtElements
  <2>3. QED
    BY <1>2, <2>2 DEF Mounts
<1> HIDE DEF w
<1>4. FstabFile(w) /\ DocOnly(h, w, s.k) /\ FstabRead(w, s) = Nil
  BY <1>2, <1>3, Dropped DEF FstabFile, DocOnly, FstabRead, findFstabEntry
<1> HIDE DEF d
<1>5. QED
  BY <1>1, <1>2, <1>3, <1>4, FstabCut DEF DocOnly

\* A refresh reports an entry of the mount point, and would report it again.
LEMMA FstabReads ==
    ASSUME NEW h, FstabFile(h), NEW s, s.k \in MountPoint, FstabRead(h, s) # Nil
    PROVE  /\ FstabState(FstabRead(h, s)) /\ FstabRead(h, s).k = s.k
           /\ FstabRead(h, FstabRead(h, s)) = FstabRead(h, s)
<1> DEFINE v == FirstEntry(h.doc, s.k).v
           x == [k |-> s.k, v |-> v]
<1>1. HasEntry(h.doc, s.k) /\ FstabRead(h, s) = x /\ \A y : y.k = s.k => FstabRead(h, y) = x
  BY DEF FstabRead, findFstabEntry
<1>2. PICK i \in Positions(h.doc, s.k) : v = h.doc[i].v /\ h.doc[i] \in Line
  BY <1>1, FirstIsEntry DEF FstabFile
<1>3. v \in Word
  BY <1>2, LineParts
<1>4. v # "swap"
  BY <1>2 DEF FstabFile, Mounts, Positions, IsEntry
<1> HIDE DEF v
<1>5. x.k = s.k /\ FstabState(x)
  BY <1>3, <1>4 DEF FstabState
<1>6. QED
  BY <1>1, <1>5

\* An entry for a mount point changes nothing of what is read of the swap areas.
LEMMA SwapReadOther ==
    ASSUME NEW h, FstabFile(h), NEW x, FstabFile(x), NEW k \in MountPoint, DocOnly(h, x, k), x.live = h.live, NEW s
    PROVE  SwapRead(x, s) = SwapRead(h, s)
<1>1. hasEnabledSwapEntries(x.doc) <=> hasEnabledSwapEntries(h.doc)
  <2>1. Rest(x.doc, {<<k>>}) = Rest(h.doc, {<<k>>})
    BY DEF DocOnly
  <2>2. QED
    BY <2>1, SwapOfRest DEF FstabFile
<1>2. QED
  BY <1>1 DEF SwapRead, readSwapEnabledState

\* Between two files only swap lines are enabled or disabled.
SwapOnly(doc, new) ==
    /\ new \in Text /\ DOMAIN new = DOMAIN doc
    /\ restoreManagedSwapEntries(new) = restoreManagedSwapEntries(doc)
    /\ \A i \in DOMAIN doc : new[i].k = doc[i].k /\ new[i].v = doc[i].v /\ (doc[i].k \in MountPoint => new[i] = doc[i])

\* Disabling comments out the swap lines, all of them and nothing else.
LEMMA SwapDisabled ==
    ASSUME NEW doc \in Text, Mounts(doc)
    PROVE  SwapOnly(doc, disableSwapEntries(doc)) /\ ~hasEnabledSwapEntries(disableSwapEntries(doc))
<1> DEFINE new == disableSwapEntries(doc)
           old == [i \in DOMAIN doc |-> doc[i]]
<1>1. \A i \in DOMAIN doc : doc[i] \in Line /\ doc[i] = [t |-> doc[i].t, k |-> doc[i].k, v |-> doc[i].v]
  BY SeqShape, LineParts DEF Text
<1>2. /\ new = [i \in DOMAIN doc |-> new[i]]
      /\ \A i \in DOMAIN doc : new[i] = IF IsSwap(doc[i]) THEN [t |-> "disabled", k |-> doc[i].k, v |-> doc[i].v] ELSE doc[i]
  BY <1>1 DEF disableSwapEntries
<1> HIDE DEF new
<1>3. \A i \in DOMAIN doc : new[i] \in Line
  <2>1. "disabled" \in Word /\ "entry" \in Word
    BY DEF Word
  <2>2. QED
    BY <1>1, <1>2, <2>1, LineParts, LineMade
<1>4. doc \in Seq(Line)
  BY DEF Text
<1>5. new \in Seq(Line) /\ DOMAIN new = DOMAIN doc
  BY ONLY <1>2, <1>3, <1>4, OnPositions
<1>6. \A i \in DOMAIN doc : (IF new[i].t = "disabled" THEN [new[i] EXCEPT !.t = "entry"] ELSE new[i])
                            = (IF doc[i].t = "disabled" THEN [doc[i] EXCEPT !.t = "entry"] ELSE doc[i])
  BY <1>1, <1>2 DEF IsSwap
<1>7. restoreManagedSwapEntries(new) = restoreManagedSwapEntries(doc)
  BY <1>5, <1>6 DEF restoreManagedSwapEntries
<1>8. \A i \in DOMAIN doc : new[i].k = doc[i].k /\ new[i].v = doc[i].v /\ (doc[i].k \in MountPoint => new[i] = doc[i])
  BY <1>2 DEF Mounts, IsSwap
<1>9. ~hasEnabledSwapEntries(new)
  BY <1>2, <1>5 DEF hasEnabledSwapEntries, IsSwap
<1>10. QED
  BY <1>5, <1>7, <1>8, <1>9 DEF SwapOnly, Text, new

\* Enabling brings back the swap lines the provider commented out, and changes nothing else.
LEMMA SwapRestored ==
    ASSUME NEW doc \in Text, Mounts(doc)
    PROVE  SwapOnly(doc, restoreManagedSwapEntries(doc))
<1> DEFINE new == restoreManagedSwapEntries(doc)
<1>1. \A i \in DOMAIN doc : doc[i] \in Line /\ doc[i] = [t |-> doc[i].t, k |-> doc[i].k, v |-> doc[i].v]
  BY SeqShape, LineParts DEF Text
<1>2. /\ new = [i \in DOMAIN doc |-> new[i]]
      /\ \A i \in DOMAIN doc : new[i] = IF doc[i].t = "disabled" THEN [t |-> "entry", k |-> doc[i].k, v |-> doc[i].v] ELSE doc[i]
  BY <1>1 DEF restoreManagedSwapEntries
<1> HIDE DEF new
<1>3. \A i \in DOMAIN doc : new[i] \in Line
  <2>1. "disabled" \in Word /\ "entry" \in Word
    BY DEF Word
  <2>2. QED
    BY <1>1, <1>2, <2>1, LineParts, LineMade
<1>4. doc \in Seq(Line)
  BY DEF Text
<1>5. new \in Seq(Line) /\ DOMAIN new = DOMAIN doc
  BY ONLY <1>2, <1>3, <1>4, OnPositions
<1>6. \A i \in DOMAIN doc : (IF new[i].t = "disabled" THEN [new[i] EXCEPT !.t = "entry"] ELSE new[i])
                            = (IF doc[i].t = "disabled" THEN [doc[i] EXCEPT !.t = "entry"] ELSE doc[i])
  BY <1>1, <1>2
<1>7. restoreManagedSwapEntries(new) = restoreManagedSwapEntries(doc)
  BY <1>5, <1>6 DEF restoreManagedSwapEntries
<1>8. \A i \in DOMAIN doc : new[i].k = doc[i].k /\ new[i].v = doc[i].v /\ (doc[i].k \in MountPoint => new[i] = doc[i])
  BY <1>2 DEF Mounts
<1>9. QED
  BY <1>5, <1>7, <1>8 DEF SwapOnly, Text, new

\* What a mount point's refresh reports does not depend on the swap lines.
LEMMA FstabReadOther ==
    ASSUME NEW h, FstabFile(h), NEW x, SwapOnly(h.doc, x.doc), NEW s, s.k \in MountPoint
    PROVE  FstabRead(x, s) = FstabRead(h, s)
<1>1. DOMAIN x.doc = DOMAIN h.doc
      /\ \A i \in DOMAIN h.doc : x.doc[i].k = h.doc[i].k /\ (h.doc[i].k \in MountPoint => x.doc[i] = h.doc[i])
  BY DEF SwapOnly
<1>2. Positions(x.doc, s.k) = Positions(h.doc, s.k)
  BY <1>1 DEF Positions, IsEntry
<1>3. HasEntry(h.doc, s.k) => FirstEntry(x.doc, s.k) = FirstEntry(h.doc, s.k)
  <2>1. SUFFICES ASSUME HasEntry(h.doc, s.k) PROVE FirstEntry(x.doc, s.k) = FirstEntry(h.doc, s.k)
    OBVIOUS
  <2>2. PICK i \in Positions(h.doc, s.k) : FirstEntry(h.doc, s.k) = h.doc[i] /\ \A j \in Positions(h.doc, s.k) : i <= j
    BY <2>1, FirstIsEntry DEF FstabFile
  <2> DEFINE P == Positions(h.doc, s.k)
             m == CHOOSE k \in P : \A j \in P : k <= j
  <2>3. Finite(P) /\ P # {} /\ P \subseteq DOMAIN h.doc /\ \A k \in P : h.doc[k].k = s.k
    BY <2>1, OthersFinite DEF FstabFile, HasEntry, Positions, IsEntry
  <2>4. FirstEntry(x.doc, s.k) = x.doc[m] /\ FirstEntry(h.doc, s.k) = h.doc[m]
    BY <1>2 DEF FirstEntry
  <2> HIDE DEF P
  <2>5. m \in P
    BY <2>3, Least
  <2> HIDE DEF m
  <2>6. QED
    BY <1>1, <2>3, <2>4, <2>5
<1>4. QED
  BY <1>2, <1>3 DEF FstabRead, findFstabEntry, HasEntry

\* What an operation of the swap switch leaves that is not cut short.
SwapLeaves(h, x) == FstabFile(x) /\ SwapOnly(h.doc, x.doc)

\* A file in which only swap lines changed is an fstab again, whether the areas are on or off.
LEMMA SwapFile ==
    ASSUME NEW h, FstabFile(h), NEW doc, SwapOnly(h.doc, doc), NEW live \in {"on", "off"}
    PROVE  SwapLeaves(h, [doc |-> doc, live |-> live, mount |-> h.mount]) /\ Mounts(doc)
<1>1. Mounts(doc)
  BY DEF SwapOnly, FstabFile, Mounts
<1>2. QED
  BY <1>1 DEF SwapLeaves, FstabFile, SwapOnly

\* A host that is left as it was has no other line changed.
LEMMA SwapStays ==
    ASSUME NEW h, FstabFile(h)
    PROVE  SwapLeaves(h, h)
  BY DEF SwapLeaves, SwapOnly, FstabFile

\* Switching off, wherever it stops, changes swap lines only; done, the areas are off and no line is enabled.
LEMMA SwapSwitchedOff ==
    ASSUME NEW h, FstabFile(h), NEW out, NEW o \in disableManagedSwap(h, out)
    PROVE  /\ FstabFile(o.h) /\ (SwapLeaves(h, o.h) \/ Cut(h, o))
           /\ o.out = Failed \/ (o.out = out /\ o.h.live = "off" /\ readSwapEnabledState(o.h) = [enabled |-> "off"])
<1> DEFINE d == disableSwapEntries(h.doc)
           w == [h EXCEPT !.doc = disableSwapEntries(@)]
           x == [w EXCEPT !.live = "off"]
<1>1. /\ h = [doc |-> h.doc, live |-> h.live, mount |-> h.mount]
      /\ h.live \in {"on", "off"} /\ h.doc \in Text /\ Mounts(h.doc)
  BY DEF FstabFile
<1>2. /\ w = [doc |-> d, live |-> h.live, mount |-> h.mount]
      /\ x = [doc |-> d, live |-> "off", mount |-> h.mount]
  <2>1. w = [doc |-> d, live |-> h.live, mount |-> h.mount]
    BY <1>1
  <2> HIDE DEF w, d
  <2>2. QED
    BY <2>1
<1>3. SwapOnly(h.doc, d) /\ ~hasEnabledSwapEntries(d)
  BY <1>1, SwapDisabled
<1>4. (o.h \in {h, w, x} /\ o.out = Failed) \/ (o.h = x /\ o.out = out) \/ CutShort(h, o, d)
  <2>1. o \in Change(<<h, w, x>>, out) \/ o \in writeFstabEntries(h, w.doc)
    BY Zenon DEF disableManagedSwap
  <2>2. w.doc = d
    BY <1>2
  <2> HIDE DEF w, x, d
  <2>3. o \in Change(<<h, w, x>>, out) => (o.h \in {h, w, x} /\ o.out = Failed) \/ (o.h = x /\ o.out = out)
    BY ChangeOfThree
  <2>4. o \in writeFstabEntries(h, d) => CutShort(h, o, d)
    BY <1>3, LinesTorn DEF writeFstabEntries, SwapOnly
  <2>5. QED
    BY <2>1, <2>2, <2>3, <2>4
<1> HIDE DEF d, w, x
<1>5. SwapLeaves(h, w) /\ SwapLeaves(h, x) /\ SwapLeaves(h, h) /\ Mounts(d)
  BY <1>1, <1>2, <1>3, SwapFile, SwapStays
<1>6. x.live = "off" /\ readSwapEnabledState(x) = [enabled |-> "off"]
  BY <1>2, <1>3 DEF readSwapEnabledState
<1>7. QED
  BY <1>4, <1>5, <1>6, FstabCut DEF SwapLeaves

\* Switching on, wherever it stops, changes swap lines only; done, as a plan asks it, it is read as on.
LEMMA SwapSwitchedOn ==
    ASSUME NEW h, FstabFile(h), NEW strict \in BOOLEAN, NEW out, NEW o \in enableManagedSwap(h, strict, out)
    PROVE  /\ FstabFile(o.h) /\ (SwapLeaves(h, o.h) \/ Cut(h, o))
           /\ o.out \in {Failed, Refused} \/ (o.out = out /\ (strict => readSwapEnabledState(o.h) = [enabled |-> "on"]))
<1> DEFINE d == restoreManagedSwapEntries(h.doc)
           swapon == d # h.doc \/ (h.live = "off" /\ hasEnabledSwapEntries(d))
           live == IF swapon THEN "on" ELSE h.live
           w == [h EXCEPT !.doc = d]
           x == [w EXCEPT !.live = IF swapon THEN "on" ELSE @]
<1>1. /\ h = [doc |-> h.doc, live |-> h.live, mount |-> h.mount]
      /\ h.live \in {"on", "off"} /\ h.doc \in Text /\ Mounts(h.doc)
  BY DEF FstabFile
<1>2. /\ w = [doc |-> d, live |-> h.live, mount |-> h.mount]
      /\ x = [doc |-> d, live |-> live, mount |-> h.mount]
  <2>1. w = [doc |-> d, live |-> h.live, mount |-> h.mount]
    BY <1>1
  <2> HIDE DEF w, d, swapon
  <2>2. QED
    BY <2>1
<1>3. SwapOnly(h.doc, d)
  BY <1>1, SwapRestored
<1>4. \/ o.h = h /\ o.out \in {Refused, Failed}
      \/ o.h \in {w, x} /\ o.out = Failed
      \/ o.h = x /\ o.out = out /\ (strict => h.live = "on" \/ hasEnabledSwapEntries(d))
      \/ CutShort(h, o, d)
  <2> DEFINE nothing == h.live = "off" /\ ~hasEnabledSwapEntries(d) /\ strict
  <2>1. o \in IF nothing THEN Refuse(h) ELSE Change(<<h, w, x>>, out) \cup writeFstabEntries(h, d)
    BY Zenon DEF enableManagedSwap
  <2>2. ~nothing /\ strict => h.live = "on" \/ hasEnabledSwapEntries(d)
    BY <1>1
  <2> HIDE DEF w, x, d, nothing
  <2>3. o \in Change(<<h, w, x>>, out) => (o.h \in {h, w, x} /\ o.out = Failed) \/ (o.h = x /\ o.out = out)
    BY ChangeOfThree
  <2>4. o \in writeFstabEntries(h, d) => CutShort(h, o, d)
    BY <1>3, LinesTorn DEF writeFstabEntries, SwapOnly
  <2>5. CASE nothing
    BY <2>1, <2>5, RefuseOutcome
  <2>6. CASE ~nothing
    BY <2>1, <2>2, <2>3, <2>4, <2>6
  <2>7. QED
    BY <2>5, <2>6
<1>5. h.live = "on" \/ hasEnabledSwapEntries(d) => live = "on"
  BY <1>1
<1>6. live \in {"on", "off"}
  BY <1>1
<1> HIDE DEF d, w, x, swapon, live
<1>7. SwapLeaves(h, w) /\ SwapLeaves(h, x) /\ SwapLeaves(h, h) /\ Mounts(d)
  BY <1>1, <1>2, <1>3, <1>6, SwapFile, SwapStays
<1>8. live = "on" => readSwapEnabledState(x) = [enabled |-> "on"]
  BY <1>2 DEF readSwapEnabledState
<1>9. QED
  BY <1>4, <1>5, <1>7, <1>8, FstabCut DEF SwapLeaves

\* A swap plan that is reported is what is read, and off is off in the kernel too.
LEMMA SwapApplied ==
    ASSUME NEW h, FstabFile(h), NEW p, SwapState(p), NEW o \in applySwap(h, p)
    PROVE  /\ FstabFile(o.h) /\ (SwapLeaves(h, o.h) \/ Cut(h, o))
           /\ IsState(o.out) => o.out = p /\ SwapRead(o.h, p) = p /\ (p.enabled = "off" => o.h.live = "off")
<1>1. CASE p.enabled = "on"
  <2>1. o \in enableManagedSwap(h, TRUE, p)
    BY <1>1 DEF applySwap
  <2>2. /\ FstabFile(o.h) /\ (SwapLeaves(h, o.h) \/ Cut(h, o))
        /\ o.out \in {Failed, Refused} \/ (o.out = p /\ readSwapEnabledState(o.h) = [enabled |-> "on"])
    BY <2>1, SwapSwitchedOn, ZenonT(60)
  <2>3. p = [enabled |-> "on"]
    BY <1>1 DEF SwapState
  <2>4. QED
    BY <2>2, <2>3 DEF IsState, SwapRead
<1>2. CASE p.enabled = "off"
  <2>1. o \in disableManagedSwap(h, p)
    BY <1>2 DEF applySwap
  <2>2. QED
    BY <1>2, <2>1, SwapSwitchedOff DEF IsState, SwapRead, SwapState
<1>3. QED
  BY <1>1, <1>2 DEF SwapState

\* Deleting a swap resource switches on again, as far as it goes, and changes swap lines only.
LEMMA SwapDeleted ==
    ASSUME NEW h, FstabFile(h), NEW s, NEW o \in SwapDelete(h, s)
    PROVE  FstabFile(o.h) /\ (SwapLeaves(h, o.h) \/ Cut(h, o))
<1>1. CASE s.enabled = "on"
  <2>1. o.h = h
    BY <1>1, AnswerOutcome DEF SwapDelete
  <2>2. QED
    BY <2>1, SwapStays
<1>2. CASE s.enabled # "on"
  BY <1>2, SwapSwitchedOn DEF SwapDelete
<1>3. QED
  BY <1>1, <1>2

\* What is read of the swap areas does not depend on the state it is read for.
LEMMA SwapReads ==
    ASSUME NEW h, NEW s
    PROVE  SwapState(SwapRead(h, s)) /\ \A x : SwapRead(h, x) = SwapRead(h, s)
  BY DEF SwapState, SwapRead, readSwapEnabledState

-----------------------------------------------------------------------------
(* Insertion. *)

\* A sequence with one element more: the others keep their order.
LEMMA Inserted ==
    ASSUME NEW X, NEW s \in Seq(X), NEW i \in 1 .. Len(s) + 1, NEW e \in X
    PROVE  /\ InsertAt(s, i, e) \in Seq(X) /\ Len(InsertAt(s, i, e)) = Len(s) + 1
           /\ InsertAt(s, i, e)[i] = e
           /\ \A j \in 1 .. i - 1 : InsertAt(s, i, e)[j] = s[j]
           /\ \A j \in i .. Len(s) : InsertAt(s, i, e)[j + 1] = s[j]
<1> DEFINE a == SubSeq(s, 1, i - 1)
           b == SubSeq(s, i, Len(s))
<1>1. Len(s) \in Nat /\ i \in Nat /\ 1 <= i /\ i <= Len(s) + 1 /\ \A j \in 1 .. Len(s) : s[j] \in X
  BY SeqShape
<1>2. a \in Seq(X) /\ Len(a) = i - 1 /\ \A j \in 1 .. i - 1 : a[j] = s[j]
  BY <1>1, SubSeqProperties
<1>3. b \in Seq(X) /\ Len(b) = Len(s) - i + 1 /\ \A j \in 1 .. Len(s) - i + 1 : b[j] = s[i + j - 1]
  BY <1>1, SubSeqProperties
<1> DEFINE c == a \o <<e>>
           new == c \o b
<1>4. InsertAt(s, i, e) = new
  BY DEF InsertAt
<1>5. <<e>> \in Seq(X) /\ Len(<<e>>) = 1 /\ <<e>>[1] = e
  OBVIOUS
<1> HIDE DEF a, b
<1>6. /\ c \in Seq(X) /\ Len(c) = i
      /\ \A j \in 1 .. i : c[j] = IF j <= i - 1 THEN a[j] ELSE e
  BY <1>1, <1>2, <1>5, ConcatProperties
<1> HIDE DEF c
<1>7. /\ new \in Seq(X) /\ Len(new) = Len(s) + 1
      /\ \A j \in 1 .. Len(s) + 1 : new[j] = IF j <= i THEN c[j] ELSE b[j - i]
  BY <1>1, <1>3, <1>6, ConcatProperties
<1> HIDE DEF new
<1>8. new[i] = e
  BY <1>1, <1>6, <1>7
<1>9. \A j \in 1 .. i - 1 : new[j] = s[j]
  BY <1>1, <1>2, <1>6, <1>7
<1>10. \A j \in i .. Len(s) : new[j + 1] = s[j]
  <2>1. SUFFICES ASSUME NEW j \in i .. Len(s) PROVE new[j + 1] = s[j]
    OBVIOUS
  <2>2. j + 1 \in 1 .. Len(s) + 1 /\ ~(j + 1 <= i) /\ j + 1 - i \in 1 .. Len(s) - i + 1 /\ i + (j + 1 - i) - 1 = j
    BY <1>1
  <2>3. new[j + 1] = b[j + 1 - i]
    BY <1>7, <2>2
  <2>4. b[j + 1 - i] = s[i + (j + 1 - i) - 1]
    BY <1>3, <2>2
  <2>5. QED
    BY <2>2, <2>3, <2>4
<1>11. QED
  BY <1>4, <1>7, <1>8, <1>9, <1>10

-----------------------------------------------------------------------------
(* crontab_entry *)

TabsOfText(h) == \A u \in CronUser : h.tabs[u] \in Text

CronState(s) == s = [u |-> s.u, k |-> s.k, v |-> s.v] /\ s.u \in CronUser /\ s.k \in {"a", "b"} /\ s.v \in Word

\* The lines that are neither jobs nor markers of the objects ids.
CronOthers(lines, u, ids) ==
  {i \in DOMAIN lines : lines[i].t # "job" /\ ~(lines[i].t = "marker" /\ <<u, lines[i].k>> \in ids)}
CronRest(lines, u, ids) == At(lines, CronOthers(lines, u, ids))

\* The jobs, and those that are not under a marker of ids.
Jobs(lines) == {i \in DOMAIN lines : lines[i].t = "job"}
OwnJobs(lines, u, ids) ==
  {j \in Jobs(lines) : j > 1 => ~(lines[j - 1].t = "marker" /\ <<u, lines[j - 1].k>> \in ids)}

\* The only block named n has the job v.
HoldsJob(lines, n, v) ==
  \E i \in DOMAIN lines : Markers(lines, n) = {i} /\ i + 1 \in DOMAIN lines /\ lines[i + 1].t = "job" /\ lines[i + 1].v = v

\* From a to b only blocks named k of the user u change.
BlockOnly(a, b, u, k) ==
    /\ b \in Text
    /\ \A ids : <<u, k>> \in ids =>
         CronRest(b, u, ids) = CronRest(a, u, ids) /\ Cardinality(OwnJobs(a, u, ids)) <= Cardinality(Jobs(b))
    /\ \A n, v : n # k /\ HoldsJob(a, n, v) => HoldsJob(b, n, v)

\* Lines of a crontab can be counted.
LEMMA JobsFinite ==
    ASSUME NEW lines \in Text, NEW S, S \subseteq DOMAIN lines
    PROVE  IsFiniteSet(S) /\ Cardinality(S) \in Nat
  BY PartFinite, Ranks DEF Text, Finite

\* The marker of a block.
IsMarker(line, k) == line.t = "marker" /\ line.k = k

\* A marker line of the pack.
LEMMA MarkerParts ==
    ASSUME NEW line, NEW n, line = Marker(n)
    PROVE  line.t = "marker" /\ line.k = n /\ line.v = "" /\ IsMarker(line, n)
  BY DEF Marker, IsMarker

\* The lines of a but those of D are the lines of b but those of E, in their order; D
\* and E hold lines of blocks named k, and E none between another marker and what follows it.
BlockMoves(a, b, D, E, f, k) ==
    /\ D \subseteq DOMAIN a /\ E \subseteq DOMAIN b
    /\ f \in [DOMAIN a \ D -> DOMAIN b \ E]
    /\ \A i, j \in DOMAIN a \ D : i < j => f[i] < f[j]
    /\ \A m \in DOMAIN b \ E : \E i \in DOMAIN a \ D : f[i] = m
    /\ \A i \in DOMAIN a \ D : b[f[i]] = a[i]
    /\ \A i \in D : IsMarker(a[i], k) \/ (a[i].t = "job" /\ i > 1 /\ IsMarker(a[i - 1], k))
    /\ \A m \in E : IsMarker(b[m], k) \/ b[m].t = "job"
    /\ \A i \in DOMAIN a \ D : a[i].t = "marker" /\ a[i].k # k /\ i + 1 \in DOMAIN a => f[i] + 1 \notin E

\* That changes only the block, and takes no job unless the block goes.
LEMMA BlockStep ==
    ASSUME NEW a \in Text, NEW b \in Text, NEW u, NEW k, NEW D, NEW E, NEW f, BlockMoves(a, b, D, E, f, k)
    PROVE  /\ BlockOnly(a, b, u, k)
           /\ D = {} => Cardinality(Jobs(a)) <= Cardinality(Jobs(b))
<1>0. /\ D \subseteq DOMAIN a /\ E \subseteq DOMAIN b
      /\ f \in [DOMAIN a \ D -> DOMAIN b \ E]
      /\ \A i, j \in DOMAIN a \ D : i < j => f[i] < f[j]
      /\ \A m \in DOMAIN b \ E : \E i \in DOMAIN a \ D : f[i] = m
      /\ \A i \in DOMAIN a \ D : b[f[i]] = a[i]
      /\ \A i \in D : IsMarker(a[i], k) \/ (a[i].t = "job" /\ i > 1 /\ IsMarker(a[i - 1], k))
      /\ \A m \in E : IsMarker(b[m], k) \/ b[m].t = "job"
      /\ \A i \in DOMAIN a \ D : a[i].t = "marker" /\ a[i].k # k /\ i + 1 \in DOMAIN a => f[i] + 1 \notin E
  BY DEF BlockMoves
<1> USE <1>0
<1> DEFINE A == DOMAIN a \ D
           B == DOMAIN b \ E
<1>1. /\ DOMAIN a \subseteq Nat /\ DOMAIN b \subseteq Nat
      /\ \A S : S \subseteq DOMAIN a => Finite(S)
      /\ \A S : S \subseteq DOMAIN b => Finite(S)
  BY PartFinite, SeqShape DEF Text, Finite
<1>2. ASSUME NEW ids, <<u, k>> \in ids PROVE CronRest(b, u, ids) = CronRest(a, u, ids)
  <2> DEFINE S == CronOthers(a, u, ids)
             T == CronOthers(b, u, ids)
             g == [i \in S |-> f[i]]
  <2>1. S \subseteq A /\ T \subseteq B
    BY <1>2 DEF CronOthers, IsMarker
  <2>2. \A i \in S : f[i] \in T
    BY <2>1 DEF CronOthers
  <2>3. g \in [S -> T]
    BY <2>2
  <2>4. \A m \in T : \E i \in S : g[i] = m
    <3>1. SUFFICES ASSUME NEW m \in T PROVE \E i \in S : g[i] = m
      OBVIOUS
    <3>2. PICK i \in A : f[i] = m
      BY <2>1
    <3>3. i \in S
      BY <3>2 DEF CronOthers
    <3>4. QED
      BY <3>2, <3>3
  <2>5. \A i, j \in S : i < j => g[i] < g[j]
    BY <2>1
  <2>6. \A i \in S : a[i] = b[g[i]]
    BY <2>1
  <2>7. Finite(S) /\ Finite(T)
    BY <1>1 DEF CronOthers
  <2> HIDE DEF S, T, g
  <2>8. At(a, S) = At(b, T)
    BY <2>3, <2>4, <2>5, <2>6, <2>7, AtIso
  <2>9. QED
    BY <2>8 DEF CronRest, S, T
<1>3. ASSUME NEW S, S \subseteq Jobs(a), S \cap D = {} PROVE Cardinality(S) <= Cardinality(Jobs(b))
  <2> DEFINE J == Jobs(b)
             g == [i \in S |-> f[i]]
  <2>1. S \subseteq A /\ S \subseteq DOMAIN a /\ J \subseteq DOMAIN b
    BY <1>3 DEF Jobs
  <2>2. \A i \in S : f[i] \in J
    BY <1>3, <2>1 DEF Jobs
  <2>3. g \in [S -> J]
    BY <2>2
  <2>4. \A i, j \in S : g[i] = g[j] => i = j
    <3>1. SUFFICES ASSUME NEW i \in S, NEW j \in S, f[i] = f[j] PROVE i = j
      BY <2>1
    <3>2. i \in Nat /\ j \in Nat /\ f[i] \in Nat /\ f[j] \in Nat
      BY <1>1, <2>1
    <3>3. ~(i < j) /\ ~(j < i)
      BY <2>1, <3>1, <3>2
    <3>4. QED
      BY <3>2, <3>3
  <2>5. IsFiniteSet(S) /\ IsFiniteSet(J)
    BY <1>1, <2>1 DEF Finite
  <2> HIDE DEF J, g
  <2>6. g \in Injection(S, J)
    BY <2>3, <2>4, Fun_IsInj
  <2>7. QED
    BY <2>5, <2>6, FS_Injection DEF J
<1>4. ASSUME NEW ids, <<u, k>> \in ids PROVE Cardinality(OwnJobs(a, u, ids)) <= Cardinality(Jobs(b))
  <2>1. OwnJobs(a, u, ids) \subseteq Jobs(a) /\ OwnJobs(a, u, ids) \cap D = {}
    BY <1>4 DEF OwnJobs, Jobs, IsMarker
  <2>2. QED
    BY <1>3, <2>1
<1>5. ASSUME NEW n, NEW v, n # k, HoldsJob(a, n, v) PROVE HoldsJob(b, n, v)
  <2>1. PICK i \in DOMAIN a : Markers(a, n) = {i} /\ i + 1 \in DOMAIN a /\ a[i + 1].t = "job" /\ a[i + 1].v = v
    BY <1>5 DEF HoldsJob
  <2>2. a[i] = Marker(n) /\ \A j \in DOMAIN a : a[j] = Marker(n) => j = i
    BY <2>1 DEF Markers
  <2>3. a[i].t = "marker" /\ a[i].k = n
    <3> DEFINE x == a[i]
    <3>1. x = Marker(n)
      BY <2>2
    <3> HIDE DEF x
    <3>2. x.t = "marker" /\ x.k = n
      BY <3>1, MarkerParts
    <3>3. QED
      BY <3>2 DEF x
  <2>4. i \in A /\ i + 1 \in A /\ i \in Nat
    <3>1. i \in Nat /\ (i + 1) - 1 = i
      BY <1>1
    <3>2. ~IsMarker(a[i + 1], k) /\ ~IsMarker(a[i], k)
      BY <1>5, <2>1, <2>3 DEF IsMarker
    <3>3. a[i].t # "job"
      BY <2>3
    <3>4. i \notin D
      BY <3>2, <3>3
    <3>5. i + 1 \notin D
      BY <3>1, <3>2
    <3>6. QED
      BY <2>1, <3>1, <3>4, <3>5
  <2>5. f[i] \in B /\ f[i + 1] \in B /\ f[i] < f[i + 1] /\ f[i] \in Nat /\ f[i + 1] \in Nat
    BY <1>1, <2>4
  <2>6. f[i] + 1 \in B
    <3>1. f[i] + 1 \notin E
      BY <1>5, <2>1, <2>3, <2>4
    <3>2. f[i] + 1 \in DOMAIN b
      <4>1. DOMAIN b = 1 .. Len(b) /\ Len(b) \in Nat
        BY SeqShape DEF Text
      <4>2. f[i + 1] <= Len(b)
        BY <2>5, <4>1
      <4> DEFINE x == f[i]
                 y == f[i + 1]
      <4>3. x \in Nat /\ y \in Nat /\ x < y /\ y <= Len(b)
        BY <2>5, <4>2
      <4> HIDE DEF x, y
      <4>4. x + 1 \in 1 .. Len(b)
        BY <4>1, <4>3
      <4>5. QED
        BY <4>1, <4>4 DEF x
    <3>3. QED
      BY <3>1, <3>2
  <2>7. f[i + 1] = f[i] + 1
    <3>1. PICK j \in A : f[j] = f[i] + 1
      BY <2>6
    <3>2. j \in Nat
      BY <1>1
    <3>3. ~(j < i) /\ j # i
      BY <2>4, <2>5, <3>1, <3>2
    <3>4. j = i + 1 \/ i + 1 < j
      BY <2>4, <3>2, <3>3
    <3>5. i + 1 < j => f[i + 1] < f[j]
      BY <2>4
    <3>6. QED
      BY <2>5, <3>1, <3>4, <3>5
  <2>8. b[f[i]] = Marker(n) /\ b[f[i] + 1].t = "job" /\ b[f[i] + 1].v = v
    BY <2>1, <2>2, <2>4, <2>7
  <2>9. \A m \in DOMAIN b : b[m] = Marker(n) => m = f[i]
    <3>1. SUFFICES ASSUME NEW m \in DOMAIN b, b[m] = Marker(n) PROVE m = f[i]
      OBVIOUS
    <3>2. b[m].t = "marker" /\ b[m].k = n
      <4> DEFINE x == b[m]
      <4>1. x = Marker(n)
        BY <3>1
      <4> HIDE DEF x
      <4>2. x.t = "marker" /\ x.k = n
        BY <4>1, MarkerParts
      <4>3. QED
        BY <4>2 DEF x
    <3>3. m \in B
      BY <1>5, <3>2 DEF IsMarker
    <3>4. PICK j \in A : f[j] = m
      BY <3>3
    <3>5. a[j] = Marker(n)
      BY <3>1, <3>4
    <3>6. QED
      BY <2>2, <3>4, <3>5
  <2>10. Markers(b, n) = {f[i]}
    BY <2>5, <2>8, <2>9 DEF Markers
  <2>11. QED
    BY <2>5, <2>6, <2>8, <2>10 DEF HoldsJob
<1>6. D = {} => Cardinality(Jobs(a)) <= Cardinality(Jobs(b))
  BY <1>3
<1>7. QED
  BY <1>2, <1>4, <1>5, <1>6 DEF BlockOnly

\* The lines the pack writes for an entry.
LEMMA CronLines ==
    ASSUME NEW k \in {"a", "b"}, NEW v \in Word
    PROVE  /\ Marker(k) \in Line /\ Job(v) \in Line
           /\ Job(v).t = "job" /\ Job(v).v = v /\ Job(v) # Marker(k)
<1>1. "marker" \in Word /\ "job" \in Word /\ "" \in Word /\ k \in Word
  BY DEF Word
<1>2. Marker(k) \in Line /\ Job(v) \in Line
  BY <1>1, LineMade DEF Marker, Job
<1>3. Job(v).t = "job" /\ Job(v).v = v
  BY DEF Job
<1>4. Marker(k).t = "marker"
  BY MarkerParts
<1>5. QED
  BY <1>2, <1>3, <1>4

\* A line is inserted.
LEMMA LineInserted ==
    ASSUME NEW a \in Text, NEW m \in 1 .. Len(a) + 1, NEW line \in Line
    PROVE  /\ Len(a) \in Nat /\ DOMAIN a = 1 .. Len(a) /\ m \in Nat
           /\ InsertAt(a, m, line) \in Text /\ DOMAIN InsertAt(a, m, line) = 1 .. Len(a) + 1
           /\ InsertAt(a, m, line)[m] = line
           /\ \A j \in 1 .. m - 1 : InsertAt(a, m, line)[j] = a[j]
           /\ \A j \in m .. Len(a) : InsertAt(a, m, line)[j + 1] = a[j]
<1>1. a \in Seq(Line)
  BY DEF Text
<1>2. Len(a) \in Nat /\ DOMAIN a = 1 .. Len(a)
  BY <1>1, SeqShape
<1>3. InsertAt(a, m, line) \in Seq(Line)
  BY <1>1, Inserted
<1>4. Len(InsertAt(a, m, line)) = Len(a) + 1
  BY <1>1, Inserted
<1>5. InsertAt(a, m, line)[m] = line
  BY <1>1, Inserted
<1>6. \A j \in 1 .. m - 1 : InsertAt(a, m, line)[j] = a[j]
  BY <1>1, Inserted
<1>7. \A j \in m .. Len(a) : InsertAt(a, m, line)[j + 1] = a[j]
  BY <1>1, Inserted
<1>8. DOMAIN InsertAt(a, m, line) = 1 .. Len(InsertAt(a, m, line))
  BY <1>3, SeqShape
<1>9. QED
  BY <1>2, <1>3, <1>4, <1>5, <1>6, <1>7, <1>8 DEF Text

\* A line of a block is inserted.
LEMMA BlockInserted ==
    ASSUME NEW a \in Text, NEW m \in 1 .. Len(a) + 1, NEW line \in Line, NEW u, NEW k,
           IsMarker(line, k) \/ line.t = "job",
           \A i \in DOMAIN a : i + 1 = m /\ m \in DOMAIN a /\ a[i].t = "marker" => a[i].k = k
    PROVE  /\ BlockOnly(a, InsertAt(a, m, line), u, k)
           /\ Cardinality(Jobs(a)) <= Cardinality(Jobs(InsertAt(a, m, line)))
<1> DEFINE b == InsertAt(a, m, line)
           D == {}
           E == {m}
           f == [i \in DOMAIN a \ D |-> IF i < m THEN i ELSE i + 1]
<1>1. /\ Len(a) \in Nat /\ DOMAIN a = 1 .. Len(a) /\ m \in Nat
      /\ b \in Text /\ DOMAIN b = 1 .. Len(a) + 1
      /\ b[m] = line
      /\ \A j \in 1 .. m - 1 : b[j] = a[j]
      /\ \A j \in m .. Len(a) : b[j + 1] = a[j]
  BY LineInserted, ZenonT(40)
<1> HIDE DEF b
<1>2. f \in [DOMAIN a \ D -> DOMAIN b \ E]
  BY <1>1
<1>3. \A i, j \in DOMAIN a \ D : i < j => f[i] < f[j]
  BY <1>1
<1>4. \A n \in DOMAIN b \ E : \E i \in DOMAIN a \ D : f[i] = n
  <2>1. SUFFICES ASSUME NEW n \in DOMAIN b \ E PROVE \E i \in DOMAIN a \ D : f[i] = n
    OBVIOUS
  <2>2. CASE n < m
    <3>1. n \in DOMAIN a \ D /\ f[n] = n
      BY <1>1, <2>2
    <3>2. QED
      BY <3>1
  <2>3. CASE n > m
    <3>1. n - 1 \in DOMAIN a \ D /\ f[n - 1] = n
      BY <1>1, <2>3
    <3>2. QED
      BY <3>1
  <2>4. QED
    BY <1>1, <2>2, <2>3
<1>5. \A i \in DOMAIN a \ D : b[f[i]] = a[i]
  BY <1>1
<1>6. \A n \in E : IsMarker(b[n], k) \/ b[n].t = "job"
  BY <1>1
<1>7. \A i \in DOMAIN a \ D : a[i].t = "marker" /\ a[i].k # k /\ i + 1 \in DOMAIN a => f[i] + 1 \notin E
  <2>1. SUFFICES ASSUME NEW i \in DOMAIN a \ D, a[i].t = "marker", a[i].k # k, i + 1 \in DOMAIN a, f[i] + 1 = m PROVE FALSE
    OBVIOUS
  <2>2. i + 1 = m
    BY <1>1, <2>1
  <2>3. QED
    BY <2>1, <2>2
<1>8. /\ E \subseteq DOMAIN b /\ D \subseteq DOMAIN a /\ D = {}
      /\ \A i \in D : IsMarker(a[i], k) \/ (a[i].t = "job" /\ i > 1 /\ IsMarker(a[i - 1], k))
  BY <1>1
<1> HIDE DEF D, E, f
<1>9. BlockOnly(a, b, u, k) /\ (D = {} => Cardinality(Jobs(a)) <= Cardinality(Jobs(b)))
  <2>1. BlockMoves(a, b, D, E, f, k)
    BY <1>2, <1>3, <1>4, <1>5, <1>6, <1>7, <1>8 DEF BlockMoves
  <2>2. QED
    BY <1>1, <2>1, BlockStep
<1>10. QED
  BY <1>8, <1>9 DEF b

\* The lines of a sequence with two more.
LEMMA TwoMore ==
    ASSUME NEW X, NEW s \in Seq(X), NEW x \in X, NEW y \in X
    PROVE  /\ s \o <<x, y>> \in Seq(X) /\ Len(s \o <<x, y>>) = Len(s) + 2
           /\ \A i \in 1 .. Len(s) : (s \o <<x, y>>)[i] = s[i]
           /\ (s \o <<x, y>>)[Len(s) + 1] = x /\ (s \o <<x, y>>)[Len(s) + 2] = y
<1> DEFINE e == <<x, y>>
           new == s \o e
<1>1. e \in Seq(X) /\ Len(e) = 2 /\ e[1] = x /\ e[2] = y
  OBVIOUS
<1> HIDE DEF e
<1>2. Len(s) \in Nat
  BY SeqShape
<1>3. /\ new \in Seq(X) /\ Len(new) = Len(s) + 2
      /\ \A j \in 1 .. Len(s) + 2 : new[j] = IF j <= Len(s) THEN s[j] ELSE e[j - Len(s)]
  <2>1. /\ new \in Seq(X) /\ Len(new) = Len(s) + Len(e)
        /\ \A j \in 1 .. Len(s) + Len(e) : new[j] = IF j <= Len(s) THEN s[j] ELSE e[j - Len(s)]
    BY <1>1, ConcatProperties
  <2> HIDE DEF new
  <2>2. QED
    BY <1>1, <2>1
<1> HIDE DEF new
<1>4. new[Len(s) + 1] = x /\ new[Len(s) + 2] = y
  <2>1. Len(s) + 1 - Len(s) = 1 /\ Len(s) + 2 - Len(s) = 2 /\ ~(Len(s) + 1 <= Len(s)) /\ ~(Len(s) + 2 <= Len(s))
        /\ Len(s) + 1 \in 1 .. Len(s) + 2 /\ Len(s) + 2 \in 1 .. Len(s) + 2
    BY <1>2
  <2>2. new[Len(s) + 1] = e[Len(s) + 1 - Len(s)] /\ new[Len(s) + 2] = e[Len(s) + 2 - Len(s)]
    BY <1>3, <2>1
  <2>3. QED
    BY <1>1, <2>1, <2>2
<1>5. \A i \in 1 .. Len(s) : new[i] = s[i]
  BY <1>2, <1>3
<1>6. QED
  BY <1>3, <1>4, <1>5 DEF new, e

\* A block is appended.
LEMMA BlockAppended ==
    ASSUME NEW a \in Text, NEW u, NEW k \in {"a", "b"}, NEW v \in Word
    PROVE  /\ BlockOnly(a, a \o <<Marker(k), Job(v)>>, u, k)
           /\ Cardinality(Jobs(a)) <= Cardinality(Jobs(a \o <<Marker(k), Job(v)>>))
           /\ Markers(a, k) = {} => HoldsJob(a \o <<Marker(k), Job(v)>>, k, v)
<1> DEFINE b == a \o <<Marker(k), Job(v)>>
           n == Len(a)
           D == {}
           E == {n + 1, n + 2}
           f == [i \in DOMAIN a \ D |-> i]
<1>1. /\ n \in Nat /\ DOMAIN a = 1 .. n
      /\ b \in Text /\ Len(b) = n + 2 /\ DOMAIN b = 1 .. n + 2
      /\ b[n + 1] = Marker(k) /\ b[n + 2] = Job(v)
      /\ \A j \in 1 .. n : b[j] = a[j]
  <2>1. a \in Seq(Line) /\ n \in Nat /\ DOMAIN a = 1 .. n
    BY SeqShape DEF Text
  <2>2. b \in Seq(Line) /\ Len(b) = n + 2
    BY <2>1, CronLines, TwoMore
  <2>3. DOMAIN b = 1 .. Len(b)
    BY <2>2, SeqShape
  <2>4. QED
    BY <2>1, <2>2, <2>3, CronLines, TwoMore DEF Text
<1> HIDE DEF b, n
<1>2. f \in [DOMAIN a \ D -> DOMAIN b \ E]
  BY <1>1
<1>3. \A i, j \in DOMAIN a \ D : i < j => f[i] < f[j]
  BY <1>1
<1>4. \A m \in DOMAIN b \ E : \E i \in DOMAIN a \ D : f[i] = m
  <2>1. SUFFICES ASSUME NEW m \in DOMAIN b \ E PROVE \E i \in DOMAIN a \ D : f[i] = m
    OBVIOUS
  <2>2. m \in DOMAIN a \ D /\ f[m] = m
    BY <1>1
  <2>3. QED
    BY <2>2
<1>5. \A i \in DOMAIN a \ D : b[f[i]] = a[i]
  BY <1>1
<1>6. \A m \in E : IsMarker(b[m], k) \/ b[m].t = "job"
  <2> DEFINE x == b[n + 1]
  <2>1. x = Marker(k)
    BY <1>1
  <2> HIDE DEF x
  <2>2. IsMarker(x, k)
    BY <2>1, MarkerParts
  <2>3. b[n + 2].t = "job"
    BY <1>1, CronLines
  <2>4. QED
    BY <2>2, <2>3 DEF x
<1>7. \A i \in DOMAIN a \ D : a[i].t = "marker" /\ a[i].k # k /\ i + 1 \in DOMAIN a => f[i] + 1 \notin E
  BY <1>1
<1>8. /\ E \subseteq DOMAIN b /\ D \subseteq DOMAIN a /\ D = {}
      /\ \A i \in D : IsMarker(a[i], k) \/ (a[i].t = "job" /\ i > 1 /\ IsMarker(a[i - 1], k))
  BY <1>1
<1>9. ASSUME Markers(a, k) = {} PROVE HoldsJob(b, k, v)
  <2>1. \A j \in DOMAIN b : b[j] = Marker(k) => j = n + 1
    <3>1. SUFFICES ASSUME NEW j \in DOMAIN b, b[j] = Marker(k), j # n + 1 PROVE FALSE
      OBVIOUS
    <3>2. j \in 1 .. n \/ j = n + 2
      BY <1>1, <3>1
    <3>3. j # n + 2
      BY <1>1, <3>1, CronLines
    <3>4. j \in DOMAIN a /\ a[j] = Marker(k)
      BY <1>1, <3>1, <3>2, <3>3
    <3>5. QED
      BY <1>9, <3>4 DEF Markers
  <2>2. n + 1 \in DOMAIN b /\ n + 2 \in DOMAIN b /\ n + 1 + 1 = n + 2
    BY <1>1
  <2>3. Markers(b, k) = {n + 1}
    BY <1>1, <2>1, <2>2 DEF Markers
  <2> DEFINE x == b[n + 2]
  <2>4. x = Job(v)
    BY <1>1
  <2> HIDE DEF x
  <2>5. x.t = "job" /\ x.v = v
    BY <2>4, CronLines
  <2>6. b[n + 1 + 1].t = "job" /\ b[n + 1 + 1].v = v
    BY <2>2, <2>5 DEF x
  <2>7. QED
    BY <2>2, <2>3, <2>6 DEF HoldsJob
<1> HIDE DEF f, D, E
<1>10. BlockOnly(a, b, u, k) /\ (D = {} => Cardinality(Jobs(a)) <= Cardinality(Jobs(b)))
  <2>1. BlockMoves(a, b, D, E, f, k)
    BY <1>2, <1>3, <1>4, <1>5, <1>6, <1>7, <1>8 DEF BlockMoves
  <2>2. QED
    BY <1>1, <2>1, BlockStep
<1>11. QED
  BY <1>8, <1>9, <1>10 DEF b

\* What is found of a block.
LEMMA BlockFound ==
    ASSUME NEW lines \in Text, NEW n, NEW f, f = findManagedCrontabBlock(lines, n)
    PROVE  /\ Markers(lines, n) \subseteq DOMAIN lines
           /\ f.n = "none" <=> Markers(lines, n) = {}
           /\ f.n = "one" => Markers(lines, n) = {f.at} /\ f.at \in DOMAIN lines /\ IsMarker(lines[f.at], n)
           /\ f.n \in {"none", "one", "many"}
<1> DEFINE S == Markers(lines, n)
<1>1. S \subseteq DOMAIN lines /\ IsFiniteSet(S) /\ Cardinality(S) \in Nat
  BY JobsFinite DEF Markers
<1>2. \A i \in S : lines[i] = Marker(n)
  BY DEF Markers
<1> HIDE DEF S
<1>3. CASE S = {}
  <2>1. Cardinality(S) = 0
    BY <1>3, FS_EmptySet
  <2>2. f = [n |-> "none", at |-> 0]
    BY <1>3, <2>1 DEF findManagedCrontabBlock, S
  <2>3. f.n = "none"
    BY <2>2
  <2>4. QED
    BY <1>1, <1>3, <2>3 DEF S
<1>4. CASE S # {} /\ Cardinality(S) > 1
  <2>1. f = [n |-> "many", at |-> 0]
    BY <1>4 DEF findManagedCrontabBlock, S
  <2>2. f.n = "many"
    BY <2>1
  <2>3. QED
    BY <1>1, <1>4, <2>2 DEF S
<1>5. CASE S # {} /\ ~(Cardinality(S) > 1)
  <2>1. Cardinality(S) # 0
    BY <1>1, <1>5, FS_EmptySet
  <2>2. Cardinality(S) = 1
    BY <1>1, <1>5, <2>1
  <2>3. PICK x : S = {x}
    BY <1>1, <2>2, FS_Singleton
  <2>4. f = [n |-> "one", at |-> CHOOSE i \in S : TRUE]
    BY <1>5 DEF findManagedCrontabBlock, S
  <2>5. (CHOOSE i \in S : TRUE) = x
    BY <2>3
  <2>6. f.n = "one" /\ f.at = x
    BY <2>4, <2>5
  <2>7. lines[x] = Marker(n)
    BY <1>2, <2>3
  <2> DEFINE l == lines[x]
  <2>8. l = Marker(n)
    BY <2>7
  <2> HIDE DEF l
  <2>9. IsMarker(l, n)
    BY <2>8, MarkerParts
  <2>10. QED
    BY <1>1, <1>5, <2>3, <2>6, <2>9 DEF S, l
<1>6. QED
  BY <1>3, <1>4, <1>5

\* The job of a block is rewritten.
LEMMA BlockRewritten ==
    ASSUME NEW a \in Text, NEW i \in DOMAIN a, NEW u, NEW k \in {"a", "b"}, NEW v \in Word,
           Markers(a, k) = {i}, IsMarker(a[i], k), HasJob(a, i)
    PROVE  /\ BlockOnly(a, [a EXCEPT ![i + 1] = Job(v)], u, k)
           /\ HoldsJob([a EXCEPT ![i + 1] = Job(v)], k, v)
           /\ Cardinality(Jobs(a)) <= Cardinality(Jobs([a EXCEPT ![i + 1] = Job(v)]))
<1> DEFINE b == [a EXCEPT ![i + 1] = Job(v)]
           D == {i + 1}
           f == [j \in DOMAIN a \ D |-> j]
<1>1. /\ DOMAIN a \subseteq Nat /\ i \in Nat /\ i + 1 \in DOMAIN a /\ a[i + 1].t = "job"
      /\ Job(v) \in Line /\ Job(v).t = "job" /\ Job(v).v = v
  BY SeqShape, CronLines DEF Text, HasJob
<1>2. /\ b \in Text /\ DOMAIN b = DOMAIN a
      /\ b[i + 1] = Job(v)
      /\ \A j \in DOMAIN a \ {i + 1} : b[j] = a[j]
  <2>1. a \in Seq(Line)
    BY DEF Text
  <2>2. b = [j \in DOMAIN a |-> b[j]] /\ \A j \in DOMAIN a : b[j] \in Line
    BY <1>1, <2>1, SeqShape
  <2>3. b[i + 1] = Job(v) /\ \A j \in DOMAIN a \ {i + 1} : b[j] = a[j]
    BY <1>1
  <2> HIDE DEF b
  <2>4. b \in Seq(Line) /\ DOMAIN b = DOMAIN a
    BY ONLY <2>1, <2>2, OnPositions
  <2>5. QED
    BY <2>3, <2>4 DEF Text
<1> HIDE DEF b
<1>3. f \in [DOMAIN a \ D -> DOMAIN b \ D]
  BY <1>2
<1>4. \A j, m \in DOMAIN a \ D : j < m => f[j] < f[m]
  OBVIOUS
<1>5. \A m \in DOMAIN b \ D : \E j \in DOMAIN a \ D : f[j] = m
  BY <1>2
<1>6. \A j \in DOMAIN a \ D : b[f[j]] = a[j]
  BY <1>2
<1>7. \A j \in D : IsMarker(a[j], k) \/ (a[j].t = "job" /\ j > 1 /\ IsMarker(a[j - 1], k))
  <2>1. i + 1 - 1 = i /\ i + 1 > 1
    BY <1>1, SeqShape DEF Text
  <2>2. QED
    BY <1>1, <2>1
<1> DEFINE new == b[i + 1]
<1>8. \A m \in D : IsMarker(b[m], k) \/ b[m].t = "job"
  <2>1. new = Job(v)
    BY <1>2
  <2> HIDE DEF new
  <2>2. new.t = "job"
    BY <1>1, <2>1
  <2>3. QED
    BY <2>2 DEF new
<1>9. \A j \in DOMAIN a \ D : a[j].t = "marker" /\ a[j].k # k /\ j + 1 \in DOMAIN a => f[j] + 1 \notin D
  <2>1. SUFFICES ASSUME NEW j \in DOMAIN a \ D, a[j].k # k, j + 1 = i + 1 PROVE FALSE
    OBVIOUS
  <2>2. j = i
    BY <1>1, <2>1
  <2>3. QED
    BY <2>1, <2>2 DEF IsMarker
<1>10. D \subseteq DOMAIN a /\ D \subseteq DOMAIN b
  BY <1>1, <1>2
<1>11. BlockOnly(a, b, u, k)
  <2> HIDE DEF D, f
  <2>1. BlockMoves(a, b, D, D, f, k)
    BY <1>3, <1>4, <1>5, <1>6, <1>7, <1>8, <1>9, <1>10 DEF BlockMoves
  <2>2. QED
    BY <1>2, <2>1, BlockStep
<1>12. Markers(b, k) = {i}
  <2>1. \A j \in DOMAIN a : a[j] = Marker(k) <=> j = i
    BY DEF Markers
  <2>2. Job(v) # Marker(k)
    BY CronLines
  <2>3. i \in DOMAIN a \ {i + 1}
    BY <1>1
  <2>4. \A j \in DOMAIN b : b[j] = Marker(k) <=> j = i
    <3>1. SUFFICES ASSUME NEW j \in DOMAIN b PROVE b[j] = Marker(k) <=> j = i
      OBVIOUS
    <3>2. CASE j = i + 1
      BY <1>2, <2>2, <2>3, <3>2
    <3>3. CASE j # i + 1
      BY <1>2, <2>1, <3>1, <3>3
    <3>4. QED
      BY <3>2, <3>3
  <2>5. QED
    BY <1>2, <2>4 DEF Markers
<1>13. HoldsJob(b, k, v)
  <2>1. new = Job(v)
    BY <1>2
  <2> HIDE DEF new
  <2>2. new.t = "job" /\ new.v = v
    BY <1>1, <2>1
  <2>3. b[i + 1].t = "job" /\ b[i + 1].v = v
    BY <2>2 DEF new
  <2>4. QED
    BY <1>1, <1>2, <1>12, <2>3 DEF HoldsJob
<1>14. Cardinality(Jobs(a)) <= Cardinality(Jobs(b))
  <2>1. Jobs(a) = Jobs(b)
    <3>1. \A j \in DOMAIN a : a[j].t = "job" <=> b[j].t = "job"
      <4>1. SUFFICES ASSUME NEW j \in DOMAIN a PROVE a[j].t = "job" <=> b[j].t = "job"
        OBVIOUS
      <4>2. CASE j = i + 1
        <5>1. new = Job(v)
          BY <1>2
        <5> HIDE DEF new
        <5>2. new.t = "job"
          BY <1>1, <5>1
        <5>3. QED
          BY <1>1, <4>2, <5>2 DEF new
      <4>3. CASE j # i + 1
        BY <1>2, <4>3
      <4>4. QED
        BY <4>2, <4>3
    <3>2. QED
      BY <1>2, <3>1 DEF Jobs
  <2>2. Cardinality(Jobs(a)) \in Nat
    BY JobsFinite DEF Jobs
  <2>3. QED
    BY <2>1, <2>2
<1>15. QED
  BY <1>11, <1>13, <1>14 DEF b

\* A job is put under a marker that has none.
LEMMA BlockCompleted ==
    ASSUME NEW a \in Text, NEW i \in DOMAIN a, NEW u, NEW k \in {"a", "b"}, NEW v \in Word,
           Markers(a, k) = {i}, IsMarker(a[i], k)
    PROVE  /\ BlockOnly(a, InsertAt(a, i + 1, Job(v)), u, k)
           /\ HoldsJob(InsertAt(a, i + 1, Job(v)), k, v)
           /\ Cardinality(Jobs(a)) <= Cardinality(Jobs(InsertAt(a, i + 1, Job(v))))
<1> DEFINE m == i + 1
           line == Job(v)
           b == InsertAt(a, m, line)
<1>1. line \in Line /\ line.t = "job" /\ line.v = v /\ line # Marker(k)
  BY CronLines
<1>2. m \in 1 .. Len(a) + 1 /\ i \in Nat /\ m \in Nat
  BY SeqShape DEF Text
<1>3. \A j \in DOMAIN a : j + 1 = m /\ m \in DOMAIN a /\ a[j].t = "marker" => a[j].k = k
  <2>1. SUFFICES ASSUME NEW j \in DOMAIN a, j + 1 = m PROVE a[j].k = k
    OBVIOUS
  <2>2. j = i
    BY <1>2, <2>1, SeqShape DEF Text
  <2>3. QED
    BY <2>2 DEF IsMarker
<1> HIDE DEF line
<1>4. BlockOnly(a, b, u, k) /\ Cardinality(Jobs(a)) <= Cardinality(Jobs(b))
  <2> HIDE DEF m
  <2>1. QED
    BY <1>1, <1>2, <1>3, BlockInserted
<1>5. /\ Len(a) \in Nat /\ DOMAIN a = 1 .. Len(a)
      /\ b \in Text /\ DOMAIN b = 1 .. Len(a) + 1
      /\ b[m] = line
      /\ \A j \in 1 .. m - 1 : b[j] = a[j]
      /\ \A j \in m .. Len(a) : b[j + 1] = a[j]
  <2> HIDE DEF m
  <2>1. QED
    BY <1>1, <1>2, LineInserted
<1> HIDE DEF b
<1>6. \A j \in DOMAIN b : b[j] = Marker(k) <=> j = i
  <2>1. \A j \in DOMAIN a : a[j] = Marker(k) <=> j = i
    BY DEF Markers
  <2>2. SUFFICES ASSUME NEW j \in DOMAIN b PROVE b[j] = Marker(k) <=> j = i
    OBVIOUS
  <2>3. CASE j = m
    BY <1>1, <1>2, <1>5, <2>3
  <2>4. CASE j < m
    BY <1>2, <1>5, <2>1, <2>4
  <2>5. CASE j > m
    <3>1. j - 1 \in m .. Len(a) /\ j - 1 + 1 = j /\ j - 1 # i /\ j # i /\ j - 1 \in DOMAIN a
      BY <1>2, <1>5, <2>5
    <3>2. b[j] = a[j - 1]
      BY <1>5, <3>1
    <3>3. QED
      BY <2>1, <3>1, <3>2
  <2>6. QED
    BY <1>2, <1>5, <2>3, <2>4, <2>5
<1>7. Markers(b, k) = {i} /\ i \in DOMAIN b /\ m \in DOMAIN b
  BY <1>2, <1>5, <1>6 DEF Markers
<1> DEFINE new == b[m]
<1>8. new = line
  BY <1>5
<1> HIDE DEF new
<1>9. new.t = "job" /\ new.v = v
  BY <1>1, <1>8
<1>10. HoldsJob(b, k, v)
  BY <1>7, <1>9 DEF HoldsJob, new
<1>11. QED
  BY <1>4, <1>10 DEF b, line

\* A job of the user's own is adopted: a marker is put before it.
LEMMA BlockAdopted ==
    ASSUME NEW a \in Text, NEW m \in DOMAIN a, NEW u, NEW k \in {"a", "b"}, NEW v \in Word,
           Markers(a, k) = {}, a[m] = Job(v), m > 1 => a[m - 1].t # "marker"
    PROVE  /\ BlockOnly(a, InsertAt(a, m, Marker(k)), u, k)
           /\ HoldsJob(InsertAt(a, m, Marker(k)), k, v)
           /\ Cardinality(Jobs(a)) <= Cardinality(Jobs(InsertAt(a, m, Marker(k))))
<1> DEFINE line == Marker(k)
           b == InsertAt(a, m, line)
<1>1. line \in Line /\ IsMarker(line, k)
  BY CronLines, MarkerParts
<1>2. m \in 1 .. Len(a) + 1 /\ m \in Nat
  BY SeqShape DEF Text
<1>3. \A j \in DOMAIN a : j + 1 = m /\ m \in DOMAIN a /\ a[j].t = "marker" => a[j].k = k
  <2>1. SUFFICES ASSUME NEW j \in DOMAIN a, j + 1 = m, a[j].t = "marker" PROVE FALSE
    OBVIOUS
  <2>2. j = m - 1 /\ m > 1
    BY <1>2, <2>1, SeqShape DEF Text
  <2>3. QED
    BY <2>1, <2>2
<1> HIDE DEF line
<1>4. BlockOnly(a, b, u, k) /\ Cardinality(Jobs(a)) <= Cardinality(Jobs(b))
  BY <1>1, <1>2, <1>3, BlockInserted
<1>5. /\ Len(a) \in Nat /\ DOMAIN a = 1 .. Len(a)
      /\ b \in Text /\ DOMAIN b = 1 .. Len(a) + 1
      /\ b[m] = line
      /\ \A j \in 1 .. m - 1 : b[j] = a[j]
      /\ \A j \in m .. Len(a) : b[j + 1] = a[j]
  BY <1>1, <1>2, LineInserted
<1> HIDE DEF b
<1>6. \A j \in DOMAIN b : b[j] = line <=> j = m
  <2>1. \A j \in DOMAIN a : a[j] # line
    BY DEF Markers, line
  <2>2. SUFFICES ASSUME NEW j \in DOMAIN b PROVE b[j] = line <=> j = m
    OBVIOUS
  <2>3. CASE j = m
    BY <1>5, <2>3
  <2>4. CASE j < m
    BY <1>2, <1>5, <2>1, <2>4
  <2>5. CASE j > m
    <3>1. j - 1 \in m .. Len(a) /\ j - 1 + 1 = j /\ j - 1 \in DOMAIN a
      BY <1>2, <1>5, <2>5
    <3>2. b[j] = a[j - 1]
      BY <1>5, <3>1
    <3>3. QED
      BY <2>1, <2>5, <3>1, <3>2, <1>2, <1>5
  <2>6. QED
    BY <1>2, <1>5, <2>3, <2>4, <2>5
<1>7. Markers(b, k) = {m} /\ m \in DOMAIN b /\ m + 1 \in DOMAIN b
  BY <1>2, <1>5, <1>6 DEF Markers, line
<1> DEFINE new == b[m + 1]
<1>8. new = Job(v)
  BY <1>2, <1>5
<1> HIDE DEF new
<1>9. new.t = "job" /\ new.v = v
  BY <1>8, CronLines
<1>10. HoldsJob(b, k, v)
  BY <1>7, <1>9 DEF HoldsJob, new
<1>11. QED
  BY <1>4, <1>10 DEF b, line

\* A block is removed, with its job.
LEMMA BlockRemoved ==
    ASSUME NEW a \in Text, NEW i \in DOMAIN a, NEW u, NEW k, Markers(a, k) = {i}, IsMarker(a[i], k)
    PROVE  /\ BlockOnly(a, WithoutBlock(a, i), u, k)
           /\ Markers(WithoutBlock(a, i), k) = {}
           /\ WithoutBlock(a, i) # a
<1> DEFINE D == IF HasJob(a, i) THEN {i, i + 1} ELSE {i}
           S == DOMAIN a \ D
           b == At(a, S)
           f == [j \in S |-> Rank(S, j)]
<1>1. WithoutBlock(a, i) = b
  BY DEF WithoutBlock
<1>2. /\ DOMAIN a \subseteq Nat /\ i \in D /\ D \subseteq DOMAIN a
      /\ \A j \in D : j = i \/ (j = i + 1 /\ a[j].t = "job")
  BY SeqShape DEF Text, HasJob
<1> HIDE DEF D
<1>3. Finite(S) /\ Finite(DOMAIN a) /\ S \subseteq DOMAIN a /\ Cardinality(S) \in Nat
  BY PartFinite, Ranks DEF Text
<1>4. b \in Text /\ Len(b) = Cardinality(S) /\ DOMAIN b = 1 .. Cardinality(S)
  BY <1>3, AtSeq, AtElements DEF Text
<1>5. /\ \A j \in S : Rank(S, j) \in DOMAIN b /\ b[Rank(S, j)] = a[j]
      /\ \A n \in DOMAIN b : b[n] = a[Nth(S, n)] /\ Nth(S, n) \in S /\ Rank(S, Nth(S, n)) = n
      /\ \A j, m \in S : j < m => Rank(S, j) < Rank(S, m)
  <2> HIDE DEF S
  <2>1. \A j \in S : Rank(S, j) \in DOMAIN b /\ b[Rank(S, j)] = a[j]
    BY <1>3, AtElements
  <2>2. \A n \in DOMAIN b : b[n] = a[Nth(S, n)] /\ Nth(S, n) \in S
    BY <1>3, AtElements
  <2>3. \A n \in DOMAIN b : Rank(S, Nth(S, n)) = n
    BY <1>3, <1>4, NthOfRank
  <2>4. \A j, m \in S : j < m => Rank(S, j) < Rank(S, m)
    BY <1>3, Ranks
  <2>5. QED
    BY <2>1, <2>2, <2>3, <2>4
<1> HIDE DEF b
<1> DEFINE E == {}
<1>6. BlockMoves(a, b, D, E, f, k)
  <2>1. S = DOMAIN a \ D
    OBVIOUS
  <2> HIDE DEF S
  <2>2. f \in [DOMAIN a \ D -> DOMAIN b \ E]
    BY <1>5, <2>1
  <2>3. \A j, m \in DOMAIN a \ D : j < m => f[j] < f[m]
    BY <1>5, <2>1
  <2>4. \A m \in DOMAIN b \ E : \E j \in DOMAIN a \ D : f[j] = m
    <3>1. SUFFICES ASSUME NEW m \in DOMAIN b PROVE \E j \in DOMAIN a \ D : f[j] = m
      OBVIOUS
    <3>2. Nth(S, m) \in DOMAIN a \ D /\ f[Nth(S, m)] = m
      BY <1>5, <2>1
    <3>3. QED
      BY <3>2
  <2>5. \A j \in DOMAIN a \ D : b[f[j]] = a[j]
    BY <1>5, <2>1
  <2>6. \A j \in D : IsMarker(a[j], k) \/ (a[j].t = "job" /\ j > 1 /\ IsMarker(a[j - 1], k))
    <3>1. SUFFICES ASSUME NEW j \in D, j = i + 1, a[j].t = "job" PROVE j > 1 /\ IsMarker(a[j - 1], k)
      BY <1>2
    <3>2. i \in Nat /\ i >= 1 /\ j - 1 = i
      BY <3>1, SeqShape DEF Text
    <3>3. QED
      BY <3>1, <3>2
  <2>7. \A m \in E : IsMarker(b[m], k) \/ b[m].t = "job"
    OBVIOUS
  <2>8. E \subseteq DOMAIN b /\ \A j \in DOMAIN a \ D : a[j].t = "marker" /\ a[j].k # k /\ j + 1 \in DOMAIN a => f[j] + 1 \notin E
    OBVIOUS
  <2> HIDE DEF E, f
  <2>9. QED
    BY <1>2, <2>2, <2>3, <2>4, <2>5, <2>6, <2>7, <2>8 DEF BlockMoves
<1>7. BlockOnly(a, b, u, k)
  <2> HIDE DEF S, E, f
  <2>1. QED
    BY <1>4, <1>6, BlockStep
<1>8. Markers(b, k) = {}
  <2>1. \A j \in DOMAIN a : a[j] = Marker(k) <=> j = i
    BY DEF Markers
  <2>2. \A m \in DOMAIN b : b[m] # Marker(k)
    <3>1. SUFFICES ASSUME NEW m \in DOMAIN b, b[m] = Marker(k) PROVE FALSE
      OBVIOUS
    <3>2. Nth(S, m) \in DOMAIN a /\ Nth(S, m) \notin D
      BY <1>5
    <3> HIDE DEF S
    <3>3. a[Nth(S, m)] = Marker(k)
      BY <1>5, <3>1
    <3>4. QED
      BY <1>2, <2>1, <3>2, <3>3
  <2>3. QED
    BY <2>2 DEF Markers
<1>9. b # a
  <2>1. SUFFICES ASSUME b = a PROVE FALSE
    OBVIOUS
  <2>2. i \in DOMAIN b /\ b[i] = Marker(k)
    BY <2>1 DEF Markers
  <2>3. QED
    BY <1>8, <2>2 DEF Markers
<1>10. QED
  BY <1>1, <1>7, <1>8, <1>9

\* What removeManagedCrontabEntry leaves.
LEMMA CronRemoved ==
    ASSUME NEW a \in Text, NEW u, NEW k, NEW b, b = removeManagedCrontabEntry(a, k)
    PROVE  \/ b = Refused /\ findManagedCrontabBlock(a, k).n = "many"
           \/ b = a /\ Markers(a, k) = {}
           \/ b # a /\ BlockOnly(a, b, u, k) /\ Markers(b, k) = {}
<1> DEFINE f == findManagedCrontabBlock(a, k)
<1>1. /\ f.n = "none" <=> Markers(a, k) = {}
      /\ f.n = "one" => Markers(a, k) = {f.at} /\ f.at \in DOMAIN a /\ IsMarker(a[f.at], k)
      /\ f.n \in {"none", "one", "many"}
  BY BlockFound
<1>2. b = CASE f.n = "one" -> WithoutBlock(a, f.at) [] f.n = "many" -> Refused [] OTHER -> a
  BY DEF removeManagedCrontabEntry
<1> HIDE DEF f
<1>3. CASE f.n = "none"
  BY <1>1, <1>2, <1>3
<1>4. CASE f.n = "one"
  <2>1. b = WithoutBlock(a, f.at)
    BY <1>2, <1>4
  <2>2. QED
    BY <1>1, <1>4, <2>1, BlockRemoved
<1>5. CASE f.n = "many"
  <2>1. b = Refused
    BY <1>2, <1>5
  <2>2. QED
    BY <1>5, <2>1 DEF f
<1>6. QED
  BY <1>1, <1>3, <1>4, <1>5

\* A block and its job, where nothing is found under the name, or nothing.
LEMMA CronAdded ==
    ASSUME NEW a \in Text, NEW p, CronState(p), NEW b, b = createOrAdoptManagedCrontabEntry(a, p), b # Refused
    PROVE  /\ BlockOnly(a, b, p.u, p.k) /\ HoldsJob(b, p.k, p.v)
           /\ Cardinality(Jobs(a)) <= Cardinality(Jobs(b))
<1> DEFINE k == p.k
           v == p.v
           S == exactUnmanagedCrontabMatches(a, v)
<1>1. k \in {"a", "b"} /\ v \in Word
  BY DEF CronState
<1>2. /\ S \subseteq DOMAIN a /\ IsFiniteSet(S)
      /\ \A m \in S : a[m] = Job(v) /\ (m > 1 => a[m - 1].t # "marker")
  BY JobsFinite DEF exactUnmanagedCrontabMatches
<1>3. \/ /\ findManagedCrontabBlock(a, k).n = "none" /\ Cardinality(S) = 1
         /\ b = InsertAt(a, CHOOSE i \in S : TRUE, Marker(k))
      \/ /\ findManagedCrontabBlock(a, k).n = "none"
         /\ b = a \o <<Marker(k), Job(v)>>
  BY DEF createOrAdoptManagedCrontabEntry
<1>4. Markers(a, k) = {}
  BY <1>3, BlockFound
<1> HIDE DEF S, k, v
<1>5. ASSUME Cardinality(S) = 1, b = InsertAt(a, CHOOSE i \in S : TRUE, Marker(k))
      PROVE  BlockOnly(a, b, p.u, k) /\ HoldsJob(b, k, v) /\ Cardinality(Jobs(a)) <= Cardinality(Jobs(b))
  <2>1. PICK m : S = {m}
    BY <1>2, <1>5, FS_Singleton
  <2>2. (CHOOSE i \in S : TRUE) = m /\ m \in S
    BY <2>1
  <2>3. b = InsertAt(a, m, Marker(k)) /\ m \in DOMAIN a /\ a[m] = Job(v) /\ (m > 1 => a[m - 1].t # "marker")
    BY <1>2, <1>5, <2>2
  <2>4. QED
    BY <1>1, <1>4, <2>3, BlockAdopted
<1>6. ASSUME b = a \o <<Marker(k), Job(v)>>
      PROVE  BlockOnly(a, b, p.u, k) /\ HoldsJob(b, k, v) /\ Cardinality(Jobs(a)) <= Cardinality(Jobs(b))
  BY <1>1, <1>4, <1>6, BlockAppended
<1>7. QED
  BY <1>3, <1>5, <1>6 DEF k, v

\* The block with the new job.
LEMMA CronRewritten ==
    ASSUME NEW a \in Text, NEW p, CronState(p), NEW f, f = findManagedCrontabBlock(a, p.k), f.n = "one",
           NEW b, b = updateManagedCrontabEntry(a, f.at, p)
    PROVE  /\ BlockOnly(a, b, p.u, p.k) /\ HoldsJob(b, p.k, p.v)
           /\ Cardinality(Jobs(a)) <= Cardinality(Jobs(b))
<1> DEFINE i == f.at
           k == p.k
           v == p.v
<1>1. Markers(a, k) = {i} /\ i \in DOMAIN a /\ IsMarker(a[i], k)
  BY BlockFound
<1>2. k \in {"a", "b"} /\ v \in Word
  BY DEF CronState
<1>3. b = IF HasJob(a, i) THEN [a EXCEPT ![i + 1] = Job(v)] ELSE InsertAt(a, i + 1, Job(v))
  BY DEF updateManagedCrontabEntry
<1> HIDE DEF i, k, v
<1>4. CASE HasJob(a, i)
  <2>1. b = [a EXCEPT ![i + 1] = Job(v)]
    BY <1>3, <1>4
  <2>2. BlockOnly(a, b, p.u, k) /\ HoldsJob(b, k, v) /\ Cardinality(Jobs(a)) <= Cardinality(Jobs(b))
    <3>1. /\ BlockOnly(a, [a EXCEPT ![i + 1] = Job(v)], p.u, k)
          /\ HoldsJob([a EXCEPT ![i + 1] = Job(v)], k, v)
          /\ Cardinality(Jobs(a)) <= Cardinality(Jobs([a EXCEPT ![i + 1] = Job(v)]))
      BY <1>1, <1>2, <1>4, BlockRewritten, ZenonT(30)
    <3>2. QED
      BY <2>1, <3>1
  <2>3. QED
    BY <2>2 DEF k, v
<1>5. CASE ~HasJob(a, i)
  <2>1. b = InsertAt(a, i + 1, Job(v))
    BY <1>3, <1>5
  <2>2. BlockOnly(a, b, p.u, k) /\ HoldsJob(b, k, v) /\ Cardinality(Jobs(a)) <= Cardinality(Jobs(b))
    BY <1>1, <1>2, <2>1, BlockCompleted
  <2>3. QED
    BY <2>2 DEF k, v
<1>6. QED
  BY <1>4, <1>5

\* From a to b, lines of the user u, only blocks of the objects ids change.
LinesKeep(a, b, u, ids) ==
    /\ b \in Text
    /\ \A all : ids \subseteq all =>
         CronRest(b, u, all) = CronRest(a, u, all) /\ Cardinality(OwnJobs(a, u, all)) <= Cardinality(Jobs(b))
    /\ \A n, v : <<u, n>> \notin ids /\ HoldsJob(a, n, v) => HoldsJob(b, n, v)

\* The lines themselves,
LEMMA LinesStay ==
    ASSUME NEW a \in Text, NEW u, NEW ids
    PROVE  LinesKeep(a, a, u, ids)
<1>1. ASSUME NEW all PROVE Cardinality(OwnJobs(a, u, all)) <= Cardinality(Jobs(a))
  <2>1. OwnJobs(a, u, all) \subseteq Jobs(a) /\ Finite(Jobs(a))
    BY PartFinite DEF OwnJobs, Jobs, Text
  <2>2. QED
    BY <2>1, FinitePart
<1>2. QED
  BY <1>1 DEF LinesKeep

\* with one block changed,
LEMMA LinesOfBlock ==
    ASSUME NEW a \in Text, NEW b, NEW u, NEW k, NEW ids, <<u, k>> \in ids, BlockOnly(a, b, u, k)
    PROVE  LinesKeep(a, b, u, ids)
<1>1. \A all : ids \subseteq all => <<u, k>> \in all
  OBVIOUS
<1>2. \A n : <<u, n>> \notin ids => n # k
  OBVIOUS
<1>3. QED
  BY <1>1, <1>2 DEF LinesKeep, BlockOnly

\* and with two.
LEMMA LinesOfBlocks ==
    ASSUME NEW a \in Text, NEW b, NEW c, NEW u, NEW k, NEW n, NEW ids, <<u, k>> \in ids, <<u, n>> \in ids,
           BlockOnly(a, b, u, k), BlockOnly(b, c, u, n), Cardinality(Jobs(b)) <= Cardinality(Jobs(c))
    PROVE  LinesKeep(a, c, u, ids)
<1>1. b \in Text /\ c \in Text
  BY DEF BlockOnly
<1>2. ASSUME NEW all, ids \subseteq all
      PROVE  CronRest(c, u, all) = CronRest(a, u, all) /\ Cardinality(OwnJobs(a, u, all)) <= Cardinality(Jobs(c))
  <2>1. <<u, k>> \in all /\ <<u, n>> \in all
    BY <1>2
  <2>2. /\ CronRest(b, u, all) = CronRest(a, u, all) /\ CronRest(c, u, all) = CronRest(b, u, all)
        /\ Cardinality(OwnJobs(a, u, all)) <= Cardinality(Jobs(b))
    BY <2>1 DEF BlockOnly
  <2>3. Cardinality(OwnJobs(a, u, all)) \in Nat /\ Cardinality(Jobs(b)) \in Nat /\ Cardinality(Jobs(c)) \in Nat
    BY <1>1, JobsFinite DEF OwnJobs, Jobs
  <2>4. QED
    BY <2>2, <2>3
<1>3. ASSUME NEW m, NEW v, <<u, m>> \notin ids, HoldsJob(a, m, v) PROVE HoldsJob(c, m, v)
  <2>1. m # k /\ m # n
    BY <1>3
  <2>2. HoldsJob(b, m, v)
    BY <1>3, <2>1 DEF BlockOnly
  <2>3. QED
    BY <2>1, <2>2 DEF BlockOnly
<1>4. QED
  BY <1>1, <1>2, <1>3 DEF LinesKeep

\* The crontabs of the users, and that from h to x only blocks of the objects ids change.
CronFile(h) == CronShape(h) /\ TabsOfText(h)
CronKeeps(h, x, ids) == CronFile(x) /\ \A u \in CronUser : LinesKeep(h.tabs[u], x.tabs[u], u, ids)

\* The host itself,
LEMMA CronStays ==
    ASSUME NEW h, CronFile(h), NEW ids
    PROVE  CronKeeps(h, h, ids)
  BY LinesStay DEF CronKeeps, CronFile, TabsOfText

\* and with one crontab written.
LEMMA CronKept ==
    ASSUME NEW h, NEW x, NEW ids, CronKeeps(h, x, ids), NEW u \in CronUser, NEW lines, LinesKeep(h.tabs[u], lines, u, ids)
    PROVE  /\ CronKeeps(h, writeUserCrontabLines(x, u, lines), ids)
           /\ writeUserCrontabLines(x, u, lines).tabs[u] = lines
           /\ \A q \in CronUser \ {u} : writeUserCrontabLines(x, u, lines).tabs[q] = x.tabs[q]
<1> DEFINE w == writeUserCrontabLines(x, u, lines)
<1>1. CronOnly(x, w, {u})
  BY CronWrite DEF CronKeeps, CronFile
<1>2. x = [tabs |-> x.tabs] /\ x.tabs = [q \in CronUser |-> x.tabs[q]]
  BY DEF CronKeeps, CronFile, CronShape
<1>3. w = [tabs |-> [x.tabs EXCEPT ![u] = lines]]
  BY <1>2 DEF writeUserCrontabLines
<1>4. w.tabs[u] = lines
  BY <1>2, <1>3
<1> HIDE DEF w
<1>5. CronShape(w) /\ \A q \in CronUser \ {u} : w.tabs[q] = x.tabs[q]
  BY <1>1 DEF CronOnly
<1>6. lines \in Text
  BY DEF LinesKeep
<1>7. TabsOfText(w)
  BY <1>4, <1>5, <1>6 DEF TabsOfText, CronKeeps, CronFile
<1>8. \A q \in CronUser : LinesKeep(h.tabs[q], w.tabs[q], q, ids)
  BY <1>4, <1>5 DEF CronKeeps
<1>9. QED
  BY <1>4, <1>5, <1>7, <1>8 DEF CronKeeps, CronFile, w

\* The outcomes of writing one crontab.
MayWrite(h, u, lines, ids) == CronFile(h) /\ u \in CronUser /\ (lines # Refused => LinesKeep(h.tabs[u], lines, u, ids))

\* Writing one crontab keeps the other lines and jobs, and what is written is what is there, unless it fails.
LEMMA CronWritten ==
    ASSUME NEW h, NEW u, NEW lines, NEW ids, MayWrite(h, u, lines, ids), NEW out, NEW o \in WriteOne(h, u, lines, out)
    PROVE  /\ CronKeeps(h, o.h, ids)
           /\ o.out \in {Failed, Refused} \/ (lines # Refused /\ o.out = out /\ o.h.tabs[u] = lines)
<1> DEFINE w == writeUserCrontabLines(h, u, lines)
<1>0. CronFile(h) /\ u \in CronUser /\ (lines # Refused => LinesKeep(h.tabs[u], lines, u, ids))
  BY DEF MayWrite
<1>1. CronKeeps(h, h, ids)
  BY <1>0, CronStays
<1>2. lines # Refused => CronKeeps(h, w, ids) /\ w.tabs[u] = lines
  BY <1>0, <1>1, CronKept
<1>3. \/ lines = Refused /\ o.h = h /\ o.out \in {Failed, Refused}
      \/ lines # Refused /\ o \in Run(<<h, w>>, out)
  BY DEF WriteOne, Outcome, Refuse
<1> HIDE DEF w
<1>4. QED
  BY <1>1, <1>2, <1>3, RunOfTwo

\* What is read of a block.
LEMMA CronReadJob ==
    ASSUME NEW h, CronFile(h), NEW s, CronState(s), HoldsJob(h.tabs[s.u], s.k, s.v)
    PROVE  CronRead(h, s) = s
<1> DEFINE lines == h.tabs[s.u]
           f == findManagedCrontabBlock(lines, s.k)
<1>1. lines \in Text
  BY DEF CronFile, TabsOfText, CronState
<1>2. PICK i \in DOMAIN lines : /\ Markers(lines, s.k) = {i} /\ i + 1 \in DOMAIN lines
                                /\ lines[i + 1].t = "job" /\ lines[i + 1].v = s.v
  BY DEF HoldsJob
<1> HIDE DEF lines
<1>3. f.n # "many" /\ f.n # "none"
  <2>1. Cardinality(Markers(lines, s.k)) = 1
    BY <1>2, FS_Singleton
  <2>2. f = [n |-> "one", at |-> CHOOSE j \in Markers(lines, s.k) : TRUE]
    BY <1>2, <2>1 DEF findManagedCrontabBlock
  <2>3. QED
    BY <2>2
<1>4. f.n = "one" /\ f.at = i
  BY <1>1, <1>2, <1>3, BlockFound
<1>5. CronRead(h, s) = CASE f.n = "many" -> Refused
                         [] f.n = "one" /\ HasJob(lines, f.at) -> [s EXCEPT !.v = lines[f.at + 1].v]
                         [] OTHER -> Nil
  BY DEF CronRead, lines
<1> HIDE DEF f
<1>6. CronRead(h, s) = [s EXCEPT !.v = lines[i + 1].v]
  BY <1>2, <1>4, <1>5 DEF HasJob
<1>7. s = [u |-> s.u, k |-> s.k, v |-> s.v]
  BY DEF CronState
<1>8. QED
  BY <1>2, <1>6, <1>7

\* A read that finds a job finds that of the only block.
LEMMA CronJobRead ==
    ASSUME NEW h, CronFile(h), NEW s, CronState(s), IsState(CronRead(h, s))
    PROVE  /\ CronState(CronRead(h, s)) /\ CronRead(h, s).u = s.u /\ CronRead(h, s).k = s.k
           /\ HoldsJob(h.tabs[s.u], s.k, CronRead(h, s).v)
<1> DEFINE lines == h.tabs[s.u]
           f == findManagedCrontabBlock(lines, s.k)
<1>1. lines \in Text
  BY DEF CronFile, TabsOfText, CronState
<1> HIDE DEF lines
<1>2. CronRead(h, s) = CASE f.n = "many" -> Refused
                         [] f.n = "one" /\ HasJob(lines, f.at) -> [s EXCEPT !.v = lines[f.at + 1].v]
                         [] OTHER -> Nil
  BY DEF CronRead, lines
<1>3. f.n = "one" => Markers(lines, s.k) = {f.at} /\ f.at \in DOMAIN lines
  BY <1>1, BlockFound
<1> HIDE DEF f
<1>4. f.n = "one" /\ HasJob(lines, f.at) /\ CronRead(h, s) = [s EXCEPT !.v = lines[f.at + 1].v]
  BY <1>2 DEF IsState
<1> DEFINE v == lines[f.at + 1].v
           new == [s EXCEPT !.v = v]
<1>5. HoldsJob(lines, s.k, v)
  BY <1>3, <1>4 DEF HoldsJob, HasJob
<1>6. v \in Word
  <2>1. lines[f.at + 1] \in Line
    BY <1>1, <1>4, SeqShape DEF HasJob, Text
  <2>2. QED
    BY <2>1, LineParts
<1> HIDE DEF v
<1>7. new = [u |-> s.u, k |-> s.k, v |-> v]
  BY DEF CronState
<1>8. CronRead(h, s) = new
  BY <1>4 DEF v
<1> HIDE DEF new
<1>9. QED
  BY <1>5, <1>6, <1>7, <1>8 DEF CronState, lines

\* No block of the name, nothing read.
LEMMA CronReadNone ==
    ASSUME NEW h, CronFile(h), NEW s, CronState(s), Markers(h.tabs[s.u], s.k) = {}
    PROVE  CronRead(h, s) = Nil
<1>1. h.tabs[s.u] \in Text
  BY DEF CronFile, TabsOfText, CronState
<1>2. findManagedCrontabBlock(h.tabs[s.u], s.k).n = "none"
  BY <1>1, BlockFound
<1>3. QED
  BY <1>2 DEF CronRead

\* What is read of other objects.
LEMMA CronReadOther ==
    ASSUME NEW h, CronFile(h), NEW x, NEW ids, CronKeeps(h, x, ids),
           NEW s, CronState(s), <<s.u, s.k>> \notin ids, CronRead(h, s) = s, IsState(s)
    PROVE  CronRead(x, s) = s
<1>1. HoldsJob(h.tabs[s.u], s.k, s.v)
  BY CronJobRead
<1>2. HoldsJob(x.tabs[s.u], s.k, s.v)
  BY <1>1 DEF CronKeeps, LinesKeep, CronState
<1>3. QED
  BY <1>2, CronReadJob DEF CronKeeps

\* A create makes the entry, or nothing.
LEMMA CronCreates ==
    ASSUME NEW h, CronFile(h), NEW p, CronState(p), NEW o \in CronCreate(h, p)
    PROVE  /\ CronKeeps(h, o.h, {<<p.u, p.k>>})
           /\ IsState(o.out) => o.out = p /\ CronRead(o.h, p) = p
<1> DEFINE a == h.tabs[p.u]
           b == createOrAdoptManagedCrontabEntry(a, p)
           ids == {<<p.u, p.k>>}
<1>1. a \in Text /\ p.u \in CronUser
  BY DEF CronFile, TabsOfText, CronState
<1>2. b # Refused => BlockOnly(a, b, p.u, p.k) /\ HoldsJob(b, p.k, p.v)
  BY <1>1, CronAdded
<1>3. o \in WriteOne(h, p.u, b, p)
  BY DEF CronCreate
<1> HIDE DEF b
<1>4. b # Refused => LinesKeep(a, b, p.u, ids)
  BY <1>1, <1>2, LinesOfBlock
<1>8. MayWrite(h, p.u, b, ids)
  BY <1>1, <1>4 DEF MayWrite
<1> HIDE DEF ids
<1>5. /\ CronKeeps(h, o.h, ids)
      /\ o.out \in {Failed, Refused} \/ (b # Refused /\ o.out = p /\ o.h.tabs[p.u] = b)
  BY <1>3, <1>8, CronWritten
<1>6. o.out \in {Failed, Refused} \/ CronRead(o.h, p) = p
  BY <1>2, <1>5, CronReadJob DEF CronKeeps
<1>7. QED
  BY <1>5, <1>6 DEF IsState, ids

\* So does an update, of the user's crontab
LEMMA CronUpdatesHere ==
    ASSUME NEW h, CronFile(h), NEW s, NEW p, CronState(p), s.u = p.u, NEW o \in CronUpdateHere(h, s, p)
    PROVE  /\ CronKeeps(h, o.h, {<<s.u, s.k>>, <<p.u, p.k>>})
           /\ IsState(o.out) => o.out = p /\ CronRead(o.h, p) = p
<1> DEFINE a == h.tabs[p.u]
           f == findManagedCrontabBlock(a, s.k)
           rest == removeManagedCrontabEntry(a, s.k)
           new == CASE f.n = "many" -> Refused
                    [] s.k = p.k /\ f.n = "one" -> updateManagedCrontabEntry(a, f.at, p)
                    [] OTHER -> createOrAdoptManagedCrontabEntry(rest, p)
           ids == {<<s.u, s.k>>, <<p.u, p.k>>}
<1>1. a \in Text /\ p.u \in CronUser
  BY DEF CronFile, TabsOfText, CronState
<1>2. o \in WriteOne(h, p.u, new, p)
  BY DEF CronUpdateHere
<1>3. ASSUME new # Refused PROVE LinesKeep(a, new, p.u, ids) /\ HoldsJob(new, p.k, p.v)
  <2>1. CASE s.k = p.k /\ f.n = "one"
    <3>1. new = updateManagedCrontabEntry(a, f.at, p)
      BY <2>1
    <3> HIDE DEF new
    <3>2. BlockOnly(a, new, p.u, p.k) /\ HoldsJob(new, p.k, p.v)
      BY <1>1, <2>1, <3>1, CronRewritten
    <3>3. QED
      BY <1>1, <3>2, LinesOfBlock
  <2>2. CASE ~(s.k = p.k /\ f.n = "one")
    <3>1. f.n # "many" /\ new = createOrAdoptManagedCrontabEntry(rest, p)
      BY <1>3, <2>2
    <3> HIDE DEF new
    <3>2. rest = a \/ BlockOnly(a, rest, p.u, s.k)
      BY <1>1, <3>1, CronRemoved
    <3> HIDE DEF rest, f
    <3>3. rest \in Text
      BY <1>1, <3>2 DEF BlockOnly
    <3>4. /\ BlockOnly(rest, new, p.u, p.k) /\ HoldsJob(new, p.k, p.v)
          /\ Cardinality(Jobs(rest)) <= Cardinality(Jobs(new))
      BY <1>3, <3>1, <3>3, CronAdded
    <3>5. LinesKeep(a, new, p.u, ids)
      BY <1>1, <3>2, <3>4, LinesOfBlock, LinesOfBlocks
    <3>6. QED
      BY <3>4, <3>5
  <2>3. QED
    BY <2>1, <2>2
<1> HIDE DEF new, ids
<1>7. MayWrite(h, p.u, new, ids)
  BY <1>1, <1>3 DEF MayWrite
<1>4. /\ CronKeeps(h, o.h, ids)
      /\ o.out \in {Failed, Refused} \/ (new # Refused /\ o.out = p /\ o.h.tabs[p.u] = new)
  BY <1>2, <1>7, CronWritten
<1>5. o.out \in {Failed, Refused} \/ CronRead(o.h, p) = p
  BY <1>3, <1>4, CronReadJob DEF CronKeeps
<1>6. QED
  BY <1>4, <1>5 DEF IsState, ids

\* and of two.
LEMMA CronUpdatesMove ==
    ASSUME NEW h, CronFile(h), NEW s, s.u \in CronUser, NEW p, CronState(p), s.u # p.u, NEW o \in CronUpdateMoves(h, s, p)
    PROVE  /\ CronKeeps(h, o.h, {<<s.u, s.k>>, <<p.u, p.k>>})
           /\ IsState(o.out) => o.out = p /\ CronRead(o.h, p) = p
<1> DEFINE old == removeManagedCrontabEntry(h.tabs[s.u], s.k)
           new == createOrAdoptManagedCrontabEntry(h.tabs[p.u], p)
           w == writeUserCrontabLines(h, p.u, new)
           x == writeUserCrontabLines(w, s.u, old)
           ids == {<<s.u, s.k>>, <<p.u, p.k>>}
<1>1. h.tabs[p.u] \in Text /\ p.u \in CronUser /\ h.tabs[s.u] \in Text
  BY DEF CronFile, TabsOfText, CronState
<1>2. new # Refused => BlockOnly(h.tabs[p.u], new, p.u, p.k) /\ HoldsJob(new, p.k, p.v)
  BY <1>1, CronAdded
<1>3. old # Refused => old = h.tabs[s.u] \/ BlockOnly(h.tabs[s.u], old, s.u, s.k)
  BY <1>1, CronRemoved
<1>4. \/ o \in Refuse(h)
      \/ new # Refused /\ old # Refused /\ o \in Change(<<h, w, x>>, p)
  BY DEF CronUpdateMoves
<1> HIDE DEF old, new
<1>5. CASE o \in Refuse(h)
  BY <1>5, RefuseOutcome, CronStays DEF IsState
<1>6. CASE new # Refused /\ old # Refused /\ o \in Change(<<h, w, x>>, p)
  <2>1. LinesKeep(h.tabs[p.u], new, p.u, ids)
    BY <1>1, <1>2, <1>6, LinesOfBlock
  <2>2. LinesKeep(h.tabs[s.u], old, s.u, ids)
    BY <1>1, <1>3, <1>6, LinesOfBlock, LinesStay
  <2>3. CronKeeps(h, h, ids)
    BY CronStays
  <2>4. CronKeeps(h, w, ids) /\ w.tabs[p.u] = new
    BY <1>1, <2>1, <2>3, CronKept
  <2> HIDE DEF w
  <2>5. CronKeeps(h, x, ids) /\ x.tabs[p.u] = w.tabs[p.u]
    BY <1>1, <2>2, <2>4, CronKept
  <2> HIDE DEF x
  <2>6. CronRead(x, p) = p
    BY <1>2, <1>6, <2>4, <2>5, CronReadJob DEF CronKeeps
  <2>7. QED
    BY <1>6, <2>3, <2>4, <2>5, <2>6, ChangeOfThree DEF IsState
<1>7. QED
  BY <1>4, <1>5, <1>6

\* An update of a crontab entry, also when it moves to another user, keeps what neither entry is about,
\* and the entry it reports is read back.
LEMMA CronUpdates ==
    ASSUME NEW h, CronFile(h), NEW s, s.u \in CronUser, NEW p, CronState(p), NEW o \in CronUpdate(h, s, p)
    PROVE  /\ CronKeeps(h, o.h, {<<s.u, s.k>>, <<p.u, p.k>>})
           /\ IsState(o.out) => o.out = p /\ CronRead(o.h, p) = p
<1>1. CASE s.u = p.u
  <2>1. o \in CronUpdateHere(h, s, p)
    BY <1>1 DEF CronUpdate
  <2>2. QED
    BY <1>1, <2>1, CronUpdatesHere
<1>2. CASE s.u # p.u
  <2>1. o \in CronUpdateMoves(h, s, p)
    BY <1>2 DEF CronUpdate
  <2>2. QED
    BY <1>2, <2>1, CronUpdatesMove
<1>3. QED
  BY <1>1, <1>2

\* A delete takes the block, or fails.
LEMMA CronDeletes ==
    ASSUME NEW h, CronFile(h), NEW s, CronState(s), NEW o \in CronDelete(h, s)
    PROVE  /\ CronKeeps(h, o.h, {<<s.u, s.k>>})
           /\ MarksApart => o.out \in {Failed, Refused} \/ CronRead(o.h, s) = Nil
<1> DEFINE a == h.tabs[s.u]
           new == removeManagedCrontabEntry(a, s.k)
           ids == {<<s.u, s.k>>}
<1>1. a \in Text /\ s.u \in CronUser
  BY DEF CronFile, TabsOfText, CronState
<1>2. \/ new = Refused
      \/ new = a /\ Markers(a, s.k) = {}
      \/ new # a /\ BlockOnly(a, new, s.u, s.k) /\ Markers(new, s.k) = {}
  BY <1>1, CronRemoved
<1>3. IF new = a THEN o \in Answers(h, Nil) ELSE o \in WriteOne(h, s.u, new, Nil)
  BY DEF CronDelete
<1>4. MarksApart => a # Refused
  <2>1. a = [i \in DOMAIN a |-> a[i]]
    BY <1>1, SeqShape DEF Text
  <2> HIDE DEF a
  <2>2. QED
    BY <2>1 DEF MarksApart
<1> HIDE DEF new
<1>5. CASE new = a
  <2>1. o.h = h
    BY <1>3, <1>5, AnswerOutcome
  <2>2. MarksApart => Markers(a, s.k) = {}
    BY <1>2, <1>4, <1>5
  <2>3. Markers(a, s.k) = {} => CronRead(h, s) = Nil
    BY CronReadNone
  <2>4. QED
    BY <2>1, <2>2, <2>3, CronStays
<1>6. CASE new # a
  <2>1. new # Refused => LinesKeep(a, new, s.u, ids)
    BY <1>1, <1>2, <1>6, LinesOfBlock
  <2>5. o \in WriteOne(h, s.u, new, Nil)
    BY <1>3, <1>6
  <2>6. MayWrite(h, s.u, new, ids)
    BY <1>1, <2>1 DEF MayWrite
  <2> HIDE DEF ids
  <2>2. /\ CronKeeps(h, o.h, ids)
        /\ o.out \in {Failed, Refused} \/ (new # Refused /\ o.h.tabs[s.u] = new)
    BY <2>5, <2>6, CronWritten
  <2>3. new # Refused => Markers(new, s.k) = {}
    BY <1>2, <1>6
  <2>4. QED
    BY <2>2, <2>3, CronReadNone DEF CronKeeps, ids
<1>7. QED
  BY <1>5, <1>6

\* What OthersKept says of crontabs.
LEMMA CronOthersKept ==
    ASSUME NEW h, CronFile(h), NEW x, NEW ids, CronKeeps(h, x, ids)
    PROVE  /\ Kept("crontab_entry", x, ids) = Kept("crontab_entry", h, ids)
           /\ \A u \in CronUser :
                Cardinality({j \in KeptJobs("crontab_entry", h, ids) : j[1] = u})
                  <= Cardinality({j \in KeptJobs("crontab_entry", x, {}) : j[1] = u})
<1>1. \A y : Kept("crontab_entry", y, ids) = [u \in CronUser |-> CronRest(y.tabs[u], u, ids)]
  BY DEF Kept, CronRest, CronOthers
<1>2. \A u \in CronUser : CronRest(x.tabs[u], u, ids) = CronRest(h.tabs[u], u, ids)
  BY DEF CronKeeps, LinesKeep
<1>3. ASSUME NEW y, CronFile(y), NEW all, NEW u \in CronUser
      PROVE  Cardinality({j \in KeptJobs("crontab_entry", y, all) : j[1] = u}) = Cardinality(OwnJobs(y.tabs[u], u, all))
  <2> DEFINE a == y.tabs[u]
             S == OwnJobs(a, u, all)
             T == {j \in KeptJobs("crontab_entry", y, all) : j[1] = u}
             g == [i \in S |-> <<u, i>>]
  <2>1. T = {<<u, i>> : i \in S}
    <3>1. KeptJobs("crontab_entry", y, all) = UNION {{<<q, i>> : i \in OwnJobs(y.tabs[q], q, all)} : q \in CronUser}
      BY DEF KeptJobs, OwnJobs, Jobs
    <3>2. \A j : j \in KeptJobs("crontab_entry", y, all) <=> \E q \in CronUser : \E i \in OwnJobs(y.tabs[q], q, all) : j = <<q, i>>
      BY <3>1
    <3>3. \A j : j \in T <=> \E i \in S : j = <<u, i>>
      BY <3>2
    <3>4. QED
      BY <3>3
  <2>2. IsFiniteSet(S)
    BY <1>3, JobsFinite DEF CronFile, TabsOfText, OwnJobs, Jobs
  <2> HIDE DEF S, T
  <2>3. g \in [S -> T]
    BY <2>1
  <2>4. g \in Injection(S, T)
    BY <2>3, Fun_IsInj
  <2>5. g \in Surjection(S, T)
    BY <2>1, <2>3, Fun_IsSurj
  <2>6. g \in Bijection(S, T)
    BY <2>4, <2>5 DEF Bijection
  <2>7. Cardinality(S) = Cardinality(T)
    BY <2>2, <2>6, FS_Bijection DEF ExistsBijection
  <2>8. QED
    BY <2>7 DEF S, T
<1>4. ASSUME NEW u \in CronUser
      PROVE  Cardinality({j \in KeptJobs("crontab_entry", h, ids) : j[1] = u})
               <= Cardinality({j \in KeptJobs("crontab_entry", x, {}) : j[1] = u})
  <2>1. OwnJobs(x.tabs[u], u, {}) = Jobs(x.tabs[u])
    BY DEF OwnJobs
  <2>2. Cardinality(OwnJobs(h.tabs[u], u, ids)) <= Cardinality(Jobs(x.tabs[u]))
    BY DEF CronKeeps, LinesKeep
  <2>3. QED
    BY <1>3, <2>1, <2>2 DEF CronKeeps
<1>5. QED
  BY <1>1, <1>2, <1>4
=============================================================================
