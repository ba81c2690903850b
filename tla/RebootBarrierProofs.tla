------------------------ MODULE RebootBarrierProofs ------------------------
(***************************************************************************)
(* The proofs about RebootBarrier: its types, the proof of a reboot that a *)
(* completed barrier stands for, that the reboot command of an operation   *)
(* runs once, and that nobody passes the readiness gate without root who   *)
(* needs it.                                                               *)
(*                                                                         *)
(* The invariant has four parts.  JournalOK and ClientOK say that every    *)
(* copy of an entry, in either file or at a client, has no boot id yet or  *)
(* one from between the boot it was asked for in and the present one, and  *)
(* where a boot id is there already.  OnceOK, while nothing is lost, says  *)
(* that only the holder of the lease is before the command, and that an    *)
(* entry whose command ran is found in no phase before it.  The rest are   *)
(* the types.                                                              *)
(***************************************************************************)
EXTENDS RebootBarrier, FiniteSetTheorems, FunctionTheorems, SequenceTheorems, TLAPS

Fresh == {"idle", "lease", "prepare"}
PreIssue == {"prepare", "precheck", "markPrecheck", "select", "markIssued", "issue"}
Proved == {"markValidated", "settle", "complete"}
Label == Fresh \cup PreIssue \cup Proved \cup {"reset", "markWaiting", "wait"}

KLabel == {"begin", "wait", "check", "ready", "notReady", "pass", "refused", "absent"}

\* A newest process: the next one is numbered after it.
Newest == \E m \in Client : \A c \in Client : proc[c] <= proc[m]

Types ==
    /\ boot \in Nat \ {0} /\ up \in BOOLEAN /\ machine \in Nat /\ pending \in BOOLEAN
    /\ lost \in Nat
    /\ lease \in Client \cup {None}
    /\ proc \in [Client -> Nat] /\ Newest
    /\ pc \in [Client -> Label]
    /\ req \in [Client -> Request \cup {None}]
    /\ entry \in [Client -> Entry]
    /\ seen \in [Client -> Nat]
    /\ tf \in [Client -> Entry]
    /\ result \in [Client -> {"ok", "error", "running"}]

\* The operations have numbers and histories of their own.
OpsOK ==
    /\ ops \in Seq(Entry) /\ issued \in Seq(Nat) /\ asked \in Seq(Nat)
    /\ Len(issued) = Len(ops) /\ Len(asked) = Len(ops)

\* The boot id of an entry is from after it was asked for.
EntryOK(e) ==
    e.id # 0 =>
        /\ e.id \in DOMAIN ops
        /\ e.pre = 0 \/ (asked[e.id] <= e.pre /\ e.pre <= boot)

FileOK(i) ==
    /\ ops[i].id = i /\ ops[i].name \in Request
    /\ EntryOK(ops[i])
    /\ asked[i] <= boot

\* An entry that can be resumed after its precheck has a boot id, in both files.
CurOK(n) ==
    /\ EntryOK(cur[n])
    /\ cur[n].id # 0 =>
        /\ cur[n].name = n /\ ops[cur[n].id].name = n
        /\ cur[n].phase \notin {Planned, Failed} => cur[n].pre # 0 /\ ops[cur[n].id].pre # 0

JournalOK ==
    /\ OpsOK
    /\ \A i \in DOMAIN ops : FileOK(i)
    /\ cur \in [Request -> Entry]
    /\ \A n \in Request : CurOK(n)

\* A client has an entry once it is prepared, with a boot id once the precheck is done;
\* a proof it has seen is newer.
ClientOK(c) ==
    /\ pc[c] # "idle" => req[c] \in Request
    /\ EntryOK(entry[c])
    /\ pc[c] \notin Fresh => entry[c].id # 0
    /\ pc[c] \notin Fresh \cup {"precheck"} => entry[c].pre # 0
    /\ pc[c] \notin Fresh \cup {"precheck", "markPrecheck"} => ops[entry[c].id].pre # 0
    /\ pc[c] \in Proved => entry[c].pre < seen[c] /\ seen[c] <= boot

\* What Terraform records as completed.
StateOK(c) ==
    tf[c].id # 0 =>
        /\ tf[c].id \in DOMAIN ops
        /\ tf[c].phase = Completed
        /\ asked[tf[c].id] <= tf[c].pre /\ tf[c].pre < tf[c].post /\ tf[c].post <= boot

\* Nobody is before the command of operation i, and nobody will be.
Past(i) ==
    /\ \A n \in Request : cur[n].id = i => cur[n].phase >= RebootIssued
    /\ \A c \in Client : entry[c].id = i => pc[c] \notin PreIssue \ {"prepare"}

OnceOK ==
    /\ \A c \in Client : pc[c] \in PreIssue => lease = c
    /\ \A i \in DOMAIN ops : issued[i] = 0 \/ (issued[i] = 1 /\ Past(i))
    /\ \A c \in Client : pc[c] = "issue" =>
         \A n \in Request : cur[n].id = entry[c].id => cur[n].phase >= RebootIssued

\* The verdicts of the gate.
GateOK ==
    /\ kpc \in [Checker -> KLabel]
    /\ hostReadyRoot \in BOOLEAN /\ rootChecked \in BOOLEAN
    /\ hostReadyRoot => rootChecked
    /\ RootIsChecked

RebootInv ==
    /\ Types /\ JournalOK
    /\ \A c \in Client : ClientOK(c) /\ StateOK(c)
    /\ lost = 0 => OnceOK

-----------------------------------------------------------------------------
\* Phases are their ranks.
USE DEF Planned, PrecheckComplete, TargetPrepared, RebootIssued, WaitingForReconnect,
    PostReconnectValidated, ExecutorRebootstrapped, Completed, Failed

\* What no step takes back: operations, what was asked of them and their boot ids stay,
\* and boots only go on (a file is written only from itself, with the boot id or a new one).
Grown ==
    /\ boot' \in Nat \ {0} /\ boot <= boot'
    /\ DOMAIN ops \subseteq DOMAIN ops'
    /\ \A i \in DOMAIN ops :
         /\ asked'[i] = asked[i] /\ ops'[i].name = ops[i].name
         /\ ops[i].pre # 0 => ops'[i].pre # 0

\* The request of c goes on where it is.
Kept(c) == pc'[c] = pc[c] /\ req'[c] = req[c] /\ entry'[c] = entry[c] /\ seen'[c] = seen[c]

\* The empty entry is one.
LEMMA NoEntryType ==
    NoEntry \in Entry /\ NoEntry.id = 0 /\ NoEntry.phase = Planned /\ NoEntry.name = None /\ NoEntry.pre = 0
BY DEF NoEntry, Entry

\* The lengths and elements of the journal's sequences.
LEMMA OpsLengths ==
    ASSUME OpsOK
    PROVE  /\ Len(ops) \in Nat
           /\ DOMAIN ops = 1 .. Len(ops) /\ DOMAIN issued = DOMAIN ops /\ DOMAIN asked = DOMAIN ops
           /\ \A i \in DOMAIN ops : ops[i] \in Entry /\ issued[i] \in Nat /\ asked[i] \in Nat
<1>1. Len(ops) \in Nat /\ ops \in [1 .. Len(ops) -> Entry] /\ DOMAIN ops = 1 .. Len(ops)
  BY LenProperties DEF OpsOK
<1>2. issued \in [1 .. Len(ops) -> Nat] /\ DOMAIN issued = 1 .. Len(ops)
  BY LenProperties DEF OpsOK
<1>3. asked \in [1 .. Len(ops) -> Nat] /\ DOMAIN asked = 1 .. Len(ops)
  BY LenProperties DEF OpsOK
<1> QED BY <1>1, <1>2, <1>3

\* Every client can be given a process of its own, and then one of them has the highest
\* number: Init is well defined, and so is the key of the next process.
LEMMA ApartType ==
    /\ Apart \in [Client -> Nat]
    /\ \E m \in Client : \A c \in Client : Apart[c] <= Apart[m]
<1> DEFINE N == Cardinality(Client)
<1>1. N \in Nat /\ N # 0
  BY RebootAssumption, FS_CardinalityType, FS_EmptySet DEF RebootAssumption
<1>2. IsFiniteSet(1 .. N) /\ Cardinality(1 .. N) = N
  BY <1>1, FS_Interval
<1>3. ExistsBijection(Client, 1 .. N)
  BY <1>1, <1>2, FS_SameCardinalityBij, RebootAssumption DEF RebootAssumption
<1>4. PICK g : g \in Bijection(Client, 1 .. N)
  BY <1>3 DEF ExistsBijection
<1>5. g \in [Client -> 1 .. N] /\ \A c, d \in Client : g[c] = g[d] => c = d
  BY <1>4 DEF Bijection, Injection, IsInjective
<1>6. /\ Apart \in [Client -> 1 .. N]
      /\ \A c, d \in Client : Apart[c] = Apart[d] => c = d
  BY <1>5 DEF Apart
<1>7. Apart \in Injection(Client, 1 .. N)
  BY <1>6 DEF Injection, IsInjective
<1>8. Apart \in Surjection(Client, 1 .. N)
  BY <1>2, <1>7, FS_Injection
<1>9. PICK m \in Client : Apart[m] = N
  BY <1>1, <1>8 DEF Surjection
<1> QED
  BY <1>1, <1>6, <1>9

\* The key of the next process is a number after all the others.
LEMMA NewKey ==
    ASSUME proc \in [Client -> Nat], Newest
    PROVE  newJournalKey \in Nat /\ \A c \in Client : proc[c] <= newJournalKey
<1>1. PICK m \in Client : \A c \in Client : proc[c] <= proc[m]
  BY DEF Newest
<1> DEFINE P == CHOOSE p \in {proc[c] : c \in Client} : \A c \in Client : proc[c] <= p
<1>2. P \in {proc[c] : c \in Client} /\ \A c \in Client : proc[c] <= P
  BY <1>1
<1>3. P \in Nat
  BY <1>2
<1> HIDE DEF P
<1>4. 1 + P \in Nat /\ \A c \in Client : proc[c] <= 1 + P
  BY <1>2, <1>3
<1> QED BY <1>4 DEF newJournalKey, P

\* A new process keeps the numbering.
LEMMA NewProcess ==
    ASSUME proc \in [Client -> Nat], Newest, NEW c \in Client,
           proc' = [d \in Client |-> IF d \in InProcess(proc[c]) THEN newJournalKey ELSE proc[d]]
    PROVE  proc' \in [Client -> Nat] /\ Newest'
<1>1. newJournalKey \in Nat /\ \A d \in Client : proc[d] <= newJournalKey
  BY NewKey
<1>2. c \in InProcess(proc[c])
  BY DEF InProcess
<1>3. proc'[c] = newJournalKey /\ \A d \in Client : proc'[d] <= proc'[c]
  BY <1>1, <1>2
<1> QED BY <1>1, <1>3 DEF Newest

-----------------------------------------------------------------------------
(* The readiness gate. *)

\* A step of an operation at the gate keeps the verdicts backed by a check.
LEMMA GateStep ==
    ASSUME GateOK, NEW k \in Checker, ReadyStep(k) \/ ensureHostReady(k, TRUE) \/ ensureHostReady(k, FALSE)
    PROVE  GateOK'
<1> USE DEF GateOK, RootIsChecked, KGoto, KLabel
<1>0. NeedRoot \subseteq Checker
  BY CheckerAssumption DEF CheckerAssumption
<1>1. ASSUME NEW b \in BOOLEAN, ensureHostReady(k, b) PROVE GateOK'
  BY <1>0, <1>1 DEF ensureHostReady
<1>2. ASSUME PassOrLead(k), UNCHANGED <<hostReady, hostReadyRoot, rootChecked>> PROVE GateOK'
  BY <1>0, <1>2 DEF PassOrLead, readinessSatisfiedLocked
<1>3. CASE beginReadinessCheck(k)
  BY <1>0, <1>2, <1>3 DEF beginReadinessCheck
<1>4. CASE WaitReadiness(k)
  BY <1>0, <1>2, <1>4 DEF WaitReadiness
<1>5. CASE FinishReadiness(k)
  <2>1. CASE kpc[k] = "ready"
    BY <1>0, <1>5, <2>1 DEF FinishReadiness
  <2>2. CASE kpc[k] = "notReady"
    BY <1>0, <1>5, <2>2 DEF FinishReadiness
  <2> QED BY <1>5, <2>1, <2>2 DEF FinishReadiness
<1> QED BY <1>1, <1>3, <1>4, <1>5 DEF ReadyStep

\* A reset of the session, the end of the process, and what does not concern the gate.
LEMMA GateReset ==
    ASSUME GateOK, clearReadiness \/ EndReadiness \/ UNCHANGED readyVars
    PROVE  GateOK'
<1> USE DEF GateOK, RootIsChecked, KLabel
<1>0. NeedRoot \subseteq Checker
  BY CheckerAssumption DEF CheckerAssumption
<1>1. CASE clearReadiness
  BY <1>1 DEF clearReadiness
<1>2. CASE EndReadiness
  BY <1>0, <1>2 DEF EndReadiness
<1>3. CASE UNCHANGED readyVars
  BY <1>3 DEF readyVars
<1> QED BY <1>1, <1>2, <1>3

\* At first nobody has passed.
LEMMA GateInit == Init => GateOK
<1> SUFFICES ASSUME Init PROVE GateOK
  OBVIOUS
<1>1. /\ hostReadyRoot = FALSE /\ rootChecked = FALSE
      /\ kpc \in {[k \in Checker |-> l] : l \in {"begin", "absent"}}
  BY DEF Init, ReadyInit
<1>2. PICK l \in {"begin", "absent"} : kpc = [k \in Checker |-> l]
  BY <1>1
<1>3. kpc \in [Checker -> KLabel] /\ \A k \in Checker : kpc[k] # "pass"
  BY <1>2 DEF KLabel
<1> QED
  BY <1>1, <1>3, CheckerAssumption DEF GateOK, RootIsChecked, CheckerAssumption

\* The gate, over all steps.
LEMMA GateNext ==
    ASSUME GateOK, [Next]_vars
    PROVE  GateOK'
<1>1. ASSUME NEW c \in Client, ClearReadinessOf(c) PROVE GateOK'
  BY <1>1, GateReset DEF ClearReadinessOf
<1>2. ASSUME NEW c \in Client, NEW r \in Request, applyPlan(c, r) PROVE GateOK'
  BY <1>1, <1>2, GateReset DEF applyPlan, EnterProcess
<1>3. ASSUME NEW c \in Client, NEW e, NEW local, NEW next, Mark(c, e, local, next) PROVE GateOK'
  BY <1>3, GateReset DEF Mark
<1>4. ASSUME NEW c \in Client, failReboot(c) PROVE GateOK'
  BY <1>4, GateReset DEF failReboot
<1>5. ASSUME NEW c \in Client, Step(c) PROVE GateOK'
  <2>1. CASE acquireOperationLease(c) \/ Prepare(c)
    BY <2>1, GateReset DEF acquireOperationLease, Prepare
  <2>2. CASE ReadPreProof(c)
    BY <2>2, <1>4, GateReset DEF ReadPreProof
  <2>3. CASE MarkPrecheck(c)
    BY <2>3, <1>3 DEF MarkPrecheck
  <2>4. CASE SelectRebootCommand(c)
    BY <2>4, <1>3, <1>4 DEF SelectRebootCommand
  <2>5. CASE MarkIssued(c)
    BY <2>5, <1>3 DEF MarkIssued
  <2>6. CASE issueRebootCommand(c)
    BY <2>6, <1>4, GateReset DEF issueRebootCommand
  <2>7. CASE resetSessionSafely(c)
    BY <2>7, <1>1 DEF resetSessionSafely
  <2>8. CASE MarkWaiting(c)
    BY <2>8, <1>3 DEF MarkWaiting
  <2>9. CASE reconnectSessionForReboot(c)
    BY <2>9, <1>1, GateReset DEF reconnectSessionForReboot
  <2>10. CASE ReadPostProof(c)
    BY <2>10, <1>4, GateReset DEF ReadPostProof
  <2>11. CASE MarkValidated(c)
    BY <2>11, <1>3 DEF MarkValidated
  <2>12. CASE Settle(c)
    BY <2>12, <1>3 DEF Settle
  <2>13. CASE Complete(c)
    BY <2>13, GateReset DEF Complete
  <2> QED
    BY <1>5, <2>1, <2>2, <2>3, <2>4, <2>5, <2>6, <2>7, <2>8, <2>9, <2>10, <2>11, <2>12, <2>13 DEF Step
<1>6. ASSUME NEW c \in Client, CompleteFails(c) \/ Timeout(c) \/ Delete(c) \/ Kill(c) \/ LoseLink(c)
      PROVE  GateOK'
  BY <1>6, <1>1, <1>4, GateReset DEF CompleteFails, Timeout, Delete, Kill, LoseLink
<1>7. CASE RebootCommandRuns \/ UnaskedReboot \/ BootUp
  BY <1>7, GateReset DEF RebootCommandRuns, UnaskedReboot, BootUp, Shutdown
<1>8. ASSUME NEW k \in Checker, CheckHost(k) \/ Gate(k) PROVE GateOK'
  BY <1>8, GateStep DEF CheckHost, Gate
<1>9. CASE Idle \/ UNCHANGED vars
  BY <1>9, GateReset DEF Idle, vars
<1> QED
  BY <1>2, <1>5, <1>6, <1>7, <1>8, <1>9 DEF Next

\* An operation that needs root passes the readiness gate (host_readiness.go) on a check
\* that was made with root, whatever the host, the sessions and the reboots do.
THEOREM RebootRootIsChecked == Spec => []RootIsChecked
<1>1. Init => GateOK
  BY GateInit
<1>2. GateOK /\ [Next]_vars => GateOK'
  BY GateNext
<1>3. GateOK => RootIsChecked
  BY DEF GateOK
<1> QED BY <1>1, <1>2, <1>3, PTL DEF Spec

-----------------------------------------------------------------------------
(* What the requests do to the journal. *)

\* An entry that c may write: that of its operation, with the boot id there is or a
\* good one, and of a phase before the command only when c is before it.
GoodEntry(c, e) ==
    /\ e \in Entry /\ e.id = entry[c].id /\ e.name = ops[e.id].name
    /\ e.pre = 0 \/ (asked[e.id] <= e.pre /\ e.pre <= boot)
    /\ ops[e.id].pre # 0 => e.pre # 0
    /\ e.phase # Planned
    /\ e.phase # Failed => e.pre # 0
    /\ e.phase >= RebootIssued \/ pc[c] \in PreIssue

\* It is written to both files, to the first only, or not.
Writes(e) ==
    \/ UNCHANGED journalVars
    \/ WriteOp(e) /\ (UNCHANGED cur \/ WriteCurrent(e))

\* What a client that has prepared may rely on.
LEMMA Prepared ==
    ASSUME RebootInv, NEW c \in Client, pc[c] \notin Fresh
    PROVE  /\ entry[c] \in Entry /\ entry[c].id \in DOMAIN ops
           /\ ops[entry[c].id] \in Entry /\ ops[entry[c].id].id = entry[c].id
           /\ ops[entry[c].id].name \in Request
           /\ boot \in Nat /\ asked[entry[c].id] \in Nat
           /\ entry[c].pre = 0 \/ (asked[entry[c].id] <= entry[c].pre /\ entry[c].pre <= boot)
           /\ ops[entry[c].id].pre = 0
              \/ (asked[entry[c].id] <= ops[entry[c].id].pre /\ ops[entry[c].id].pre <= boot)
<1>1. ClientOK(c) /\ OpsOK /\ (\A i \in DOMAIN ops : FileOK(i)) /\ entry[c] \in Entry /\ boot \in Nat
  BY DEF RebootInv, JournalOK, Types
<1>2. entry[c].id \in DOMAIN ops
      /\ (entry[c].pre = 0 \/ (asked[entry[c].id] <= entry[c].pre /\ entry[c].pre <= boot))
  BY <1>1 DEF ClientOK, EntryOK
<1>3. entry[c].id # 0
  BY <1>1 DEF ClientOK
<1> QED
  BY <1>1, <1>2, <1>3, OpsLengths DEF FileOK, EntryOK

\* The file of c's operation, in a later phase, is an entry c may write.
LEMMA GoodFile ==
    ASSUME RebootInv, NEW c \in Client, pc[c] \notin Fresh, NEW p \in 1 .. 8,
           p # Failed => pc[c] \notin {"precheck", "markPrecheck"},
           p >= RebootIssued \/ pc[c] \in PreIssue
    PROVE  GoodEntry(c, File(c, p)) /\ File(c, p).phase = p
<1> DEFINE f == ops[entry[c].id]
<1>1. /\ f \in Entry /\ f.id = entry[c].id
      /\ f.pre = 0 \/ (asked[entry[c].id] <= f.pre /\ f.pre <= boot)
  BY Prepared
<1>2. pc[c] \notin {"precheck", "markPrecheck"} => f.pre # 0
  BY DEF RebootInv, ClientOK
<1>3. /\ File(c, p) \in Entry /\ File(c, p).id = entry[c].id /\ File(c, p).phase = p
      /\ File(c, p).name = f.name /\ File(c, p).pre = f.pre
  BY <1>1 DEF File, Entry
<1> QED
  BY <1>1, <1>2, <1>3 DEF GoodEntry

\* The boot of the host at the end of a reboot is set apart from what is relied on.
LEMMA GoodFilePost ==
    ASSUME RebootInv, NEW c \in Client, pc[c] \in Proved, NEW p \in {PostReconnectValidated, Completed}
    PROVE  GoodEntry(c, [File(c, p) EXCEPT !.post = seen[c]])
           /\ [File(c, p) EXCEPT !.post = seen[c]].phase = p
<1> DEFINE f == File(c, p)  e == [f EXCEPT !.post = seen[c]]
<1>1. GoodEntry(c, f) /\ f.phase = p
  BY GoodFile DEF Proved, Fresh
<1>2. seen[c] \in Nat
  BY DEF RebootInv, Types
<1>3. e \in Entry /\ e.id = f.id /\ e.name = f.name /\ e.pre = f.pre /\ e.phase = f.phase
  <2>1. f \in Entry
    BY <1>1 DEF GoodEntry
  <2> HIDE DEF f
  <2> QED BY <1>2, <2>1 DEF Entry
<1> HIDE DEF f, e
<1>4. GoodEntry(c, e) /\ e.phase = p
  BY <1>1, <1>3 DEF GoodEntry
<1> QED
  BY <1>4 DEF e, f

\* A write of c leaves a good journal, and takes nothing back.
LEMMA WriteJournal ==
    ASSUME RebootInv, NEW c \in Client, pc[c] \notin Fresh, NEW e, GoodEntry(c, e), Writes(e),
           UNCHANGED <<boot, asked>>, issued' \in Seq(Nat), Len(issued') = Len(issued)
    PROVE  JournalOK' /\ Grown
<1> DEFINE i == entry[c].id
<1>1. i \in DOMAIN ops /\ ops[i].id = i /\ ops[i].name \in Request
  BY Prepared
<1>2. e \in Entry /\ e.id = i /\ e.name = ops[i].name
  BY DEF GoodEntry
<1>3. OpsOK /\ (\A j \in DOMAIN ops : FileOK(j)) /\ cur \in [Request -> Entry] /\ (\A n \in Request : CurOK(n))
      /\ boot \in Nat \ {0}
  BY DEF RebootInv, JournalOK, Types
<1>4. CASE UNCHANGED journalVars
  <2>1. ops' = ops /\ cur' = cur
    BY <1>4 DEF journalVars
  <2> QED
    BY <1>3, <2>1 DEF JournalOK, OpsOK, FileOK, CurOK, EntryOK, Grown
<1>5. CASE WriteOp(e) /\ (UNCHANGED cur \/ WriteCurrent(e))
  <2>1. /\ ops' \in Seq(Entry) /\ Len(ops') = Len(ops)
        /\ \A j \in 1 .. Len(ops) : ops'[j] = IF j = i THEN e ELSE ops[j]
    BY <1>1, <1>2, <1>3, <1>5, ExceptSeq, OpsLengths DEF WriteOp, OpsOK
  <2>2. DOMAIN ops' = DOMAIN ops /\ DOMAIN ops = 1 .. Len(ops)
    BY <1>3, <2>1, LenProperties DEF OpsOK
  <2>3. \A j \in DOMAIN ops : ops'[j] = IF j = i THEN e ELSE ops[j]
    BY <2>1, <2>2
  <2>4. OpsOK'
    BY <1>3, <2>1 DEF OpsOK
  <2>5. Grown
    BY <1>2, <1>3, <2>2, <2>3 DEF Grown, GoodEntry
  <2>6. ASSUME NEW j \in DOMAIN ops' PROVE FileOK(j)'
    <3>1. CASE j = i
      BY <1>1, <1>2, <1>3, <2>2, <2>3, <3>1 DEF FileOK, EntryOK, GoodEntry
    <3>2. CASE j # i
      BY <1>3, <2>2, <2>3, <3>2 DEF FileOK, EntryOK
    <3> QED BY <3>1, <3>2
  <2>7. cur' \in [Request -> Entry]
    BY <1>1, <1>2, <1>3, <1>5, NoEntryType DEF WriteCurrent
  <2>8. ASSUME NEW n \in Request PROVE CurOK(n)'
    <3>1. CASE cur'[n] = cur[n]
      <4>1. CurOK(n)
        BY <1>3
      <4>2. cur[n].id # 0 => cur[n].id \in DOMAIN ops
        BY <4>1 DEF CurOK, EntryOK
      <4> QED
        BY <2>2, <2>5, <3>1, <4>1, <4>2 DEF CurOK, EntryOK, Grown
    <3>2. CASE cur'[n] = NoEntry
      BY <3>2, NoEntryType DEF CurOK, EntryOK
    <3>3. CASE cur'[n] = e /\ n = e.name /\ e.phase # Completed
      BY <1>1, <1>2, <2>2, <2>3, <3>3 DEF CurOK, EntryOK, GoodEntry
    <3> QED
      BY <1>2, <1>3, <1>5, <3>1, <3>2, <3>3 DEF WriteCurrent
  <2> QED
    BY <2>4, <2>5, <2>6, <2>7, <2>8 DEF JournalOK
<1> QED
  BY <1>4, <1>5 DEF Writes

-----------------------------------------------------------------------------
(* What that means for the clients. *)

\* A client that goes on where it is has what it relies on.
LEMMA ClientKept ==
    ASSUME RebootInv, Grown, NEW c \in Client, Kept(c)
    PROVE  ClientOK(c)'
<1>1. ClientOK(c) /\ OpsOK /\ boot \in Nat /\ boot' \in Nat /\ boot <= boot' /\ entry[c] \in Entry /\ seen[c] \in Nat
  BY DEF RebootInv, JournalOK, Types, Grown
<1>2. entry[c].pre \in Nat
  BY <1>1 DEF Entry
<1>3. EntryOK(entry[c])'
  BY <1>1, <1>2, OpsLengths DEF ClientOK, EntryOK, Grown, Kept
<1>4. pc[c] \notin Fresh \cup {"precheck", "markPrecheck"} => ops'[entry[c].id].pre # 0
  BY <1>1 DEF ClientOK, EntryOK, Grown
<1>5. pc[c] \in Proved => entry[c].pre < seen[c] /\ seen[c] <= boot'
  BY <1>1, <1>2 DEF ClientOK
<1> QED
  BY <1>1, <1>3, <1>4, <1>5 DEF ClientOK, Kept

\* What Terraform has recorded stays proved.
LEMMA StateKept ==
    ASSUME RebootInv, Grown, NEW c \in Client, tf'[c] = tf[c]
    PROVE  StateOK(c)'
<1>1. StateOK(c) /\ OpsOK /\ boot \in Nat /\ boot' \in Nat /\ boot <= boot' /\ tf[c] \in Entry
  BY DEF RebootInv, JournalOK, Types, Grown
<1>2. tf[c].pre \in Nat /\ tf[c].post \in Nat
  BY <1>1 DEF Entry
<1> QED
  BY <1>1, <1>2, OpsLengths DEF StateOK, Grown

\* A request that has ended relies on nothing.
LEMMA ClientEnded ==
    ASSUME NEW c \in Client, pc'[c] = "idle", entry'[c] = NoEntry
    PROVE  ClientOK(c)'
BY NoEntryType DEF ClientOK, EntryOK, Fresh, Proved

\* The requests cs end, the others go on.
LEMMA Returned ==
    ASSUME RebootInv, NEW cs, NEW r \in {"ok", "error"}, ReturnAll(cs, r)
    PROVE  /\ pc' \in [Client -> Label] /\ req' \in [Client -> Request \cup {None}]
           /\ entry' \in [Client -> Entry] /\ seen' \in [Client -> Nat]
           /\ result' \in [Client -> {"ok", "error", "running"}]
           /\ lease' \in Client \cup {None}
           /\ \A d \in Client : d \in cs => pc'[d] = "idle" /\ entry'[d] = NoEntry
           /\ \A d \in Client : d \notin cs => Kept(d)
           /\ lease' = IF lease \in cs THEN None ELSE lease
<1> USE DEF ReturnAll, RebootInv, Types
<1>1. pc' \in [Client -> Label] /\ req' \in [Client -> Request \cup {None}] /\ lease' \in Client \cup {None}
  BY DEF Label, Fresh
<1>2. entry' \in [Client -> Entry] /\ seen' \in [Client -> Nat]
  BY NoEntryType
<1>3. result' \in [Client -> {"ok", "error", "running"}]
  OBVIOUS
<1> QED BY <1>1, <1>2, <1>3 DEF Kept

\* A write of c before the command, or after it, makes no second command possible.
LEMMA WriteOnce ==
    ASSUME RebootInv, OnceOK, NEW c \in Client, pc[c] \notin Fresh, NEW e, GoodEntry(c, e), Writes(e),
           UNCHANGED issued,
           \A d \in Client : d # c => Kept(d),
           \/ pc'[c] = "idle" /\ entry'[c] = NoEntry /\ lease' = IF lease = c THEN None ELSE lease
           \/ /\ entry'[c].id = entry[c].id /\ lease' = lease
              /\ pc'[c] \in PreIssue => pc[c] \in PreIssue
              /\ pc'[c] = "issue" => e.phase = RebootIssued /\ Update(e)
    PROVE  OnceOK'
<1> DEFINE i == entry[c].id
<1>1. i \in DOMAIN ops /\ ops[i].name \in Request
  BY Prepared
<1>2. e.id = i /\ e.name = ops[i].name /\ e \in Entry
  BY DEF GoodEntry
<1>3. OpsOK /\ cur \in [Request -> Entry] /\ (\A n \in Request : CurOK(n)) /\ None \notin Client
  BY RebootAssumption DEF RebootInv, JournalOK, RebootAssumption
<1>4. DOMAIN ops' = DOMAIN ops
  BY DEF Writes, journalVars, WriteOp
<1>5. \A n \in Request : \/ cur'[n] = cur[n]
                         \/ cur'[n] = NoEntry
                         \/ cur'[n] = e /\ n = e.name
  BY <1>1, <1>2, <1>3 DEF Writes, journalVars, WriteCurrent
<1>6. \A n \in Request : cur[n].id = i => n = e.name
  BY <1>1, <1>2, <1>3, OpsLengths DEF CurOK
<1>7. e.phase \in Nat /\ (e.phase >= RebootIssued \/ pc[c] \in PreIssue \ {"prepare"})
  BY <1>2 DEF GoodEntry, Entry, Fresh
<1>8. \A d \in Client : pc'[d] \in PreIssue => lease' = d
  BY <1>3 DEF OnceOK, Kept, PreIssue
<1>9. \A d \in Client : pc[d] \in PreIssue /\ pc[c] \in PreIssue => d = c
  BY DEF OnceOK
<1>10. ASSUME NEW j \in DOMAIN ops', issued'[j] # 0 PROVE issued'[j] = 1 /\ Past(j)'
  <2>1. issued[j] = 1 /\ Past(j) /\ j # 0
    BY <1>3, <1>4, <1>10, OpsLengths DEF OnceOK
  <2>2. j = i => e.phase >= RebootIssued
    BY <1>7, <2>1 DEF Past
  <2>3. \A n \in Request : cur'[n].id = j => cur'[n].phase >= RebootIssued
    BY <1>2, <1>5, <2>1, <2>2, NoEntryType DEF Past
  <2>4. ASSUME NEW d \in Client, entry'[d].id = j, pc'[d] \in PreIssue \ {"prepare"} PROVE FALSE
    <3>1. CASE d # c
      BY <2>1, <2>4, <3>1 DEF Past, Kept
    <3>2. CASE d = c
      <4>1. entry[c].id = j /\ pc[c] \in PreIssue
        BY <2>1, <2>4, <3>2, NoEntryType DEF PreIssue
      <4> QED
        BY <2>1, <4>1 DEF Past, Fresh
    <3> QED BY <3>1, <3>2
  <2> QED BY <2>1, <2>3, <2>4 DEF Past
<1>11. ASSUME NEW d \in Client, pc'[d] = "issue", NEW n \in Request, cur'[n].id = entry'[d].id
       PROVE  cur'[n].phase >= RebootIssued
  <2>1. CASE d = c
    <3>1. e.phase = RebootIssued /\ Update(e) /\ entry'[d].id = i
      BY <1>11, <2>1 DEF PreIssue
    <3>2. cur'[e.name] = e
      BY <1>1, <1>2, <1>3, <3>1 DEF Update, WriteCurrent
    <3>3. n = e.name
      BY <1>1, <1>3, <1>5, <1>6, <1>11, <3>1, NoEntryType, OpsLengths
    <3> QED BY <3>1, <3>2, <3>3
  <2>2. CASE d # c
    <3>1. pc[d] = "issue" /\ entry'[d].id = entry[d].id
      BY <1>11, <2>2 DEF Kept
    <3>2. pc[c] \notin PreIssue
      BY <1>9, <2>2, <3>1 DEF PreIssue
    <3>3. entry[d].id # 0
      BY <3>1 DEF RebootInv, ClientOK, Fresh
    <3> QED
      BY <1>2, <1>5, <1>7, <1>11, <3>1, <3>2, <3>3, NoEntryType DEF OnceOK
  <2> QED BY <2>1, <2>2
<1> QED
  BY <1>8, <1>10, <1>11 DEF OnceOK

\* A request that writes, or not, and ends.
LEMMA WriteEnds ==
    ASSUME RebootInv, NEW c \in Client, pc[c] \notin Fresh, NEW e, GoodEntry(c, e), Writes(e),
           NEW r \in {"ok", "error"}, Return(c, r),
           UNCHANGED <<hostVars, history>>, lost' = lost, tf' \in [Client -> Entry]
    PROVE  /\ Types' /\ JournalOK' /\ Grown
           /\ \A d \in Client : ClientOK(d)'
           /\ lost' = 0 => OnceOK'
<1>1. ReturnAll({c}, r) /\ proc' = proc
  BY DEF Return
<1>2. UNCHANGED <<boot, up, machine, pending, issued, asked>>
  BY DEF hostVars, history
<1>3. JournalOK' /\ Grown
  BY <1>2, WriteJournal DEF RebootInv, JournalOK, OpsOK
<1>4. Types'
  BY <1>1, <1>2, Returned DEF RebootInv, Types, Newest
<1>5. ASSUME NEW d \in Client PROVE ClientOK(d)'
  <2>1. CASE d = c
    BY <1>1, <2>1, Returned, ClientEnded
  <2>2. CASE d # c
    BY <1>1, <1>3, <2>2, Returned, ClientKept
  <2> QED BY <2>1, <2>2
<1>6. ASSUME lost' = 0 PROVE OnceOK'
  <2>1. OnceOK
    BY <1>6 DEF RebootInv
  <2>2. /\ \A d \in Client : d # c => Kept(d)
        /\ pc'[c] = "idle" /\ entry'[c] = NoEntry /\ lease' = IF lease = c THEN None ELSE lease
    BY <1>1, Returned
  <2> QED
    BY <1>2, <2>1, <2>2, WriteOnce
<1> QED BY <1>3, <1>4, <1>5, <1>6

\* A request that gives up, with the failure marked or not.
LEMMA Fails ==
    ASSUME RebootInv, NEW c \in Client, pc[c] \notin Fresh, failReboot(c), lost' = lost
    PROVE  RebootInv'
<1>1. GoodEntry(c, File(c, Failed))
  BY GoodFile
<1>2. Writes(File(c, Failed)) /\ Return(c, "error") /\ UNCHANGED <<hostVars, history, tf>>
  BY DEF failReboot, Writes, Update
<1>3. tf' = tf /\ tf' \in [Client -> Entry]
  BY <1>2 DEF RebootInv, Types
<1>4. /\ Types' /\ JournalOK' /\ Grown
      /\ \A d \in Client : ClientOK(d)'
      /\ lost' = 0 => OnceOK'
  BY <1>1, <1>2, <1>3, WriteEnds
<1>5. \A d \in Client : StateOK(d)'
  BY <1>3, <1>4, StateKept
<1> QED BY <1>4, <1>5 DEF RebootInv

\* A mark of the journal (restart_host.go, through reboot_journal.go), with all that may
\* go wrong with it.
LEMMA MarkKeeps ==
    ASSUME RebootInv, NEW c \in Client, pc[c] \notin Fresh \cup {"issue"},
           NEW e, NEW local, NEW next, GoodEntry(c, e), e.pre # 0, Mark(c, e, local, next),
           local \in Entry, local.id = entry[c].id, local.pre = entry[c].pre, entry[c].pre # 0,
           next \in Label \ (Fresh \cup {"precheck", "markPrecheck"}),
           next \in Proved => pc[c] \in Proved,
           next \in PreIssue => pc[c] \in PreIssue,
           next = "issue" => e.phase = RebootIssued
    PROVE  RebootInv'
<1>1. UNCHANGED <<hostVars, history, tf>> /\ boot' = boot /\ asked' = asked /\ issued' = issued /\ tf' = tf
  BY DEF Mark, hostVars, history
<1>2. pc \in [Client -> Label] /\ entry \in [Client -> Entry] /\ tf' \in [Client -> Entry]
  BY <1>1 DEF RebootInv, Types
<1>3. CASE /\ up /\ Update(e)
           /\ entry' = [entry EXCEPT ![c] = local]
           /\ Goto(c, next)
           /\ UNCHANGED <<counters, lease, proc, req, seen, result>>
  <2>1. Writes(e) /\ WriteOp(e) /\ lost' = lost
    BY <1>3 DEF Writes, Update, counters
  <2>2. JournalOK' /\ Grown
    BY <1>1, <2>1, WriteJournal DEF RebootInv, JournalOK, OpsOK
  <2>3. pc'[c] = next /\ entry'[c] = local /\ seen'[c] = seen[c] /\ req'[c] = req[c]
        /\ \A d \in Client : d # c => Kept(d)
    BY <1>2, <1>3 DEF Goto, Kept
  <2>4. Types'
    BY <1>1, <1>2, <1>3, <2>1 DEF RebootInv, Types, Goto, Newest, hostVars
  <2>5. ClientOK(c)'
    <3>1. entry[c].id \in DOMAIN ops /\ entry[c].id # 0 /\ EntryOK(entry[c])
      BY Prepared DEF RebootInv, ClientOK
    <3>2. EntryOK(local)'
      BY <1>1, <2>2, <3>1 DEF EntryOK, Grown
    <3>3. ops'[entry[c].id].pre # 0
      BY <2>1, <3>1 DEF WriteOp, GoodEntry
    <3>4. req[c] \in Request /\ (pc[c] \in Proved => entry[c].pre < seen[c] /\ seen[c] <= boot)
      BY DEF RebootInv, ClientOK, Fresh
    <3> QED
      BY <1>1, <2>3, <3>1, <3>2, <3>3, <3>4 DEF ClientOK
  <2>6. \A d \in Client : ClientOK(d)' /\ StateOK(d)'
    BY <1>1, <2>2, <2>3, <2>5, ClientKept, StateKept
  <2>7. lost' = 0 => OnceOK'
    BY <1>1, <1>3, <2>1, <2>3, WriteOnce DEF RebootInv
  <2> QED BY <2>2, <2>4, <2>6, <2>7 DEF RebootInv
<1>4. CASE up /\ Fault /\ WriteOp(e) /\ UNCHANGED <<cur, lease, clientVars>>
  <2>1. Writes(e) /\ lost' = lost
    BY <1>4 DEF Writes, Fault
  <2>2. JournalOK' /\ Grown
    BY <1>1, <2>1, WriteJournal DEF RebootInv, JournalOK, OpsOK
  <2>3. UNCHANGED <<proc, pc, req, entry, seen, result, lease>>
    BY <1>4 DEF clientVars
  <2>4. \A d \in Client : Kept(d)
    BY <2>3 DEF Kept
  <2>5. Types'
    BY <1>1, <2>1, <2>3 DEF RebootInv, Types, Newest, hostVars
  <2>6. \A d \in Client : ClientOK(d)' /\ StateOK(d)'
    BY <1>1, <2>2, <2>4, ClientKept, StateKept
  <2>7. lost' = 0 => OnceOK'
    BY <1>1, <2>1, <2>3, <2>4, WriteOnce DEF RebootInv, PreIssue
  <2> QED BY <2>2, <2>5, <2>6, <2>7 DEF RebootInv
<1>5. CASE Fault /\ (UNCHANGED journalVars \/ (up /\ Update(e))) /\ Return(c, "error")
  <2>1. Writes(e) /\ lost' = lost /\ Return(c, "error")
    BY <1>5 DEF Writes, Update, Fault
  <2>2. /\ Types' /\ JournalOK' /\ Grown
        /\ \A d \in Client : ClientOK(d)'
        /\ lost' = 0 => OnceOK'
    BY <1>1, <1>2, <2>1, WriteEnds
  <2>3. \A d \in Client : StateOK(d)'
    BY <1>1, <2>2, StateKept
  <2> QED BY <2>2, <2>3 DEF RebootInv
<1> QED
  BY <1>3, <1>4, <1>5 DEF Mark

-----------------------------------------------------------------------------
(* The steps that mark the journal. *)

\* c's copy in another phase is an entry with the same number and boot id.
LEMMA CopyType ==
    ASSUME RebootInv, NEW c \in Client, NEW p \in 0 .. 8
    PROVE  /\ Copy(c, p) \in Entry /\ Copy(c, p).id = entry[c].id
           /\ Copy(c, p).pre = entry[c].pre /\ Copy(c, p).phase = p
<1>1. entry[c] \in Entry
  BY DEF RebootInv, Types
<1> QED BY <1>1 DEF Copy, Entry

\* Past the precheck the copy of c and the file have a boot id.
LEMMA HasBoot ==
    ASSUME RebootInv, NEW c \in Client, pc[c] \notin Fresh \cup {"precheck", "markPrecheck"}
    PROVE  /\ entry[c].pre # 0
           /\ \A p \in 0 .. 8 : File(c, p).pre # 0
<1>1. entry[c].pre # 0 /\ ops[entry[c].id].pre # 0
  BY DEF RebootInv, ClientOK
<1>2. ops[entry[c].id] \in Entry
  BY Prepared
<1> QED BY <1>1, <1>2 DEF File, Entry

\* The mark after the precheck brings the boot id that was read into the journal.
LEMMA MarkPrecheckKeeps ==
    ASSUME RebootInv, NEW c \in Client, MarkPrecheck(c)
    PROVE  RebootInv'
<1> DEFINE f == ops[entry[c].id]
           g == File(c, PrecheckComplete)
           e == [g EXCEPT !.stable = entry[c].stable, !.pre = entry[c].pre]
<1>1. pc[c] = "markPrecheck" /\ Mark(c, e, Copy(c, PrecheckComplete), "select")
  BY DEF MarkPrecheck
<1>2. entry[c].pre # 0
  BY <1>1 DEF RebootInv, ClientOK, Fresh
<1>3. /\ entry[c] \in Entry /\ f \in Entry /\ f.id = entry[c].id
      /\ entry[c].pre = 0 \/ (asked[entry[c].id] <= entry[c].pre /\ entry[c].pre <= boot)
  BY <1>1, Prepared DEF Fresh
<1>4. /\ e \in Entry /\ e.id = f.id /\ e.name = f.name /\ e.pre = entry[c].pre /\ e.phase = PrecheckComplete
  <2>1. g \in Entry /\ g.id = f.id /\ g.name = f.name /\ g.phase = PrecheckComplete
    BY <1>3 DEF File, Entry
  <2>2. entry[c].stable \in Nat /\ entry[c].pre \in Nat
    BY <1>3 DEF Entry
  <2> HIDE DEF g
  <2> QED BY <2>1, <2>2 DEF Entry
<1>5. GoodEntry(c, e) /\ e.pre # 0
  BY <1>1, <1>2, <1>3, <1>4 DEF GoodEntry, PreIssue
<1> HIDE DEF e
<1> QED
  BY <1>1, <1>2, <1>5, CopyType, MarkKeeps DEF Label, Fresh, PreIssue, Proved

\* The marks of a phase and nothing else.
LEMMA MarkPhaseKeeps ==
    ASSUME RebootInv, NEW c \in Client, NEW p \in 1 .. 7, NEW next,
           Mark(c, File(c, p), Copy(c, p), next),
           \/ pc[c] = "select" /\ p = TargetPrepared /\ next = "markIssued"
           \/ pc[c] = "markIssued" /\ p = RebootIssued /\ next = "issue"
           \/ pc[c] = "markWaiting" /\ p = WaitingForReconnect /\ next = "wait"
           \/ pc[c] = "settle" /\ p = ExecutorRebootstrapped /\ next = "complete"
    PROVE  RebootInv'
<1>1. GoodEntry(c, File(c, p)) /\ File(c, p).phase = p
  BY GoodFile DEF Fresh, PreIssue
<1>2. entry[c].pre # 0 /\ File(c, p).pre # 0
  BY HasBoot DEF Fresh
<1>3. /\ pc[c] \notin Fresh \cup {"issue"}
      /\ next \in Label \ (Fresh \cup {"precheck", "markPrecheck"})
      /\ next \in Proved => pc[c] \in Proved
      /\ next \in PreIssue => pc[c] \in PreIssue
      /\ next = "issue" => p = RebootIssued
  BY DEF Label, Fresh, PreIssue, Proved
<1> QED
  BY <1>1, <1>2, <1>3, CopyType, MarkKeeps

\* The mark of the validated proof.
LEMMA MarkValidatedKeeps ==
    ASSUME RebootInv, NEW c \in Client, MarkValidated(c)
    PROVE  RebootInv'
<1> DEFINE p == PostReconnectValidated
           e == [File(c, p) EXCEPT !.post = seen[c]]
           l == [Copy(c, p) EXCEPT !.post = seen[c]]
<1>1. pc[c] = "markValidated" /\ Mark(c, e, l, "settle")
  BY DEF MarkValidated
<1>2. GoodEntry(c, e) /\ e.phase = p
  BY <1>1, GoodFilePost DEF Proved
<1>3. seen[c] \in Nat /\ Copy(c, p) \in Entry
  BY CopyType DEF RebootInv, Types
<1>4. l \in Entry /\ l.id = entry[c].id /\ l.pre = entry[c].pre
  <2>1. Copy(c, p).id = entry[c].id /\ Copy(c, p).pre = entry[c].pre
    BY CopyType
  <2> QED BY <1>3, <2>1 DEF Entry
<1>5. entry[c].pre # 0
  BY <1>1, HasBoot DEF Fresh
<1> HIDE DEF e, l
<1>6. e.pre # 0
  BY <1>2 DEF GoodEntry
<1> QED
  BY <1>1, <1>2, <1>4, <1>5, <1>6, MarkKeeps DEF Label, Fresh, PreIssue, Proved

\* A completed request: what Terraform records is the copy with the boot that was seen.
LEMMA CompleteKeeps ==
    ASSUME RebootInv, NEW c \in Client, Complete(c)
    PROVE  RebootInv'
<1> DEFINE e == [File(c, Completed) EXCEPT !.post = seen[c]]
           g == Copy(c, Completed)
           done == [g EXCEPT !.post = seen[c]]
<1>1. /\ pc[c] = "complete" /\ Update(e) /\ Return(c, "ok")
      /\ tf' = [tf EXCEPT ![c] = IF req[c] \in Trigger THEN done ELSE @]
      /\ UNCHANGED <<hostVars, history>> /\ lost' = lost /\ boot' = boot /\ asked' = asked
  BY DEF Complete, counters, hostVars, history
<1>2. GoodEntry(c, e)
  BY <1>1, GoodFilePost DEF Proved
<1>3. seen[c] \in Nat /\ tf \in [Client -> Entry]
  BY DEF RebootInv, Types
<1>4. done \in Entry /\ done.id = entry[c].id /\ done.pre = entry[c].pre /\ done.post = seen[c]
      /\ done.phase = Completed
  <2>1. g \in Entry /\ g.id = entry[c].id /\ g.pre = entry[c].pre /\ g.phase = Completed
    BY CopyType
  <2> HIDE DEF g
  <2> QED BY <1>3, <2>1 DEF Entry
<1>5. Writes(e)
  BY <1>1 DEF Writes, Update
<1>6. entry[c].id \in DOMAIN ops /\ asked[entry[c].id] <= entry[c].pre
      /\ entry[c].pre < seen[c] /\ seen[c] <= boot
  BY <1>1, Prepared, HasBoot DEF RebootInv, ClientOK, Fresh, Proved
<1> HIDE DEF e, done
<1>7. tf' \in [Client -> Entry] /\ (\A d \in Client : d # c => tf'[d] = tf[d])
      /\ tf'[c] \in {done, tf[c]}
  BY <1>1, <1>3, <1>4
<1>8. /\ Types' /\ JournalOK' /\ Grown
      /\ \A d \in Client : ClientOK(d)'
      /\ lost' = 0 => OnceOK'
  BY <1>1, <1>2, <1>5, <1>7, WriteEnds DEF Fresh
<1>9. \A d \in Client : StateOK(d)'
  <2>1. ASSUME tf'[c] = done PROVE StateOK(c)'
    BY <1>1, <1>4, <1>6, <1>8, <2>1 DEF StateOK, Grown
  <2>2. ASSUME NEW d \in Client, tf'[d] = tf[d] PROVE StateOK(d)'
    BY <1>8, <2>2, StateKept
  <2> QED BY <1>7, <2>1, <2>2
<1> QED BY <1>8, <1>9 DEF RebootInv

\* A completion that is lost.
LEMMA CompleteFailsKeeps ==
    ASSUME RebootInv, NEW c \in Client, CompleteFails(c)
    PROVE  RebootInv'
<1> DEFINE e == [File(c, Completed) EXCEPT !.post = seen[c]]
<1>1. /\ pc[c] = "complete" /\ Return(c, "error") /\ Writes(e)
      /\ UNCHANGED <<hostVars, history>> /\ lost' = lost /\ tf' = tf
  BY DEF CompleteFails, Fault, Writes, Update
<1>2. GoodEntry(c, e)
  BY <1>1, GoodFilePost DEF Proved
<1> HIDE DEF e
<1>3. tf' \in [Client -> Entry]
  BY <1>1 DEF RebootInv, Types
<1>4. /\ Types' /\ JournalOK' /\ Grown
      /\ \A d \in Client : ClientOK(d)'
      /\ lost' = 0 => OnceOK'
  BY <1>1, <1>2, <1>3, WriteEnds DEF Fresh
<1>5. \A d \in Client : StateOK(d)'
  BY <1>1, <1>4, StateKept
<1> QED BY <1>4, <1>5 DEF RebootInv

-----------------------------------------------------------------------------
(* The steps that leave the journal alone. *)

\* The journal is as good as it was, in a later boot too.
LEMMA QuietJournal ==
    ASSUME RebootInv, UNCHANGED <<ops, cur, asked>>, boot' \in {boot, boot + 1},
           issued' \in Seq(Nat), Len(issued') = Len(issued)
    PROVE  JournalOK' /\ Grown
<1>1. /\ OpsOK /\ (\A i \in DOMAIN ops : FileOK(i)) /\ cur \in [Request -> Entry]
      /\ (\A n \in Request : CurOK(n)) /\ boot \in Nat \ {0}
  BY DEF RebootInv, JournalOK, Types
<1>2. boot' \in Nat \ {0} /\ boot <= boot'
  BY <1>1
<1>3. Grown
  BY <1>2 DEF Grown
<1>4. ASSUME NEW e \in Entry, EntryOK(e) PROVE EntryOK(e)'
  <2>1. e.pre \in Nat
    BY DEF Entry
  <2> QED BY <1>1, <1>2, <1>4, <2>1, OpsLengths DEF EntryOK
<1>5. \A i \in DOMAIN ops' : FileOK(i)'
  <2>1. ASSUME NEW i \in DOMAIN ops PROVE FileOK(i)'
    <3>1. ops[i] \in Entry /\ FileOK(i) /\ asked[i] \in Nat
      BY <1>1, OpsLengths
    <3>2. EntryOK(ops[i])'
      BY <1>4, <3>1 DEF FileOK
    <3> QED BY <1>1, <1>2, <3>1, <3>2 DEF FileOK
  <2> QED BY <2>1
<1>6. \A n \in Request : CurOK(n)'
  <2>1. ASSUME NEW n \in Request PROVE CurOK(n)'
    <3>1. cur[n] \in Entry /\ CurOK(n)
      BY <1>1
    <3>2. EntryOK(cur[n])'
      BY <1>4, <3>1 DEF CurOK
    <3> QED BY <3>1, <3>2 DEF CurOK
  <2> QED BY <2>1
<1> QED BY <1>1, <1>3, <1>5, <1>6 DEF JournalOK, OpsOK

\* Nor is a second command possible when nobody comes nearer to it.
LEMMA QuietOnce ==
    ASSUME RebootInv, OnceOK, UNCHANGED <<ops, cur, issued>>,
           \A d \in Client :
              /\ pc'[d] \in PreIssue => lease' = d
              /\ pc'[d] \in PreIssue \ {"prepare"} =>
                    pc[d] \in PreIssue \ {"prepare"} /\ entry'[d].id = entry[d].id
              /\ pc'[d] = "issue" => pc[d] = "issue" /\ entry'[d].id = entry[d].id
    PROVE  OnceOK'
<1>1. ASSUME NEW i \in DOMAIN ops, Past(i) PROVE Past(i)'
  BY <1>1 DEF Past
<1> QED BY <1>1 DEF OnceOK

\* A step that only moves c, and touches neither the journal nor the lease.
LEMMA MoveKeeps ==
    ASSUME RebootInv, NEW c \in Client,
           UNCHANGED <<ops, cur, asked, issued, hostVars, tf, lost>>, Types',
           \A d \in Client : d # c => Kept(d),
           ClientOK(c)',
           OnceOK => \A d \in Client : pc'[d] \in PreIssue => lease' = d,
           pc'[c] \in PreIssue \ {"prepare"} =>
              pc[c] \in PreIssue \ {"prepare"} /\ entry'[c].id = entry[c].id,
           pc'[c] # "issue"
    PROVE  RebootInv'
<1>1. JournalOK' /\ Grown
  BY QuietJournal DEF RebootInv, JournalOK, OpsOK, hostVars
<1>2. \A d \in Client : ClientOK(d)' /\ StateOK(d)'
  BY <1>1, ClientKept, StateKept
<1>3. lost' = 0 => OnceOK'
  BY QuietOnce DEF RebootInv, Kept
<1> QED BY <1>1, <1>2, <1>3 DEF RebootInv

\* A request arrives, in the process there is or in a new one.
LEMMA ApplyKeeps ==
    ASSUME RebootInv, NEW c \in Client, NEW r \in Request, applyPlan(c, r)
    PROVE  RebootInv'
<1>1. /\ pc[c] = "idle" /\ EnterProcess(c) /\ UNCHANGED <<ops, cur, asked, issued, hostVars, tf, lost>>
      /\ UNCHANGED <<lease, entry, seen>> /\ UNCHANGED <<boot, up, machine, pending>>
  BY DEF applyPlan, journalVars, history, counters, hostVars
<1>2. pc \in [Client -> Label] /\ req \in [Client -> Request \cup {None}]
      /\ result \in [Client -> {"ok", "error", "running"}]
  BY DEF RebootInv, Types
<1>3. \/ UNCHANGED <<pc, req>> /\ result' = [result EXCEPT ![c] = "ok"]
      \/ /\ req' = [req EXCEPT ![c] = r] /\ result' = [result EXCEPT ![c] = "running"]
         /\ pc' = [pc EXCEPT ![c] = "lease"]
  BY DEF applyPlan, Goto
<1>4. /\ pc' \in [Client -> Label] /\ req' \in [Client -> Request \cup {None}]
      /\ result' \in [Client -> {"ok", "error", "running"}]
      /\ pc'[c] \in {"idle", "lease"} /\ (pc'[c] # "idle" => req'[c] \in Request)
      /\ \A d \in Client : d # c => pc'[d] = pc[d] /\ req'[d] = req[d]
  BY <1>1, <1>2, <1>3 DEF Label, Fresh
<1>5. proc' \in [Client -> Nat] /\ Newest'
  BY <1>1, NewProcess DEF EnterProcess, RebootInv, Types, Newest
<1>6. Types'
  BY <1>1, <1>4, <1>5 DEF RebootInv, Types
<1>7. ClientOK(c)'
  <2>1. EntryOK(entry[c])'
    BY <1>1 DEF RebootInv, ClientOK, EntryOK
  <2> QED
    BY <1>1, <1>4, <2>1 DEF ClientOK, Fresh, Proved
<1>8. \A d \in Client : d # c => Kept(d)
  BY <1>1, <1>4 DEF Kept
<1>9. OnceOK => \A d \in Client : pc'[d] \in PreIssue => lease' = d
  BY <1>1, <1>4 DEF OnceOK, PreIssue
<1> QED
  BY <1>1, <1>4, <1>6, <1>7, <1>8, <1>9, MoveKeeps DEF PreIssue

\* The lease is acquired, or the request fails without it.
LEMMA AcquireKeeps ==
    ASSUME RebootInv, NEW c \in Client, acquireOperationLease(c)
    PROVE  RebootInv'
<1>1. pc[c] = "lease" /\ UNCHANGED <<ops, cur, asked, issued, hostVars, tf>> /\ UNCHANGED <<boot, up, machine, pending>>
  BY DEF acquireOperationLease, journalVars, history, hostVars
<1>2. pc \in [Client -> Label] /\ None \notin Client /\ ClientOK(c)
  BY RebootAssumption DEF RebootInv, Types, RebootAssumption
<1>3. CASE lease = None /\ lease' = c /\ Goto(c, "prepare") /\ UNCHANGED <<proc, req, entry, seen, result, counters>>
  <2>1. /\ pc' \in [Client -> Label] /\ pc'[c] = "prepare" /\ lost' = lost
        /\ \A d \in Client : d # c => pc'[d] = pc[d]
    BY <1>2, <1>3 DEF Goto, Label, PreIssue, counters
  <2>2. Types'
    BY <1>1, <1>3, <2>1 DEF RebootInv, Types, Newest
  <2>3. ClientOK(c)'
    BY <1>1, <1>2, <1>3, <2>1 DEF ClientOK, EntryOK, Fresh, Proved
  <2>4. OnceOK => \A d \in Client : pc'[d] \in PreIssue => lease' = d
    BY <1>2, <1>3, <2>1 DEF OnceOK
  <2>5. \A d \in Client : d # c => Kept(d)
    BY <1>3, <2>1 DEF Kept
  <2> QED
    BY <1>1, <2>1, <2>2, <2>3, <2>4, <2>5, MoveKeeps
<1>4. CASE Fault /\ Return(c, "error")
  <2>1. ReturnAll({c}, "error") /\ proc' = proc /\ lost' = lost
    BY <1>4 DEF Return, Fault
  <2>2. Types'
    BY <1>1, <2>1, Returned DEF RebootInv, Types, Newest
  <2>3. pc'[c] = "idle" /\ ClientOK(c)' /\ \A d \in Client : d # c => Kept(d)
    BY <2>1, Returned, ClientEnded
  <2>4. OnceOK => \A d \in Client : pc'[d] \in PreIssue => lease' = d
    BY <1>2, <2>1, <2>3, Returned DEF OnceOK, Kept, PreIssue
  <2> QED
    BY <1>1, <2>1, <2>2, <2>3, <2>4, MoveKeeps DEF PreIssue
<1> QED
  BY <1>3, <1>4 DEF acquireOperationLease

\* The precheck reads the boot that the proof is compared with.
LEMMA ReadPreProofKeeps ==
    ASSUME RebootInv, NEW c \in Client, ReadPreProof(c)
    PROVE  RebootInv'
<1>1. pc[c] = "precheck"
  BY DEF ReadPreProof
<1>2. CASE /\ entry' = [entry EXCEPT ![c].stable = machine, ![c].pre = boot]
           /\ Goto(c, "markPrecheck")
           /\ UNCHANGED <<readyVars, hostVars, journalVars, lease, proc, req, seen, tf, result, runs, counters, history>>
  <2>1. /\ UNCHANGED <<ops, cur, asked, issued, hostVars, tf, lost, lease, proc, req, seen, result>>
        /\ UNCHANGED <<boot, up, machine, pending>>
    BY <1>2 DEF journalVars, history, counters, hostVars
  <2>2. pc \in [Client -> Label] /\ entry \in [Client -> Entry] /\ boot \in Nat \ {0} /\ machine \in Nat
        /\ OpsOK /\ ClientOK(c) /\ (\A i \in DOMAIN ops : FileOK(i))
    BY DEF RebootInv, Types, JournalOK
  <2>3. entry[c] \in Entry /\ entry[c].id # 0 /\ entry[c].id \in DOMAIN ops
    BY <1>1, <2>2 DEF ClientOK, EntryOK, Fresh
  <2>4. /\ entry' \in [Client -> Entry] /\ entry'[c].id = entry[c].id /\ entry'[c].pre = boot
        /\ \A d \in Client : d # c => entry'[d] = entry[d]
    BY <1>2, <2>2, <2>3 DEF Entry
  <2>5. pc' \in [Client -> Label] /\ pc'[c] = "markPrecheck" /\ \A d \in Client : d # c => pc'[d] = pc[d]
    BY <1>2, <2>2 DEF Goto, Label, PreIssue
  <2>6. Types'
    BY <2>1, <2>4, <2>5 DEF RebootInv, Types, Newest
  <2>7. ClientOK(c)'
    <3>1. EntryOK(entry[c])'
      BY <2>1, <2>2, <2>3, <2>4 DEF EntryOK, FileOK
    <3> QED
      BY <1>1, <2>1, <2>2, <2>3, <2>4, <2>5, <3>1 DEF ClientOK, Fresh, Proved
  <2>8. OnceOK => \A d \in Client : pc'[d] \in PreIssue => lease' = d
    BY <1>1, <2>1, <2>5 DEF OnceOK, PreIssue
  <2>9. \A d \in Client : d # c => Kept(d)
    BY <2>1, <2>4, <2>5 DEF Kept
  <2> QED
    BY <1>1, <2>1, <2>4, <2>5, <2>6, <2>7, <2>8, <2>9, MoveKeeps DEF PreIssue
<1>3. CASE Fault /\ failReboot(c)
  BY <1>1, <1>3, Fails DEF Fault, Fresh
<1> QED
  BY <1>2, <1>3 DEF ReadPreProof

\* The command is sent: once, unless its answer is lost.
LEMMA IssueKeeps ==
    ASSUME RebootInv, NEW c \in Client, issueRebootCommand(c)
    PROVE  RebootInv'
<1> DEFINE i == entry[c].id
<1>1. pc[c] = "issue"
  BY DEF issueRebootCommand
<1>2. i \in DOMAIN ops /\ OpsOK /\ pc \in [Client -> Label] /\ lost \in Nat /\ ClientOK(c)
  BY <1>1, Prepared DEF RebootInv, Types, JournalOK, Fresh
<1>3. ASSUME /\ pending' = TRUE /\ issued' = [issued EXCEPT ![i] = @ + 1]
             /\ UNCHANGED <<boot, up, machine, journalVars, lease, proc, req, entry, seen, tf, result, asked>>
      PROVE  /\ issued' \in Seq(Nat) /\ Len(issued') = Len(issued)
             /\ issued'[i] = issued[i] + 1 /\ \A j \in DOMAIN ops : j # i => issued'[j] = issued[j]
             /\ JournalOK' /\ Grown
  <2>1. issued[i] + 1 \in Nat /\ i \in 1 .. Len(issued) /\ issued \in Seq(Nat) /\ DOMAIN ops = 1 .. Len(issued)
    BY <1>2, OpsLengths DEF OpsOK
  <2>2. issued' \in Seq(Nat) /\ Len(issued') = Len(issued)
        /\ \A j \in 1 .. Len(issued) : issued'[j] = IF j = i THEN issued[i] + 1 ELSE issued[j]
    <3> DEFINE v == issued[i] + 1
    <3>1. issued' = [issued EXCEPT ![i] = v]
      BY <1>3
    <3> HIDE DEF v
    <3>2. /\ [issued EXCEPT ![i] = v] \in Seq(Nat)
          /\ Len([issued EXCEPT ![i] = v]) = Len(issued)
          /\ \A j \in 1 .. Len(issued) : [issued EXCEPT ![i] = v][j] = IF j = i THEN v ELSE issued[j]
      BY <2>1, ExceptSeq DEF v
    <3> QED BY <3>1, <3>2 DEF v
  <2>3. UNCHANGED <<ops, cur, asked>> /\ boot' \in {boot, boot + 1}
    BY <1>3 DEF journalVars
  <2> QED BY <2>1, <2>2, <2>3, QuietJournal
<1>4. CASE /\ pending' = TRUE /\ issued' = [issued EXCEPT ![i] = @ + 1]
           /\ Goto(c, "reset")
           /\ UNCHANGED <<boot, up, machine, journalVars, lease, proc, req, entry, seen, tf, result, counters, asked>>
  <2>1. /\ JournalOK' /\ Grown /\ issued'[i] = issued[i] + 1
        /\ \A j \in DOMAIN ops : j # i => issued'[j] = issued[j]
    BY <1>3, <1>4
  <2>2. pc' \in [Client -> Label] /\ pc'[c] = "reset" /\ (\A d \in Client : d # c => pc'[d] = pc[d]) /\ lost' = lost
    BY <1>2, <1>4 DEF Goto, Label, counters
  <2>3. Types'
    BY <1>4, <2>2 DEF RebootInv, Types, Newest
  <2>4. ClientOK(c)'
    BY <1>1, <1>2, <1>4, <2>2 DEF ClientOK, EntryOK, Fresh, Proved, journalVars
  <2>5. \A d \in Client : ClientOK(d)' /\ StateOK(d)'
    BY <1>4, <2>1, <2>2, <2>4, ClientKept, StateKept DEF Kept
  <2>6. ASSUME lost' = 0 PROVE OnceOK'
    <3>1. OnceOK
      BY <2>2, <2>6 DEF RebootInv
    <3>2. \A d \in Client : pc'[d] \in PreIssue => lease' = d
      BY <1>4, <2>2, <3>1 DEF OnceOK, PreIssue
    <3>3. issued[i] = 0
      BY <1>1, <1>2, <3>1 DEF OnceOK, Past, PreIssue
    <3>4. \A n \in Request : cur[n].id = i => cur[n].phase >= RebootIssued
      BY <1>1, <3>1 DEF OnceOK
    <3>5. \A d \in Client : d # c => pc[d] \notin PreIssue
      BY <1>1, <3>1 DEF OnceOK, PreIssue
    <3>6. Past(i)'
      BY <1>4, <2>2, <3>4, <3>5 DEF Past, PreIssue, journalVars
    <3>7. ASSUME NEW j \in DOMAIN ops, Past(j) PROVE Past(j)'
      BY <1>4, <2>2, <3>5, <3>7 DEF Past, PreIssue, journalVars
    <3>8. \A j \in DOMAIN ops' : issued'[j] = 0 \/ (issued'[j] = 1 /\ Past(j)')
      BY <1>4, <2>1, <3>1, <3>3, <3>6, <3>7 DEF OnceOK, journalVars
    <3> QED
      BY <1>1, <2>2, <3>2, <3>5, <3>8 DEF OnceOK, PreIssue
  <2> QED BY <2>1, <2>3, <2>5, <2>6 DEF RebootInv
<1>5. CASE /\ Loss /\ pending' = TRUE /\ issued' = [issued EXCEPT ![i] = @ + 1]
           /\ UNCHANGED <<boot, up, machine, journalVars, lease, clientVars, asked>>
  <2>1. UNCHANGED <<proc, pc, req, entry, seen, tf, result>> /\ lost' = lost + 1 /\ lost' \in Nat /\ lost' # 0
    BY <1>2, <1>5 DEF clientVars, Loss
  <2>2. JournalOK' /\ Grown
    BY <1>3, <1>5, <2>1
  <2>3. Types'
    BY <1>5, <2>1 DEF RebootInv, Types, Newest
  <2>4. \A d \in Client : ClientOK(d)' /\ StateOK(d)'
    BY <2>1, <2>2, ClientKept, StateKept DEF Kept
  <2> QED BY <2>1, <2>2, <2>3, <2>4 DEF RebootInv
<1>6. CASE Fault /\ failReboot(c)
  BY <1>1, <1>6, Fails DEF Fault, Fresh
<1> QED
  BY <1>4, <1>5, <1>6 DEF issueRebootCommand

\* A step that moves nobody.
LEMMA StayKeeps ==
    ASSUME RebootInv, UNCHANGED <<ops, cur, asked, issued, tf, pc, req, entry, seen>>,
           boot' \in {boot, boot + 1}, Types',
           lost' = 0 => lost = 0 /\ \A d \in Client : pc[d] \in PreIssue => lease' = d
    PROVE  RebootInv'
<1>1. JournalOK' /\ Grown
  BY QuietJournal DEF RebootInv, JournalOK, OpsOK
<1>2. \A d \in Client : ClientOK(d)' /\ StateOK(d)'
  BY <1>1, ClientKept, StateKept DEF Kept
<1>3. lost' = 0 => OnceOK'
  BY QuietOnce DEF RebootInv
<1> QED BY <1>1, <1>2, <1>3 DEF RebootInv

\* An executor that ends under a request which has not sent its command is a loss.
LEMMA ExecutorEnds ==
    ASSUME RebootInv, NEW cs, EndExecutor(cs)
    PROVE  /\ lease' \in Client \cup {None} /\ lost' \in Nat
           /\ lost' = 0 => lost = 0 /\ \A d \in Client : pc[d] \in PreIssue => lease' = d
<1>1. lost \in Nat /\ lease \in Client \cup {None}
  BY DEF RebootInv, Types
<1>2. lease' \in Client \cup {None} /\ lost' \in Nat /\ (lost' = 0 => lost = 0)
  BY <1>1 DEF EndExecutor
<1>3. ASSUME lost' = 0, NEW d \in Client, pc[d] \in PreIssue PROVE lease' = d
  <2>1. lease = d
    BY <1>2, <1>3 DEF RebootInv, OnceOK
  <2> QED
    BY <1>1, <1>3, <2>1 DEF EndExecutor, PreIssue
<1> QED BY <1>2, <1>3

\* The session is reset, or its connection closed.
LEMMA ResetKeeps ==
    ASSUME RebootInv, NEW c \in Client, resetSessionSafely(c) \/ reconnectSessionForReboot(c)
    PROVE  RebootInv'
<1>1. CASE resetSessionSafely(c)
  <2>1. /\ pc[c] = "reset" /\ EndExecutor(InProcess(proc[c])) /\ pc' = [pc EXCEPT ![c] = "markWaiting"]
        /\ UNCHANGED <<ops, cur, asked, issued, tf, req, entry, seen, proc, result, boot, up, machine, pending>>
    BY <1>1 DEF resetSessionSafely, Goto, journalVars, history, hostVars
  <2>2. pc \in [Client -> Label] /\ ClientOK(c)
    BY DEF RebootInv, Types
  <2>3. pc' \in [Client -> Label] /\ pc'[c] = "markWaiting" /\ \A d \in Client : d # c => pc'[d] = pc[d]
    BY <2>1, <2>2 DEF Label
  <2>4. Types'
    BY <2>1, <2>3, ExecutorEnds DEF RebootInv, Types, Newest
  <2>5. JournalOK' /\ Grown
    BY <2>1, QuietJournal DEF RebootInv, JournalOK, OpsOK
  <2>6. ClientOK(c)'
    BY <2>1, <2>2, <2>3 DEF ClientOK, EntryOK, Fresh, Proved
  <2>7. \A d \in Client : ClientOK(d)' /\ StateOK(d)'
    BY <2>1, <2>3, <2>5, <2>6, ClientKept, StateKept DEF Kept
  <2>8. lost' = 0 => OnceOK'
    BY <2>1, <2>3, ExecutorEnds, QuietOnce DEF RebootInv, PreIssue
  <2> QED BY <2>4, <2>5, <2>7, <2>8 DEF RebootInv
<1>2. CASE reconnectSessionForReboot(c)
  <2>1. /\ EndExecutor(InProcess(proc[c]))
        /\ UNCHANGED <<ops, cur, asked, issued, tf, pc, req, entry, seen, proc, result, boot, up, machine, pending>>
    BY <1>2 DEF reconnectSessionForReboot, journalVars, history, hostVars, clientVars
  <2>2. Types'
    BY <2>1, ExecutorEnds DEF RebootInv, Types, Newest
  <2> QED BY <2>1, <2>2, ExecutorEnds, StayKeeps
<1> QED BY <1>1, <1>2

\* The proof of the reboot is a boot after the one of the precheck.
LEMMA ReadPostProofKeeps ==
    ASSUME RebootInv, NEW c \in Client, ReadPostProof(c)
    PROVE  RebootInv'
<1>1. pc[c] = "wait"
  BY DEF ReadPostProof
<1>2. CASE /\ validateRebootTransition(c)
           /\ seen' = [seen EXCEPT ![c] = boot]
           /\ Goto(c, CASE entry[c].phase < PostReconnectValidated -> "markValidated"
                        [] entry[c].phase < ExecutorRebootstrapped -> "settle"
                        [] OTHER -> "complete")
           /\ UNCHANGED <<hostVars, journalVars, lease, proc, req, entry, tf, result, counters, history>>
  <2>1. UNCHANGED <<ops, cur, asked, issued, hostVars, tf, lost, boot, up, machine, pending, lease, proc, req, entry, result>>
    BY <1>2 DEF journalVars, history, counters, hostVars
  <2>2. pc \in [Client -> Label] /\ seen \in [Client -> Nat] /\ ClientOK(c) /\ boot \in Nat
    BY DEF RebootInv, Types
  <2>3. PICK l \in Proved : pc' = [pc EXCEPT ![c] = l]
    <3>1. entry[c].phase \in Nat
      BY DEF RebootInv, Types, Entry
    <3> DEFINE l == CASE entry[c].phase < PostReconnectValidated -> "markValidated"
                      [] entry[c].phase < ExecutorRebootstrapped -> "settle"
                      [] OTHER -> "complete"
    <3>2. l \in Proved
      BY <3>1 DEF Proved
    <3>3. pc' = [pc EXCEPT ![c] = l]
      BY <1>2 DEF Goto
    <3> QED BY <3>2, <3>3
  <2>4. pc' \in [Client -> Label] /\ pc'[c] \in Proved /\ \A d \in Client : d # c => pc'[d] = pc[d]
    BY <2>2, <2>3 DEF Label
  <2>5. seen' \in [Client -> Nat] /\ seen'[c] = boot /\ \A d \in Client : d # c => seen'[d] = seen[d]
    BY <1>2, <2>2
  <2>6. entry[c].pre < boot
    <3>1. entry[c] \in Entry /\ (entry[c].pre = 0 \/ entry[c].pre <= boot)
      BY <1>1, Prepared DEF Fresh
    <3>2. entry[c].pre \in Nat /\ entry[c].pre # boot
      BY <1>2, <3>1 DEF Entry, validateRebootTransition
    <3>3. entry[c].pre # 0
      BY <1>1, HasBoot DEF Fresh
    <3> QED BY <2>2, <3>1, <3>2, <3>3
  <2>7. Types'
    BY <2>1, <2>4, <2>5 DEF RebootInv, Types, Newest
  <2>8. ClientOK(c)'
    <3>1. EntryOK(entry[c])'
      BY <2>1, <2>2 DEF ClientOK, EntryOK
    <3> QED
      BY <1>1, <2>1, <2>2, <2>5, <2>6, <3>1 DEF ClientOK, Fresh
  <2>9. OnceOK => \A d \in Client : pc'[d] \in PreIssue => lease' = d
    BY <2>1, <2>4 DEF OnceOK, PreIssue, Proved
  <2>10. \A d \in Client : d # c => Kept(d)
    BY <2>1, <2>4, <2>5 DEF Kept
  <2> QED
    BY <2>1, <2>4, <2>7, <2>8, <2>9, <2>10, MoveKeeps DEF PreIssue, Proved
<1>3. CASE failReboot(c) /\ UNCHANGED counters
  BY <1>1, <1>3, Fails DEF counters, Fresh
<1> QED
  BY <1>2, <1>3 DEF ReadPostProof

-----------------------------------------------------------------------------
(* Prepare: an entry is resumed, or a new operation begun. *)

\* A new entry has the next number, and no boot id.
LEMMA NewEntryType ==
    ASSUME RebootInv, NEW c \in Client, NEW n \in Request
    PROVE  LET e == newEntry(n, proc[c])
           IN  /\ e \in Entry /\ e.id = Len(ops) + 1 /\ e.name = n /\ e.pre = 0 /\ e.phase = Planned
               /\ e.id \in Nat \ {0} /\ e.id \notin DOMAIN ops
<1>1. proc[c] \in Nat /\ Len(ops) \in Nat /\ DOMAIN ops = 1 .. Len(ops)
  BY OpsLengths DEF RebootInv, Types, JournalOK
<1> DEFINE e == newEntry(n, proc[c])
<1>2. e \in Entry /\ e.id = Len(ops) + 1 /\ e.name = n /\ e.pre = 0 /\ e.phase = Planned
  <2> DEFINE e1 == [NoEntry EXCEPT !.id = Len(ops) + 1]
             e2 == [e1 EXCEPT !.name = n]
             e3 == [e2 EXCEPT !.by = proc[c]]
  <2>1. e = e3
    BY DEF newEntry
  <2>2. e1 \in Entry /\ e1.id = Len(ops) + 1 /\ e1.pre = 0 /\ e1.phase = Planned
    BY <1>1, NoEntryType DEF Entry
  <2> HIDE DEF e1
  <2>3. e2 \in Entry /\ e2.id = Len(ops) + 1 /\ e2.name = n /\ e2.pre = 0 /\ e2.phase = Planned
    BY <2>2 DEF Entry
  <2> HIDE DEF e2
  <2>4. e3 \in Entry /\ e3.id = Len(ops) + 1 /\ e3.name = n /\ e3.pre = 0 /\ e3.phase = Planned
    BY <1>1, <2>3 DEF Entry
  <2> QED BY <2>1, <2>4
<1> HIDE DEF e
<1>3. e.id \in Nat \ {0} /\ e.id \notin DOMAIN ops
  BY <1>1, <1>2
<1> QED
  BY <1>2, <1>3 DEF e

\* The file of the new operation is written, the one of its name too or, when the
\* executor dies in between, not.
LEMMA CreateJournal ==
    ASSUME RebootInv, NEW c \in Client, NEW n \in Request,
           ops' = Append(ops, newEntry(n, proc[c])),
           issued' = Append(issued, 0), asked' = Append(asked, boot),
           cur' = [cur EXCEPT ![n] = newEntry(n, proc[c])] \/ cur' = [cur EXCEPT ![n] = NoEntry],
           boot' = boot
    PROVE  /\ JournalOK' /\ Grown
           /\ DOMAIN ops' = DOMAIN ops \cup {Len(ops) + 1}
           /\ \A i \in DOMAIN ops : issued'[i] = issued[i]
           /\ issued'[Len(ops) + 1] = 0
<1> DEFINE e == newEntry(n, proc[c])  k == Len(ops) + 1
<1>1. /\ e \in Entry /\ e.id = k /\ e.name = n /\ e.pre = 0 /\ e.phase = Planned
      /\ e.id \in Nat \ {0} /\ e.id \notin DOMAIN ops
  BY NewEntryType
<1>2. /\ OpsOK /\ (\A i \in DOMAIN ops : FileOK(i)) /\ cur \in [Request -> Entry]
      /\ (\A m \in Request : CurOK(m)) /\ boot \in Nat \ {0}
  BY DEF RebootInv, JournalOK, Types
<1>3. Len(ops) \in Nat /\ DOMAIN ops = 1 .. Len(ops)
  BY <1>2, OpsLengths
<1> HIDE DEF e
<1>4. /\ ops' \in Seq(Entry) /\ Len(ops') = Len(ops) + 1
      /\ (\A i \in 1 .. Len(ops) : ops'[i] = ops[i]) /\ ops'[k] = e
  <2>1. ops' = Append(ops, e)
    BY DEF e
  <2> QED BY <1>1, <1>2, <2>1, AppendProperties DEF OpsOK
<1>5. /\ issued' \in Seq(Nat) /\ Len(issued') = Len(ops) + 1
      /\ (\A i \in 1 .. Len(ops) : issued'[i] = issued[i]) /\ issued'[k] = 0
  BY <1>2, AppendProperties DEF OpsOK
<1>6. /\ asked' \in Seq(Nat) /\ Len(asked') = Len(ops) + 1
      /\ (\A i \in 1 .. Len(ops) : asked'[i] = asked[i]) /\ asked'[k] = boot
  BY <1>2, AppendProperties DEF OpsOK
<1>7. DOMAIN ops' = 1 .. k
  BY <1>4, LenProperties
<1>8. OpsOK'
  BY <1>4, <1>5, <1>6 DEF OpsOK
<1>9. Grown
  BY <1>2, <1>3, <1>4, <1>6, <1>7 DEF Grown
<1>10. ASSUME NEW i \in DOMAIN ops' PROVE FileOK(i)'
  <2>1. CASE i = k
    BY <1>1, <1>2, <1>4, <1>6, <1>7, <2>1 DEF FileOK, EntryOK
  <2>2. CASE i # k
    <3>1. i \in DOMAIN ops
      BY <1>3, <1>7, <2>2
    <3> QED
      BY <1>2, <1>3, <1>4, <1>6, <1>7, <3>1 DEF FileOK, EntryOK
  <2> QED BY <2>1, <2>2
<1>11. cur' \in [Request -> Entry] /\ (\A m \in Request : m # n => cur'[m] = cur[m])
       /\ cur'[n] \in {e, NoEntry}
  BY <1>1, <1>2, NoEntryType DEF e
<1>12. ASSUME NEW m \in Request PROVE CurOK(m)'
  <2>1. CASE m # n
    <3>1. CurOK(m) /\ cur'[m] = cur[m] /\ (cur[m].id # 0 => cur[m].id \in DOMAIN ops)
      BY <1>2, <1>11, <2>1 DEF CurOK, EntryOK
    <3> QED
      BY <1>3, <1>4, <1>6, <1>7, <3>1 DEF CurOK, EntryOK
  <2>2. CASE cur'[m] = NoEntry
    BY <2>2, NoEntryType DEF CurOK, EntryOK
  <2>3. CASE m = n /\ cur'[n] = e
    BY <1>1, <1>3, <1>4, <1>7, <2>3 DEF CurOK, EntryOK
  <2> QED BY <1>11, <2>1, <2>2, <2>3
<1> QED
  BY <1>3, <1>5, <1>7, <1>8, <1>9, <1>10, <1>11, <1>12 DEF JournalOK

\* Nobody is past a new operation, and nobody had its number.
LEMMA CreateOnce ==
    ASSUME RebootInv, OnceOK, NEW c \in Client, pc[c] = "prepare", NEW n \in Request,
           DOMAIN ops' = DOMAIN ops \cup {Len(ops) + 1},
           \A i \in DOMAIN ops : issued'[i] = issued[i], issued'[Len(ops) + 1] = 0,
           cur' = [cur EXCEPT ![n] = newEntry(n, proc[c])] \/ cur' = [cur EXCEPT ![n] = NoEntry],
           lease' = lease, \A d \in Client : d # c => Kept(d),
           \/ Kept(c)
           \/ pc'[c] = "precheck" /\ entry'[c] = newEntry(n, proc[c])
    PROVE  OnceOK'
<1> DEFINE e == newEntry(n, proc[c])
<1>1. e.id \notin DOMAIN ops /\ e.id # 0
  BY NewEntryType
<1>2. cur \in [Request -> Entry]
  BY DEF RebootInv, JournalOK
<1>3. \A m \in Request : cur'[m] = cur[m] \/ cur'[m] = NoEntry \/ cur'[m] = e
  BY <1>2
<1>4. lease = c /\ \A d \in Client : d # c => pc[d] \notin PreIssue
  BY DEF OnceOK, PreIssue
<1> HIDE DEF e
<1>5. \A d \in Client : pc'[d] \in PreIssue => d = c
  BY <1>4 DEF Kept
<1>6. ASSUME NEW i \in DOMAIN ops, Past(i), i # 0 PROVE Past(i)'
  <2>1. \A m \in Request : cur'[m].id = i => cur'[m].phase >= RebootIssued
    BY <1>1, <1>3, <1>6, NoEntryType DEF Past
  <2>2. ASSUME NEW d \in Client, entry'[d].id = i PROVE pc'[d] \notin PreIssue \ {"prepare"}
    BY <1>1, <1>5, <1>6, <2>2 DEF Past, Kept, e
  <2> QED BY <2>1, <2>2 DEF Past
<1>7. 0 \notin DOMAIN ops
  BY OpsLengths DEF RebootInv, JournalOK
<1>8. \A i \in DOMAIN ops' : issued'[i] = 0 \/ (issued'[i] = 1 /\ Past(i)')
  BY <1>6, <1>7 DEF OnceOK
<1>9. \A d \in Client : pc'[d] # "issue"
  BY <1>5 DEF PreIssue, Kept
<1> QED
  BY <1>4, <1>5, <1>8, <1>9 DEF OnceOK

\* The step at which an entry is taken up.
LEMMA ResumeLabel ==
    ASSUME NEW p \in 0 .. 7
    PROVE  /\ p = Planned => ResumeAt(p) = "precheck"
           /\ p # Planned => ResumeAt(p) \in {"select", "markIssued", "reset", "wait"}
           /\ p >= RebootIssued => ResumeAt(p) \in {"reset", "wait"}
BY DEF ResumeAt

\* Prepare, resumed or new.
LEMMA PrepareKeeps ==
    ASSUME RebootInv, NEW c \in Client, Prepare(c)
    PROVE  RebootInv'
<1> DEFINE n == req[c]
<1>1. pc[c] = "prepare" /\ UNCHANGED <<hostVars, tf, boot, up, machine, pending>>
  BY DEF Prepare, hostVars
<1>2. n \in Request /\ pc \in [Client -> Label] /\ entry \in [Client -> Entry] /\ cur[n] \in Entry /\ CurOK(n)
      /\ ClientOK(c)
  BY <1>1 DEF RebootInv, Types, JournalOK, ClientOK
<1>3. CASE /\ readEntry(c, cur[n]) /\ cur[n].phase # Failed
           /\ entry' = [entry EXCEPT ![c] = cur[n]]
           /\ Goto(c, ResumeAt(cur[n].phase))
           /\ UNCHANGED <<journalVars, history, lease, proc, req, seen, result, counters>>
  <2>1. UNCHANGED <<ops, cur, asked, issued, lost, lease, proc, req, seen, result>>
    BY <1>3 DEF journalVars, history, counters
  <2>2. cur[n].id # 0 /\ cur[n].phase \in 0 .. 7
    BY <1>2, <1>3 DEF readEntry, Entry
  <2> DEFINE l == ResumeAt(cur[n].phase)
  <2>3. /\ cur[n].phase = Planned => l = "precheck"
        /\ cur[n].phase # Planned => l \in {"select", "markIssued", "reset", "wait"}
        /\ cur[n].phase >= RebootIssued => l \in {"reset", "wait"}
    BY <2>2, ResumeLabel
  <2>4. pc' = [pc EXCEPT ![c] = l]
    BY <1>3 DEF Goto
  <2> HIDE DEF l
  <2>5. l \in {"precheck", "select", "markIssued", "reset", "wait"}
    BY <2>3
  <2>6. /\ pc' \in [Client -> Label] /\ pc'[c] = l /\ entry'[c] = cur[n] /\ entry' \in [Client -> Entry]
        /\ \A d \in Client : d # c => pc'[d] = pc[d] /\ entry'[d] = entry[d]
    BY <1>2, <1>3, <2>4, <2>5 DEF Label, PreIssue
  <2>7. Types'
    BY <1>1, <2>1, <2>6 DEF RebootInv, Types, Newest
  <2>8. JournalOK' /\ Grown
    BY <1>1, <2>1, QuietJournal DEF RebootInv, JournalOK, OpsOK
  <2>9. ClientOK(c)'
    <3>1. EntryOK(cur[n])'
      BY <1>1, <1>2, <2>1 DEF CurOK, EntryOK
    <3>2. l # "precheck" => cur[n].pre # 0 /\ ops[cur[n].id].pre # 0
      BY <1>2, <1>3, <2>2, <2>3 DEF CurOK
    <3> QED
      BY <1>2, <2>1, <2>2, <2>5, <2>6, <3>1, <3>2 DEF ClientOK, Fresh, Proved
  <2>10. \A d \in Client : ClientOK(d)' /\ StateOK(d)'
    BY <1>1, <2>1, <2>6, <2>8, <2>9, ClientKept, StateKept DEF Kept
  <2>11. ASSUME lost' = 0 PROVE OnceOK'
    <3>1. OnceOK
      BY <2>1, <2>11 DEF RebootInv
    <3>2. \A d \in Client : pc'[d] \in PreIssue => lease' = d
      BY <1>1, <2>1, <2>6, <3>1 DEF OnceOK, PreIssue
    <3>3. ASSUME NEW i \in DOMAIN ops, Past(i) PROVE Past(i)'
      <4>1. cur[n].id = i => l \notin PreIssue
        BY <1>2, <2>3, <3>3 DEF Past, PreIssue
      <4> QED
        BY <2>1, <2>6, <3>3, <4>1 DEF Past
    <3>4. \A i \in DOMAIN ops' : issued'[i] = 0 \/ (issued'[i] = 1 /\ Past(i)')
      BY <2>1, <3>1, <3>3 DEF OnceOK
    <3>5. \A d \in Client : pc'[d] = "issue" => d # c /\ pc[d] = "issue" /\ entry'[d] = entry[d]
      BY <2>5, <2>6
    <3> QED
      BY <2>1, <3>1, <3>2, <3>4, <3>5 DEF OnceOK
  <2> QED BY <2>7, <2>8, <2>10, <2>11 DEF RebootInv
<1>4. CASE Return(c, "error") /\ UNCHANGED <<journalVars, history, counters>>
  <2>1. ReturnAll({c}, "error") /\ UNCHANGED <<proc, ops, cur, asked, issued, lost>>
    BY <1>4 DEF Return, journalVars, history, counters
  <2>2. Types'
    BY <1>1, <2>1, Returned DEF RebootInv, Types, Newest
  <2>3. pc'[c] = "idle" /\ ClientOK(c)' /\ \A d \in Client : d # c => Kept(d)
    BY <2>1, Returned, ClientEnded
  <2>4. OnceOK => \A d \in Client : pc'[d] \in PreIssue => lease' = d
    BY <2>1, <2>3, Returned DEF OnceOK, Kept, PreIssue
  <2> QED
    BY <1>1, <2>1, <2>2, <2>3, <2>4, MoveKeeps DEF PreIssue
<1>5. ASSUME /\ ops' = Append(ops, newEntry(n, proc[c]))
             /\ issued' = Append(issued, 0) /\ asked' = Append(asked, boot)
             /\ \/ /\ cur' = [cur EXCEPT ![n] = newEntry(n, proc[c])]
                   /\ entry' = [entry EXCEPT ![c] = newEntry(n, proc[c])]
                   /\ Goto(c, "precheck")
                   /\ UNCHANGED counters
                \/ /\ Fault
                   /\ cur' = [cur EXCEPT ![n] = NoEntry]
                   /\ UNCHANGED <<entry, pc>>
             /\ UNCHANGED <<lease, proc, req, seen, result>>
      PROVE  RebootInv'
  <2> DEFINE e == newEntry(n, proc[c])
  <2>1. /\ JournalOK' /\ Grown /\ DOMAIN ops' = DOMAIN ops \cup {Len(ops) + 1}
        /\ \A i \in DOMAIN ops : issued'[i] = issued[i]
        /\ issued'[Len(ops) + 1] = 0
    BY <1>1, <1>2, <1>5, CreateJournal
  <2>2. e \in Entry /\ e.id = Len(ops) + 1 /\ e.pre = 0 /\ e.id # 0
    BY <1>2, NewEntryType
  <2> HIDE DEF e
  <2>3. lost' = lost
    BY <1>5 DEF counters, Fault
  <2>4. \/ /\ pc' = [pc EXCEPT ![c] = "precheck"] /\ entry' = [entry EXCEPT ![c] = e]
        \/ UNCHANGED <<pc, entry>>
    BY <1>5 DEF Goto, e
  <2>5. /\ pc' \in [Client -> Label] /\ entry' \in [Client -> Entry]
        /\ \A d \in Client : d # c => Kept(d)
        /\ \/ pc'[c] = "precheck" /\ entry'[c] = e
           \/ Kept(c)
    BY <1>2, <1>5, <2>2, <2>4 DEF Kept, Label, PreIssue
  <2>6. Types'
    BY <1>1, <1>5, <2>3, <2>5 DEF RebootInv, Types, Newest
  <2>7. ASSUME pc'[c] = "precheck", entry'[c] = e PROVE ClientOK(c)'
    BY <1>2, <1>5, <2>1, <2>2, <2>7 DEF ClientOK, EntryOK, Fresh, Proved
  <2>8. \A d \in Client : ClientOK(d)' /\ StateOK(d)'
    BY <1>1, <2>1, <2>5, <2>7, ClientKept, StateKept
  <2>9. lost' = 0 => OnceOK'
    BY <1>1, <1>2, <1>5, <2>1, <2>3, <2>5, CreateOnce DEF RebootInv, e
  <2> QED BY <2>1, <2>6, <2>8, <2>9 DEF RebootInv
<1> QED
  BY <1>3, <1>4, <1>5 DEF Prepare

-----------------------------------------------------------------------------
(* Kills, losses and reboots. *)

\* A killed process takes its requests, and its lease, with it.
LEMMA KillKeeps ==
    ASSUME RebootInv, NEW c \in Client, Kill(c)
    PROVE  RebootInv'
<1> DEFINE cs == InProcess(proc[c])
<1>1. /\ ReturnAll(cs, "error") /\ lost' = lost
      /\ proc' = [d \in Client |-> IF d \in cs THEN newJournalKey ELSE proc[d]]
      /\ UNCHANGED <<boot, up, machine, pending, ops, cur, asked, issued, tf>>
  BY DEF Kill, Fault, hostVars, journalVars, history
<1>2. proc' \in [Client -> Nat] /\ Newest'
  BY <1>1, NewProcess DEF RebootInv, Types
<1> HIDE DEF cs
<1>3. Types'
  BY <1>1, <1>2, Returned DEF RebootInv, Types
<1>4. JournalOK' /\ Grown
  BY <1>1, QuietJournal DEF RebootInv, JournalOK, OpsOK
<1>5. \A d \in Client : ClientOK(d)' /\ StateOK(d)'
  BY <1>1, <1>4, Returned, ClientEnded, ClientKept, StateKept
<1>6. \A d \in Client : (d \in cs /\ pc'[d] = "idle") \/ (d \notin cs /\ Kept(d))
  BY <1>1, Returned
<1>7. lost' = 0 => OnceOK'
  <2>1. ASSUME lost = 0, NEW d \in Client, pc'[d] \in PreIssue PROVE lease' = d
    <3>1. d \notin cs /\ pc[d] \in PreIssue
      BY <1>6, <2>1 DEF Kept, PreIssue
    <3>2. lease = d
      BY <2>1, <3>1 DEF RebootInv, OnceOK
    <3> QED BY <1>1, <3>1, <3>2, Returned
  <2> QED
    BY <1>1, <1>6, <2>1, QuietOnce DEF RebootInv, Kept, PreIssue
<1> QED BY <1>3, <1>4, <1>5, <1>7 DEF RebootInv

\* A link, and with it a lease, is lost; the host goes down, asked for or not, and comes
\* up; operations pass the gate.
LEMMA OutsideKeeps ==
    ASSUME RebootInv,
           \/ \E c \in Client : LoseLink(c)
           \/ RebootCommandRuns \/ UnaskedReboot \/ BootUp
           \/ \E k \in Checker : CheckHost(k) \/ Gate(k)
           \/ Idle \/ UNCHANGED vars
    PROVE  RebootInv'
<1>0. boot \in Nat \ {0} /\ machine \in Nat /\ lost \in Nat /\ lease \in Client \cup {None}
  BY DEF RebootInv, Types
<1>1. ASSUME NEW c \in Client, LoseLink(c) PROVE RebootInv'
  <2>1. /\ lease' = None /\ lost' = lost + 1
        /\ UNCHANGED <<ops, cur, asked, issued, tf, pc, req, entry, seen, proc, result, boot, up, machine, pending>>
    BY <1>1 DEF LoseLink, Loss, hostVars, journalVars, clientVars, history
  <2>2. Types'
    BY <1>0, <2>1 DEF RebootInv, Types, Newest
  <2> QED BY <1>0, <2>1, <2>2, StayKeeps
<1>2. CASE RebootCommandRuns
  <2>1. /\ EndExecutor(Client) /\ up' = FALSE /\ pending' = FALSE
        /\ UNCHANGED <<ops, cur, asked, issued, tf, pc, req, entry, seen, proc, result, boot, machine>>
    BY <1>2 DEF RebootCommandRuns, Shutdown, journalVars, clientVars, history
  <2>2. Types'
    BY <2>1, ExecutorEnds DEF RebootInv, Types, Newest
  <2> QED BY <2>1, <2>2, ExecutorEnds, StayKeeps
<1>3. CASE UnaskedReboot
  <2>1. /\ lease' = None /\ lost' = lost + 1 /\ up' = FALSE /\ pending' = FALSE /\ machine' \in {machine, machine + 1}
        /\ UNCHANGED <<ops, cur, asked, issued, tf, pc, req, entry, seen, proc, result, boot>>
    BY <1>3 DEF UnaskedReboot, Loss, Shutdown, journalVars, clientVars, history
  <2>2. machine' \in Nat /\ lost' \in Nat
    BY <1>0, <2>1
  <2>3. up' \in BOOLEAN /\ pending' \in BOOLEAN
    BY <2>1
  <2>4. Types'
    BY <2>1, <2>2, <2>3 DEF RebootInv, Types, Newest
  <2> QED BY <1>0, <2>1, <2>4, StayKeeps
<1>4. CASE BootUp
  <2>1. /\ up' = TRUE /\ boot' = boot + 1
        /\ UNCHANGED <<ops, cur, asked, issued, tf, pc, req, entry, seen, proc, result, machine, pending, lease, lost>>
    BY <1>4 DEF BootUp, journalVars, clientVars, history, counters
  <2>2. Types'
    BY <1>0, <2>1 DEF RebootInv, Types, Newest
  <2> QED BY <2>1, <2>2, StayKeeps DEF RebootInv, OnceOK
<1>5. ASSUME \/ \E k \in Checker : CheckHost(k) \/ Gate(k)
             \/ Idle \/ UNCHANGED vars
      PROVE  RebootInv'
  <2>1. UNCHANGED <<ops, cur, asked, issued, tf, pc, req, entry, seen, proc, result, boot, up, machine, pending, lease, lost>>
    <3>1. CASE UNCHANGED vars
      BY <3>1 DEF vars, hostVars, journalVars, clientVars, history, counters
    <3>2. CASE \E k \in Checker : CheckHost(k) \/ Gate(k)
      BY <3>2 DEF CheckHost, Gate, Fault, hostVars, journalVars, clientVars, history, counters
    <3>3. CASE Idle
      BY <3>1, <3>3 DEF Idle
    <3> QED BY <1>5, <3>1, <3>2, <3>3
  <2>2. Types'
    BY <2>1 DEF RebootInv, Types, Newest
  <2> QED BY <2>1, <2>2, StayKeeps DEF RebootInv, OnceOK
<1> QED BY <1>1, <1>2, <1>3, <1>4, <1>5

\* The resource is destroyed: Terraform forgets its state.
LEMMA DeleteKeeps ==
    ASSUME RebootInv, NEW c \in Client, Delete(c)
    PROVE  RebootInv'
<1>1. /\ tf' = [tf EXCEPT ![c] = NoEntry]
      /\ UNCHANGED <<ops, cur, asked, issued, pc, req, entry, seen, proc, result, boot, up, machine, pending, lease, lost>>
  BY DEF Delete, hostVars, journalVars, history, counters
<1>2. tf \in [Client -> Entry]
  BY DEF RebootInv, Types
<1>3. tf' \in [Client -> Entry] /\ tf'[c].id = 0 /\ \A d \in Client : d # c => tf'[d] = tf[d]
  BY <1>1, <1>2, NoEntryType
<1>4. Types'
  BY <1>1, <1>3 DEF RebootInv, Types, Newest
<1>5. JournalOK' /\ Grown
  BY <1>1, QuietJournal DEF RebootInv, JournalOK, OpsOK
<1>6. \A d \in Client : ClientOK(d)'
  BY <1>1, <1>5, ClientKept DEF Kept
<1>7. \A d \in Client : StateOK(d)'
  <2>1. StateOK(c)'
    BY <1>3 DEF StateOK
  <2> QED BY <1>3, <1>5, <2>1, StateKept
<1>8. lost' = 0 => OnceOK'
  BY <1>1, QuietOnce DEF RebootInv, OnceOK
<1> QED BY <1>4, <1>5, <1>6, <1>7, <1>8 DEF RebootInv

-----------------------------------------------------------------------------
(* The invariant, and what follows from it. *)

\* At first there is no entry anywhere.
LEMMA RebootInit == Init => RebootInv
<1> SUFFICES ASSUME Init PROVE RebootInv
  OBVIOUS
<1>1. Own \in Client
  BY RebootAssumption DEF RebootAssumption
<1>2. proc \in [Client -> Nat] /\ Newest
  <2>1. CASE proc = [c \in Client |-> 1]
    BY <1>1, <2>1 DEF Newest
  <2>2. CASE proc = Apart
    BY <2>2, ApartType DEF Newest
  <2> QED BY <2>1, <2>2 DEF Init
<1>3. Types
  <2>1. /\ boot = 1 /\ up = TRUE /\ machine = 1 /\ pending = FALSE /\ lost = 0 /\ lease = None
        /\ pc = [c \in Client |-> "idle"] /\ req = [c \in Client |-> None]
        /\ entry = [c \in Client |-> NoEntry] /\ seen = [c \in Client |-> 0]
        /\ tf = [c \in Client |-> NoEntry] /\ result = [c \in Client |-> "ok"]
    BY DEF Init
  <2>2. "idle" \in Label
    BY DEF Label, Fresh
  <2>3. /\ pc \in [Client -> Label] /\ req \in [Client -> Request \cup {None}]
        /\ entry \in [Client -> Entry] /\ seen \in [Client -> Nat] /\ tf \in [Client -> Entry]
        /\ result \in [Client -> {"ok", "error", "running"}]
    BY <2>1, <2>2, NoEntryType
  <2>4. boot \in Nat \ {0} /\ machine \in Nat /\ lost \in Nat
    BY <2>1
  <2>5. up \in BOOLEAN /\ pending \in BOOLEAN /\ lease \in Client \cup {None}
    BY <2>1
  <2> QED BY <1>2, <2>3, <2>4, <2>5 DEF Types
<1>4. ops = <<>> /\ issued = <<>> /\ asked = <<>> /\ cur = [n \in Request |-> NoEntry]
  BY DEF Init
<1>5. OpsOK /\ DOMAIN ops = {}
  BY <1>4, EmptySeq DEF OpsOK
<1>6. cur \in [Request -> Entry] /\ \A n \in Request : CurOK(n)
  BY <1>4, NoEntryType DEF CurOK, EntryOK
<1>7. \A c \in Client : pc[c] = "idle" /\ entry[c].id = 0 /\ tf[c].id = 0
  BY NoEntryType DEF Init
<1>8. \A c \in Client : ClientOK(c) /\ StateOK(c)
  BY <1>7 DEF ClientOK, StateOK, EntryOK, Fresh, Proved
<1>9. OnceOK
  BY <1>5, <1>7 DEF OnceOK, PreIssue
<1> QED BY <1>3, <1>5, <1>6, <1>8, <1>9 DEF RebootInv, JournalOK

\* Every step keeps the invariant.
LEMMA RebootNext ==
    ASSUME RebootInv, [Next]_vars
    PROVE  RebootInv'
<1>1. ASSUME NEW c \in Client, Step(c) PROVE RebootInv'
  <2>1. CASE acquireOperationLease(c) \/ Prepare(c) \/ ReadPreProof(c) \/ MarkPrecheck(c)
    BY <2>1, AcquireKeeps, PrepareKeeps, ReadPreProofKeeps, MarkPrecheckKeeps
  <2>2. CASE SelectRebootCommand(c)
    <3>1. pc[c] = "select"
      BY <2>2 DEF SelectRebootCommand
    <3>2. CASE Mark(c, File(c, TargetPrepared), Copy(c, TargetPrepared), "markIssued")
      BY <3>1, <3>2, MarkPhaseKeeps
    <3>3. CASE Fault /\ failReboot(c)
      BY <3>1, <3>3, Fails DEF Fault, Fresh
    <3> QED BY <2>2, <3>2, <3>3 DEF SelectRebootCommand
  <2>3. CASE MarkIssued(c)
    BY <2>3, MarkPhaseKeeps DEF MarkIssued
  <2>4. CASE issueRebootCommand(c) \/ resetSessionSafely(c) \/ reconnectSessionForReboot(c) \/ ReadPostProof(c)
    BY <2>4, IssueKeeps, ResetKeeps, ReadPostProofKeeps
  <2>5. CASE MarkWaiting(c)
    BY <2>5, MarkPhaseKeeps DEF MarkWaiting
  <2>6. CASE MarkValidated(c) \/ Complete(c)
    BY <2>6, MarkValidatedKeeps, CompleteKeeps
  <2>7. CASE Settle(c)
    BY <2>7, MarkPhaseKeeps DEF Settle
  <2> QED
    BY <1>1, <2>1, <2>2, <2>3, <2>4, <2>5, <2>6, <2>7 DEF Step
<1>2. ASSUME NEW c \in Client, Timeout(c) PROVE RebootInv'
  BY <1>2, Fails DEF Timeout, Fresh
<1>3. ASSUME NEW c \in Client, CompleteFails(c) \/ Delete(c) \/ Kill(c) PROVE RebootInv'
  BY <1>3, CompleteFailsKeeps, DeleteKeeps, KillKeeps
<1> QED
  BY <1>1, <1>2, <1>3, ApplyKeeps, OutsideKeeps DEF Next

\* The invariant holds throughout: every copy of an entry, in the journal's two files
\* (reboot_journal.go), at a client of either process and however stale, has a boot id
\* from after it was asked for, or none; and only one is before the reboot command.
THEOREM RebootInvariant == Spec => []RebootInv
<1>1. Init => RebootInv
  BY RebootInit
<1>2. RebootInv /\ [Next]_vars => RebootInv'
  BY RebootNext
<1> QED BY <1>1, <1>2, PTL DEF Spec

\* The journal, the copies, Terraform's states and the gate are of their types, and the
\* next process always has a key of its own.
THEOREM RebootTypes == Spec => []RebootTypeOK
<1>1. RebootInv /\ GateOK => RebootTypeOK
  BY DEF RebootInv, Types, JournalOK, OpsOK, FileOK, CurOK, GateOK, KLabel, RebootTypeOK
<1>2. Init => GateOK
  BY GateInit
<1>3. GateOK /\ [Next]_vars => GateOK'
  BY GateNext
<1> QED BY <1>1, <1>2, <1>3, RebootInvariant, PTL DEF Spec

\* A barrier that Terraform records as completed was rebooted after it was asked for
\* (validateRebootTransition, through every resumption of restart_host.go).
THEOREM RebootCompletedIsProved == Spec => []CompletedIsProved
<1>1. RebootInv => CompletedIsProved
  BY DEF RebootInv, StateOK, CompletedIsProved
<1> QED BY <1>1, RebootInvariant, PTL

\* Unless an answer, a link or a lease is lost, or the host rebooted unasked, the reboot
\* command of an operation (issueRebootCommand) runs once at most.
THEOREM RebootIssuedOnce == Spec => []IssuedOnce
<1>1. RebootInv => IssuedOnce
  BY DEF RebootInv, OnceOK, IssuedOnce
<1> QED BY <1>1, RebootInvariant, PTL
=============================================================================
