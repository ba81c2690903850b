--------------------------- MODULE RebootBarrier ---------------------------
(***************************************************************************)
(* Restarting a host: the protocol of hostsession/restart_host.go with its *)
(* proof of a reboot (reboot_platform.go), the journal of it the executor  *)
(* keeps on the host (executor/runtime/reboot_journal.go), the             *)
(* reboot_barrier resource and the restart_host action that run it, and    *)
(* the readiness gate of the operations beside it.                         *)
(*                                                                         *)
(* A client is a barrier or an action of a configuration and has one       *)
(* request at a time; it runs in a provider process, alone or with others, *)
(* in a new one whenever Terraform is run again.  The requests of a        *)
(* process share its session, and so its executor, and the key with which  *)
(* the executor encrypts the journal: those of the same name share an      *)
(* entry, and the entry of another process cannot be read and is replaced. *)
(* The exclusive lease lives with the executor that took it (module        *)
(* OperationLease): it is gone when the session is reset or reconnected,   *)
(* by whomever, or the host reboots.                                       *)
(***************************************************************************)
EXTENDS HostReadiness, Sequences

CONSTANTS
    Client,
    Own,            \* the client whose session the readiness gate belongs to
    Trigger,        \* the trigger values of the barrier
    Action,         \* names of restart_host actions
    MaxRuns,        \* bound: requests
    GateRuns,       \* bound: requests when there are operations at the readiness gate
    MaxFaults,      \* bound: faults
    None

ASSUME RebootAssumption ==
    /\ IsFiniteSet(Client) /\ Own \in Client /\ None \notin Client
    /\ IsFiniteSet(Trigger) /\ IsFiniteSet(Action) /\ Trigger \cap Action = {}
    /\ MaxRuns \in Nat /\ GateRuns \in 0 .. MaxRuns /\ MaxFaults \in Nat

Request == Trigger \cup Action

VARIABLES
    boot, up,       \* the boot id, and is the host up?
    machine,        \* its stable identity
    pending,        \* does a reboot command sleep before it runs?
    ops,            \* operations/: the entries
    cur,            \* current/: the entry of a name that is to be resumed
    lease,          \* who holds the exclusive lease, or None
    proc,           \* the provider process each client runs in
    pc, req,
    entry,          \* the client's copy of the entry
    seen,           \* the boot id of the last proof
    tf,             \* Terraform's state of the barrier of each client
    result,         \* of the last request
    runs, faults,
    lost,           \* answers, links and leases lost, and unasked reboots
    disturbed,      \* history: there was a fault, or a deadline has passed
    issued,         \* history: how often the command of an operation ran
    asked           \* history: the boot an operation was prepared in

hostVars == <<boot, up, machine, pending>>
journalVars == <<ops, cur>>
clientVars == <<proc, pc, req, entry, seen, tf, result>>
history == <<issued, asked>>
counters == <<faults, lost, disturbed>>
vars == <<readyVars, hostVars, journalVars, lease, clientVars, runs, counters, history>>

-----------------------------------------------------------------------------
(* Phases, by rank. *)

Planned == 0
PrecheckComplete == 1
TargetPrepared == 2
RebootIssued == 3
WaitingForReconnect == 4
PostReconnectValidated == 5
ExecutorRebootstrapped == 6
Completed == 7
Failed == 8

NoEntry == [id |-> 0, name |-> None, by |-> 0, phase |-> Planned, stable |-> 0, pre |-> 0, post |-> 0]

\* Every client in a process of its own.
Apart == CHOOSE f \in [Client -> 1 .. Cardinality(Client)] : \A c, d \in Client : f[c] = f[d] => c = d

Init ==
    /\ ReadyInit
    /\ boot = 1 /\ up = TRUE /\ machine = 1 /\ pending = FALSE
    /\ ops = <<>>
    /\ cur = [n \in Request |-> NoEntry]
    /\ lease = None
    /\ pc = [c \in Client |-> "idle"]
    /\ req = [c \in Client |-> None]
    /\ entry = [c \in Client |-> NoEntry]
    /\ seen = [c \in Client |-> 0]
    /\ tf = [c \in Client |-> NoEntry]
    /\ result = [c \in Client |-> "ok"]
    /\ proc \in {[c \in Client |-> 1], Apart}
    /\ \/ runs = 0 /\ kpc = [k \in Checker |-> "absent"]
       \/ runs = MaxRuns - GateRuns /\ kpc = [k \in Checker |-> "begin"] /\ proc # Apart
    /\ faults = 0 /\ lost = 0 /\ disturbed = FALSE
    /\ issued = <<>>
    /\ asked = <<>>

Goto(c, l) == pc' = [pc EXCEPT ![c] = l]
OneFault == faults < MaxFaults /\ faults' = faults + 1 /\ disturbed' = TRUE
Fault == OneFault /\ UNCHANGED lost
Loss == OneFault /\ lost' = lost + 1

InProcess(p) == {c \in Client : proc[c] = p}
newJournalKey == 1 + CHOOSE p \in {proc[c] : c \in Client} : \A c \in Client : proc[c] <= p

\* The requests of cs end.  Their lease is released, their copies of entries forgotten.
ReturnAll(cs, r) ==
    /\ pc' = [c \in Client |-> IF c \in cs THEN "idle" ELSE pc[c]]
    /\ result' = [c \in Client |-> IF c \in cs THEN r ELSE result[c]]
    /\ entry' = [c \in Client |-> IF c \in cs THEN NoEntry ELSE entry[c]]
    /\ seen' = [c \in Client |-> IF c \in cs THEN 0 ELSE seen[c]]
    /\ req' = [c \in Client |-> IF c \in cs THEN None ELSE req[c]]
    /\ lease' = IF lease \in cs THEN None ELSE lease

Return(c, r) == ReturnAll({c}, r) /\ UNCHANGED proc

\* The executors of the clients cs end, and the lease one of them has with its executor;
\* a client that has not sent the command yet goes on without it.
EndExecutor(cs) ==
    /\ lease' = IF lease \in cs THEN None ELSE lease
    /\ lost' = IF lease \in cs /\ pc[lease] \in {"prepare", "precheck", "markPrecheck", "select", "markIssued", "issue"}
               THEN lost + 1 ELSE lost
    /\ UNCHANGED <<faults, disturbed>>

\* The session of c is reset, in which the verdicts of its readiness gate are forgotten.
ClearReadinessOf(c) == IF proc[c] = proc[Own] THEN clearReadiness ELSE UNCHANGED readyVars

-----------------------------------------------------------------------------
(* The resource and the action. *)

shouldSkipRebootBarrier(c, r) == r \in Trigger /\ tf[c].name = r /\ tf[c].phase = Completed

\* The request belongs to the run of Terraform there is or, when that one has done
\* something and is done, to a new one.
EnterProcess(c) ==
    LET cs == InProcess(proc[c])
    IN \/ UNCHANGED <<proc, readyVars>>
       \/ /\ \E i \in DOMAIN ops : ops[i].by = proc[c]
          /\ \A d \in cs : pc[d] = "idle"
          /\ Own \in cs => \A k \in Checker : kpc[k] \in {"pass", "refused", "absent"}
          /\ proc' = [d \in Client |-> IF d \in cs THEN newJournalKey ELSE proc[d]]
          /\ ClearReadinessOf(c)

\* A barrier whose triggers have not changed since it completed is left alone.
applyPlan(c, r) ==
    /\ pc[c] = "idle"
    /\ runs < MaxRuns
    /\ (runs = 0 => c = Own /\ r \in Trigger) /\ (proc[c] # proc[Own] => r \in Trigger)    \* bounds
    /\ runs' = runs + 1
    /\ EnterProcess(c)
    /\ \/ /\ shouldSkipRebootBarrier(c, r)
          /\ result' = [result EXCEPT ![c] = "ok"]
          /\ UNCHANGED <<pc, req>>
       \/ /\ ~shouldSkipRebootBarrier(c, r)
          /\ req' = [req EXCEPT ![c] = r]
          /\ result' = [result EXCEPT ![c] = "running"]
          /\ Goto(c, "lease")
    /\ UNCHANGED <<hostVars, journalVars, lease, entry, seen, tf, counters, history>>

\* The lease, or an error when it is not to be had within the timeout.
acquireOperationLease(c) ==
    /\ pc[c] = "lease"
    /\ \/ /\ up /\ lease = None
          /\ lease' = c
          /\ Goto(c, "prepare")
          /\ UNCHANGED <<proc, req, entry, seen, result, counters>>
       \/ Fault /\ Return(c, "error")
    /\ UNCHANGED <<readyVars, hostVars, journalVars, tf, runs, history>>

-----------------------------------------------------------------------------
(* The journal. *)

\* Mutant: an entry whose command was issued is taken up before it.
ResumeBeforeIssue(p) ==
    CASE p = Planned -> "precheck"
      [] p = PrecheckComplete -> "select"
      [] p \in {TargetPrepared, RebootIssued} -> "markIssued"
      [] OTHER -> "wait"

\* The step that follows in an entry of phase p.
ResumeAt(p) ==
    CASE p = Planned -> "precheck"
      [] p = PrecheckComplete -> "select"
      [] p = TargetPrepared -> "markIssued"
      [] p = RebootIssued -> "reset"
      [] OTHER -> "wait"

\* Mutant: the number of an operation is the one of the last.
newEntryOfLast(n, p) == [NoEntry EXCEPT !.id = Len(ops), !.name = n, !.by = p]
newEntry(n, p) == [NoEntry EXCEPT !.id = Len(ops) + 1, !.name = n, !.by = p]

\* The key of c's process decrypts the entry.
readEntry(c, e) == e.id # 0 /\ e.by = proc[c]

\* The entry of the name is resumed, a failed one too; without one, or with one that
\* cannot be read, which is removed, there is a new operation, its file written before
\* the one of the name.
Prepare(c) ==
    LET n == req[c]
        new == newEntry(n, proc[c])
        create ==
            /\ ops' = Append(ops, new)
            /\ issued' = Append(issued, 0)
            /\ asked' = Append(asked, boot)
    IN /\ pc[c] = "prepare"
       /\ up
       /\ \/ /\ readEntry(c, cur[n]) /\ cur[n].phase # Failed
             /\ entry' = [entry EXCEPT ![c] = cur[n]]
             /\ Goto(c, ResumeAt(cur[n].phase))
             /\ UNCHANGED <<journalVars, history, lease, proc, req, seen, result, counters>>
          \/ /\ readEntry(c, cur[n]) /\ cur[n].phase = Failed
             /\ Return(c, "error")
             /\ UNCHANGED <<journalVars, history, counters>>
          \/ /\ ~readEntry(c, cur[n])
             /\ create
             /\ \/ /\ cur' = [cur EXCEPT ![n] = new]
                   /\ entry' = [entry EXCEPT ![c] = new]
                   /\ Goto(c, "precheck")
                   /\ UNCHANGED counters
                \/ /\ Fault                                     \* the executor dies in between
                   /\ cur' = [cur EXCEPT ![n] = NoEntry]
                   /\ UNCHANGED <<entry, pc>>
             /\ UNCHANGED <<lease, proc, req, seen, result>>
    /\ UNCHANGED <<readyVars, hostVars, tf, runs>>

WriteOp(e) == ops' = [ops EXCEPT ![e.id] = e]
WriteCurrent(e) == cur' = [cur EXCEPT ![e.name] = IF e.phase = Completed THEN NoEntry ELSE e]

\* update: the entry is read, changed and written, to its own file and then to, or
\* out of, the one of its name.
Update(e) == WriteOp(e) /\ WriteCurrent(e)

\* A mark of c: it succeeds, or the executor dies between the two files and the call
\* is tried again, or the retries are used up, the journal written or not, and the
\* request ends with the error, the entry as it is.
Mark(c, e, local, next) ==
    /\ \/ /\ up
          /\ Update(e)
          /\ entry' = [entry EXCEPT ![c] = local]
          /\ Goto(c, next)
          /\ UNCHANGED <<counters, lease, proc, req, seen, result>>
       \/ /\ up
          /\ Fault
          /\ WriteOp(e)
          /\ UNCHANGED <<cur, lease, clientVars>>
       \/ /\ Fault
          /\ \/ UNCHANGED journalVars
             \/ up /\ Update(e)
          /\ Return(c, "error")
    /\ UNCHANGED <<readyVars, hostVars, tf, runs, history>>

\* The file of c's operation in phase p, and c's copy.
File(c, p) == [ops[entry[c].id] EXCEPT !.phase = p]
Copy(c, p) == [entry[c] EXCEPT !.phase = p]

\* The failure is marked if the journal can be reached, and reported.
failReboot(c) ==
    /\ \/ up /\ Update(File(c, Failed))
       \/ UNCHANGED journalVars
    /\ Return(c, "error")
    /\ UNCHANGED <<readyVars, hostVars, tf, runs, history>>

-----------------------------------------------------------------------------
(* restartHostUnsafe, step by step. *)

ReadPreProof(c) ==
    /\ pc[c] = "precheck"
    /\ \/ /\ up
          /\ entry' = [entry EXCEPT ![c].stable = machine, ![c].pre = boot]
          /\ Goto(c, "markPrecheck")
          /\ UNCHANGED <<readyVars, hostVars, journalVars, lease, proc, req, seen, tf, result, runs, counters, history>>
       \/ Fault /\ failReboot(c)

MarkPrecheck(c) ==
    /\ pc[c] = "markPrecheck"
    /\ Mark(c, [File(c, PrecheckComplete) EXCEPT !.stable = entry[c].stable, !.pre = entry[c].pre],
            Copy(c, PrecheckComplete), "select")

\* A host without a reboot command is an error.
SelectRebootCommand(c) ==
    /\ pc[c] = "select"
    /\ \/ Mark(c, File(c, TargetPrepared), Copy(c, TargetPrepared), "markIssued")
       \/ Fault /\ failReboot(c)

\* Mutant: the command is not sent after the mark.
MarkIssuedOnly(c) ==
    /\ pc[c] = "markIssued"
    /\ Mark(c, File(c, RebootIssued), Copy(c, RebootIssued), "reset")

MarkIssued(c) ==
    /\ pc[c] = "markIssued"
    /\ Mark(c, File(c, RebootIssued), Copy(c, RebootIssued), "issue")

\* The command sleeps in the background.  It may be answered, or have run with its
\* answer lost, in which case it is tried again or the retries are used up, or it
\* fails.
issueRebootCommand(c) ==
    LET id == entry[c].id
        run == /\ up
               /\ pending' = TRUE
               /\ issued' = [issued EXCEPT ![id] = @ + 1]
    IN /\ pc[c] = "issue"
       /\ \/ /\ run
             /\ Goto(c, "reset")
             /\ UNCHANGED <<readyVars, boot, up, machine, journalVars, lease, proc, req, entry, seen, tf, result, runs, counters, asked>>
          \/ /\ Loss
             /\ run
             /\ UNCHANGED <<readyVars, boot, up, machine, journalVars, lease, clientVars, runs, asked>>
          \/ Fault /\ failReboot(c)

\* The session is reset: its executor ends and with it the lease, be it that of another
\* request of the process.
resetSessionSafely(c) ==
    /\ pc[c] = "reset"
    /\ Goto(c, "markWaiting")
    /\ EndExecutor(InProcess(proc[c]))
    /\ ClearReadinessOf(c)
    /\ UNCHANGED <<hostVars, journalVars, proc, req, entry, seen, tf, result, runs, history>>

MarkWaiting(c) ==
    /\ pc[c] = "markWaiting"
    /\ Mark(c, File(c, WaitingForReconnect), Copy(c, WaitingForReconnect), "wait")

\* Mutant: the host is compared, its boot is not.
validateSameHost(c) == machine = entry[c].stable
validateRebootTransition(c) == machine = entry[c].stable /\ boot # entry[c].pre

\* Each attempt first closes the connection of the session, under whoever else uses it.
reconnectSessionForReboot(c) ==
    /\ pc[c] = "wait"
    /\ up
    /\ EndExecutor(InProcess(proc[c]))
    /\ UNCHANGED readyVars \/ ClearReadinessOf(c)
    /\ UNCHANGED <<hostVars, journalVars, clientVars, runs, history>>

\* Then the proof is read: the same boot is waited for, another host is an error, a new
\* boot of the host is what was asked for.
ReadPostProof(c) ==
    /\ pc[c] = "wait"
    /\ up
    /\ lease \notin InProcess(proc[c])
    /\ \/ /\ validateRebootTransition(c)
          /\ seen' = [seen EXCEPT ![c] = boot]
          /\ Goto(c, CASE entry[c].phase < PostReconnectValidated -> "markValidated"
                       [] entry[c].phase < ExecutorRebootstrapped -> "settle"
                       [] OTHER -> "complete")
          /\ UNCHANGED <<readyVars, hostVars, journalVars, lease, proc, req, entry, tf, result, runs, counters, history>>
       \/ /\ machine # entry[c].stable
          /\ failReboot(c)
          /\ UNCHANGED counters

MarkValidated(c) ==
    /\ pc[c] = "markValidated"
    /\ Mark(c, [File(c, PostReconnectValidated) EXCEPT !.post = seen[c]],
            [Copy(c, PostReconnectValidated) EXCEPT !.post = seen[c]], "settle")

\* After the settle time the executor is started again.
Settle(c) ==
    /\ pc[c] = "settle"
    /\ Mark(c, File(c, ExecutorRebootstrapped), Copy(c, ExecutorRebootstrapped), "complete")

\* The barrier's state is that of a completed run; an action has none.
Complete(c) ==
    LET done == [Copy(c, Completed) EXCEPT !.post = seen[c]]
    IN /\ pc[c] = "complete"
       /\ up
       /\ Update([File(c, Completed) EXCEPT !.post = seen[c]])
       /\ Return(c, "ok")
       /\ tf' = [tf EXCEPT ![c] = IF req[c] \in Trigger THEN done ELSE @]
       /\ UNCHANGED <<readyVars, hostVars, runs, counters, history>>

\* The completion is lost, with the journal marked or not.
CompleteFails(c) ==
    /\ pc[c] = "complete"
    /\ Fault
    /\ \/ UNCHANGED journalVars
       \/ up /\ Update([File(c, Completed) EXCEPT !.post = seen[c]])
       \/ up /\ WriteOp([File(c, Completed) EXCEPT !.post = seen[c]]) /\ UNCHANGED cur
    /\ Return(c, "error")
    /\ UNCHANGED <<readyVars, hostVars, tf, runs, history>>

\* The deadline that runs from the reboot command, or from the last mark of the
\* entry that is resumed, passes.
Timeout(c) ==
    /\ pc[c] \in {"reset", "wait", "settle"}
    /\ disturbed' = TRUE
    /\ failReboot(c)
    /\ UNCHANGED <<faults, lost>>

-----------------------------------------------------------------------------
(* The resource is destroyed, processes are killed, links lost, hosts       *)
(* restarted.                                                               *)

Delete(c) ==
    /\ pc[c] = "idle" /\ tf[c].id # 0
    /\ runs < MaxRuns
    /\ runs' = runs + 1
    /\ tf' = [tf EXCEPT ![c] = NoEntry]
    /\ UNCHANGED <<readyVars, hostVars, journalVars, lease, proc, pc, req, entry, seen, result, counters, history>>

\* The process of c is killed, with all its requests; the next run is another process.
Kill(c) ==
    LET cs == InProcess(proc[c])
    IN /\ pc[c] # "idle"
       /\ Fault
       /\ ReturnAll(cs, "error")
       /\ proc' = [d \in Client |-> IF d \in cs THEN newJournalKey ELSE proc[d]]
       /\ IF Own \in cs THEN EndReadiness ELSE UNCHANGED readyVars
       /\ UNCHANGED <<hostVars, journalVars, tf, runs, history>>

\* Between two steps the link of c is lost, and its executor with it; the next call
\* of c resets the session.
LoseLink(c) ==
    /\ lease = c
    /\ Loss
    /\ lease' = None
    /\ ClearReadinessOf(c)
    /\ UNCHANGED <<hostVars, journalVars, clientVars, runs, history>>

Shutdown ==
    /\ up
    /\ up' = FALSE
    /\ pending' = FALSE
    /\ UNCHANGED <<readyVars, boot, journalVars, clientVars, runs, history>>

\* A reboot command runs.
RebootCommandRuns ==
    /\ pending
    /\ Shutdown
    /\ EndExecutor(Client)
    /\ UNCHANGED machine

\* Somebody else reboots the host, maybe under a new name.
UnaskedReboot ==
    /\ Loss
    /\ machine' \in {machine, machine + 1}
    /\ lease' = None
    /\ Shutdown

BootUp ==
    /\ ~up
    /\ up' = TRUE
    /\ boot' = boot + 1
    /\ UNCHANGED <<readyVars, machine, pending, journalVars, lease, clientVars, runs, counters, history>>

CheckHost(k) ==
    /\ \/ up /\ ensureHostReady(k, TRUE) /\ UNCHANGED counters
       \/ Fault /\ ensureHostReady(k, FALSE)
    /\ UNCHANGED <<hostVars, journalVars, lease, clientVars, runs, history>>

Gate(k) ==
    /\ ReadyStep(k)
    /\ UNCHANGED <<hostVars, journalVars, lease, clientVars, runs, counters, history>>

\* Nothing is left to do.
Idle ==
    /\ up /\ ~pending
    /\ \A c \in Client : pc[c] = "idle"
    /\ \A k \in Checker : kpc[k] \in {"pass", "refused", "absent"}
    /\ UNCHANGED vars

Step(c) ==
    \/ acquireOperationLease(c) \/ Prepare(c) \/ ReadPreProof(c) \/ MarkPrecheck(c)
    \/ SelectRebootCommand(c) \/ MarkIssued(c) \/ issueRebootCommand(c)
    \/ resetSessionSafely(c) \/ MarkWaiting(c) \/ reconnectSessionForReboot(c) \/ ReadPostProof(c)
    \/ MarkValidated(c) \/ Settle(c) \/ Complete(c)

Next ==
    \/ \E c \in Client :
         \/ \E r \in Request : applyPlan(c, r)
         \/ Step(c) \/ CompleteFails(c) \/ Timeout(c) \/ Delete(c) \/ Kill(c) \/ LoseLink(c)
    \/ RebootCommandRuns \/ UnaskedReboot \/ BootUp
    \/ \E k \in Checker : CheckHost(k) \/ Gate(k)
    \/ Idle

\* Deadlines are relied on only after a fault or another deadline: a run without them
\* has to get by without.
Spec ==
    /\ Init /\ [][Next]_vars
    /\ \A c \in Client : WF_vars(Step(c)) /\ WF_vars(disturbed /\ Timeout(c))
    /\ WF_vars(RebootCommandRuns \/ BootUp)
    /\ \A k \in Checker : WF_vars(CheckHost(k) \/ Gate(k))

-----------------------------------------------------------------------------
Entry == [id : Nat, name : Request \cup {None}, by : Nat, phase : Planned .. Failed, stable : Nat, pre : Nat, post : Nat]

\* The journal's files, the clients' copies and Terraform's states are entries, and a
\* file is under its own name.
RebootTypeOK ==
    /\ boot \in Nat /\ up \in BOOLEAN /\ machine \in Nat
    /\ pending \in BOOLEAN
    /\ ops \in Seq(Entry) /\ \A i \in DOMAIN ops : ops[i].id = i
    /\ cur \in [Request -> Entry] /\ \A n \in Request : cur[n].id # 0 => cur[n].name = n
    /\ entry \in [Client -> Entry] /\ tf \in [Client -> Entry]
    /\ lease \in Client \cup {None}
    /\ proc \in [Client -> Nat]
    /\ seen \in [Client -> Nat]
    /\ result \in [Client -> {"ok", "error", "running"}]
    /\ kpc \in [Checker -> {"begin", "wait", "check", "ready", "notReady", "pass", "refused", "absent"}]

\* The proof of a reboot: a barrier that Terraform records as completed has a boot
\* after the one in which it was asked for, through resumed, shared, replaced and
\* half-written entries and reboots nobody asked for.
CompletedIsProved ==
    \A c \in Client : tf[c].id # 0 =>
        /\ tf[c].phase = Completed
        /\ asked[tf[c].id] <= tf[c].pre /\ tf[c].pre < tf[c].post /\ tf[c].post <= boot

\* The reboot command of an operation runs once, however often its request times out or
\* fails, is resumed by another of the process, finds the journal half written or its
\* entry replaced by another process.  Only when an answer, a link or the lease is lost
\* before the command was sent and answered, or the host is rebooted unasked, may it run
\* again.
IssuedOnce == lost = 0 => \A i \in DOMAIN ops : issued[i] <= 1

\* Without faults every request succeeds and none needs its deadline for it, with another
\* request rebooting the same host, or closing the same session, at the same time.
EveryRestartCompletes == []~disturbed => []<>(\A c \in Client : result[c] = "ok")

\* Every request ends, be the host rebooted, the entry shared, or the command never
\* sent by the request that marked it as issued; and every operation is let through the
\* readiness gate or refused: a reset, which marks the check in progress as ended, leaves
\* nobody waiting.
EveryRequestEnds ==
    []<>(/\ \A c \in Client : pc[c] = "idle"
         /\ \A k \in Checker : kpc[k] \in {"pass", "refused", "absent"})

\* An operation that needs root passes the gate on a check that was made with root,
\* whoever led it and whatever verdicts were forgotten meanwhile.
RootIsChecked == \A k \in NeedRoot : kpc[k] = "pass" => rootChecked
=============================================================================
