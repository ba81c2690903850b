--------------------------- MODULE OperationLease ---------------------------
(***************************************************************************)
(* The lease protocol end to end: provider processes (workspaces) that     *)
(* acquire a lease on a host, run one mutation under it and release it     *)
(* (providers/shared/hostsession/manager.go), over the executors and the   *)
(* journal of OperationJournal.                                            *)
(*                                                                         *)
(* All requests of a workspace to the host share one session and so one    *)
(* executor.  A call that fails, for whatever reason, makes its caller     *)
(* reset that session, which ends the executor, and try again on a new     *)
(* one; the journal knows a lease by the pid of the executor that granted  *)
(* it.                                                                     *)
(***************************************************************************)
EXTENDS OperationJournal

CONSTANTS
    MaxAttempts,  \* attempts of one call (the retry policy of a workspace)
    MaxLosses,    \* bound: losses and write errors after which a request in a phase
                  \* loses no call and no executor
    Orphans       \* phases in which a reset may leave an executor behind for a while

Phase == {"acquire", "mutate", "release", "done"}

ASSUME LeaseAssumption ==
    /\ MaxAttempts \in [Workspace -> Nat \ {0}]
    /\ MaxLosses \in [Phase -> Nat]
    /\ Orphans \subseteq Phase

VARIABLES
    exec,    \* the executor behind the session of a workspace, or None
    mut,     \* the executors in which the mutation of a request is running
    cl,      \* the requests, as their provider process sees them
    losses,
    spent    \* the pids given out so far

provider == <<exec, mut, cl, losses, spent>>
leaseVars == <<vars, provider>>

\* A request is in a phase; within it, it is about to call, waits for the
\* answer of handler call, or holds a failed attempt.  op is the operation id
\* the journal last told it.
NewClient == [phase |-> "acquire", pos |-> "ready", call |-> None, op |-> 0, tries |-> 0]

Requests(w) == {r \in Request : WorkspaceOf[r] = w}

\* No call is reserved on the session of w (waitForNoActiveCalls).
NoActiveCalls(w) == \A r \in Requests(w) : cl[r].pos # "calling"

LeaseInit ==
    /\ Init
    /\ exec = [w \in Workspace |-> None]
    /\ mut = [r \in Request |-> {}]
    /\ cl = [r \in Request |-> NewClient]
    /\ losses = 0
    /\ spent = {}

-----------------------------------------------------------------------------
(* Calls.  prepareClientForAction makes sure of an executor first; it      *)
(* keeps one whose process has died, and the next call to it fails.        *)

\* The host does not give a pid out twice within a behaviour (OperationJournal
\* allows it); fresh pids are interchangeable, so one of them will do.
FreshPid == CHOOSE p \in Pid : p \notin spent

EnsureExecutor(r, p) ==
    /\ cl[r].phase # "done"
    /\ cl[r].pos = "ready"
    /\ exec[WorkspaceOf[r]] = None
    /\ spent # Pid
    /\ p = FreshPid
    /\ Start(p, WorkspaceOf[r])
    /\ exec' = [exec EXCEPT ![WorkspaceOf[r]] = p]
    /\ spent' = spent \cup {p}
    /\ UNCHANGED <<mut, cl, losses>>

CanCall(r, phase) ==
    /\ cl[r].phase = phase
    /\ cl[r].pos = "ready"
    /\ exec[WorkspaceOf[r]] # None
    /\ procs[exec[WorkspaceOf[r]]] # None

Calling(r, t) == cl' = [cl EXCEPT ![r].pos = "calling", ![r].call = t]

CallAcquire(r, t) ==
    /\ CanCall(r, "acquire")
    /\ Acquire(t, exec[WorkspaceOf[r]], r)
    /\ Calling(r, t)
    /\ UNCHANGED <<exec, mut, losses, spent>>

CallMutate(r) ==
    /\ CanCall(r, "mutate")
    /\ mut' = [mut EXCEPT ![r] = @ \cup {exec[WorkspaceOf[r]]}]
    /\ Calling(r, None)
    /\ UNCHANGED <<vars, exec, losses, spent>>

CallRelease(r, t) ==
    /\ CanCall(r, "release")
    /\ Release(t, exec[WorkspaceOf[r]], cl[r].op)
    /\ Calling(r, t)
    /\ UNCHANGED <<exec, mut, losses, spent>>

\* A request enters a phase with a fresh retry budget.
Enter(r, phase, op) ==
    cl' = [cl EXCEPT ![r] = [NewClient EXCEPT !.phase = phase, !.op = op]]

Failed(r) == cl' = [cl EXCEPT ![r].pos = "failed", ![r].call = None]

\* The answer of a handler reaches the request that waits for it.  A queued
\* request polls again with the same request id, or gives up (its context is
\* done or host_lock_timeout_seconds have passed) and releases the entry.
Delivered(r, res, op) ==
    \/ res = "granted" /\ Enter(r, "mutate", op)
    \/ res = "queued" /\ Enter(r, "acquire", op)
    \/ res = "queued" /\ Enter(r, "release", op)
    \/ res = "released" /\ Enter(r, "done", op)
    \/ res = "error" /\ Failed(r)

Deliver(t) ==
    /\ Reply(t)
    /\ \/ \E r \in Request : cl[r].call = t /\ Delivered(r, h[t].res, h[t].op)
       \/ (\A r \in Request : cl[r].call # t) /\ UNCHANGED cl
    /\ UNCHANGED <<exec, mut, losses, spent>>

\* The mutation ends in executor p.  The request sees it only if it still
\* waits for that call; after a success it releases the lease.
MutateDone(r, p) ==
    /\ p \in mut[r]
    /\ mut' = [mut EXCEPT ![r] = @ \ {p}]
    /\ IF cl[r].phase = "mutate" /\ cl[r].pos = "calling" /\ exec[WorkspaceOf[r]] = p
         THEN Enter(r, "release", cl[r].op)
         ELSE UNCHANGED cl
    /\ UNCHANGED <<vars, exec, losses, spent>>

-----------------------------------------------------------------------------
(* Failed attempts. *)

CallDeadExecutor(r) ==
    /\ cl[r].phase # "done"
    /\ cl[r].pos = "ready"
    /\ exec[WorkspaceOf[r]] # None
    /\ procs[exec[WorkspaceOf[r]]] = None
    /\ Failed(r)
    /\ UNCHANGED <<vars, exec, mut, losses, spent>>

\* One more loss, of the requests in R or of a handler nobody waits for.
Lose(R) ==
    /\ \A r \in R : losses < MaxLosses[cl[r].phase]
    /\ \E p \in Phase : losses < MaxLosses[p]
    /\ losses' = losses + 1

\* A call ends without an answer: its deadline passed, the connection broke,
\* or the operation itself failed.  The handler may still be running.
CallFails(r) ==
    /\ cl[r].pos = "calling"
    /\ Lose({r})
    /\ Failed(r)
    /\ UNCHANGED <<vars, exec, mut, spent>>

\* What follows a phase that failed for good: an Acquire has nothing to give
\* back, a mutation releases its lease, a Release that failed is the end.
GiveUp(r) ==
    IF cl[r].phase = "mutate"
      THEN Enter(r, "release", cl[r].op)
      ELSE Enter(r, "done", cl[r].op)

Retry(r) == cl' = [cl EXCEPT ![r].pos = "ready", ![r].tries = @ + 1]

\* Mutant: the budget is compared with the wrong end.
AttemptsLeftOffByOne(r) == cl[r].tries < MaxAttempts[WorkspaceOf[r]]

AttemptsLeft(r) == cl[r].tries < MaxAttempts[WorkspaceOf[r]] - 1

\* resetSessionSafely: once no call is reserved, the executor behind the
\* session is ended, at once or (Orphans) when its handlers have returned.
ResetSession(r) ==
    LET w == WorkspaceOf[r]
        p == exec[w]
    IN  /\ cl[r].pos = "failed"
        /\ AttemptsLeft(r)
        /\ NoActiveCalls(w)
        /\ Retry(r)
        /\ exec' = [exec EXCEPT ![w] = None]
        /\ IF p = None \/ procs[p] = None
             THEN UNCHANGED <<vars, mut>>
             ELSE \/ Crash(p) /\ mut' = [s \in Request |-> mut[s] \ {p}]
                  \/ cl[r].phase \in Orphans /\ UNCHANGED <<vars, mut>>
        /\ UNCHANGED <<losses, spent>>

\* The retry budget is spent: withRetries returns without another reset.
Exhausted(r) ==
    /\ cl[r].pos = "failed"
    /\ ~AttemptsLeft(r)
    /\ GiveUp(r)
    /\ UNCHANGED <<vars, exec, mut, losses, spent>>

\* An executor dies, and its callers see their calls fail.
ExecutorDies(w) ==
    LET p == exec[w]
    IN  /\ p # None
        /\ Lose(Requests(w))
        /\ Crash(p)
        /\ mut' = [r \in Request |-> mut[r] \ {p}]
        /\ cl' = [r \in Request |->
                    IF r \in Requests(w) /\ cl[r].pos = "calling"
                      THEN [cl[r] EXCEPT !.pos = "failed", !.call = None] ELSE cl[r]]
        /\ UNCHANGED <<exec, spent>>

\* An executor whose session is gone exits.
OrphanExits(p) ==
    /\ \A w \in Workspace : exec[w] # p
    /\ Crash(p)
    /\ mut' = [r \in Request |-> mut[r] \ {p}]
    /\ UNCHANGED <<exec, cl, losses, spent>>

\* The provider process of w ends once its requests are done, and with it the
\* session and the executor.
ProviderExits(w) ==
    /\ \A r \in Requests(w) : cl[r].phase = "done"
    /\ exec[w] # None
    /\ exec' = [exec EXCEPT ![w] = None]
    /\ IF procs[exec[w]] # None THEN Crash(exec[w]) ELSE UNCHANGED vars
    /\ UNCHANGED <<mut, cl, losses, spent>>

-----------------------------------------------------------------------------
LeaseStep(t) == Step(t) /\ UNCHANGED provider

LeaseCancel(t) ==
    /\ CancelAcquire(t)
    /\ \A r \in Request : cl[r].call # t
    /\ UNCHANGED provider

LeaseIOError(t) ==
    /\ IOError(t)
    /\ Lose({r \in Request : cl[r].call = t})
    /\ UNCHANGED <<exec, mut, cl, spent>>

LeaseNext ==
    \/ \E r \in Request, p \in Pid : EnsureExecutor(r, p)
    \/ \E r \in Request, t \in Thread : CallAcquire(r, t)
    \/ \E r \in Request : CallMutate(r)
    \/ \E r \in Request, t \in Thread : CallRelease(r, t)
    \/ \E t \in Thread : Deliver(t)
    \/ \E r \in Request, p \in Pid : MutateDone(r, p)
    \/ \E r \in Request : CallFails(r)
    \/ \E r \in Request : ResetSession(r)
    \/ \E r \in Request : Exhausted(r)
    \/ \E r \in Request : CallDeadExecutor(r)
    \/ \E w \in Workspace : ExecutorDies(w)
    \/ \E p \in Pid : OrphanExits(p)
    \/ \E w \in Workspace : ProviderExits(w)
    \/ \E t \in Thread : LeaseStep(t)
    \/ \E t \in Thread : LeaseCancel(t)
    \/ \E t \in Thread : LeaseIOError(t)

LeaseSpec == LeaseInit /\ [][LeaseNext]_leaseVars

ClientStep(r) ==
    \/ \E p \in Pid : EnsureExecutor(r, p)
    \/ \E t \in Thread : CallAcquire(r, t) \/ CallRelease(r, t)
    \/ CallMutate(r) \/ CallDeadExecutor(r) \/ ResetSession(r) \/ Exhausted(r)

\* A provider goes on with its requests and answers arrive; a mutation ends;
\* an executor exits when its stdin is closed;
\* handlers run, and the kernel hands a flock to every waiter in turn, hence
\* strong fairness of their steps.  Nothing is assumed about failures.
LeaseFairness ==
    /\ \A t \in Thread : SF_leaseVars(LeaseStep(t)) /\ WF_leaseVars(Deliver(t))
    /\ \A r \in Request : /\ WF_leaseVars(ClientStep(r))
                          /\ WF_leaseVars(\E p \in Pid : MutateDone(r, p))
    /\ \A w \in Workspace : WF_leaseVars(ProviderExits(w))
    /\ \A p \in Pid : WF_leaseVars(OrphanExits(p))

FairLeaseSpec == LeaseSpec /\ LeaseFairness

-----------------------------------------------------------------------------
(* Properties. *)

\* The provider's side of the state has its shape.
LeaseTypeOK ==
    /\ TypeOK
    /\ exec \in [Workspace -> Pid \cup {None}]
    /\ mut \in [Request -> SUBSET Pid]
    /\ cl \in [Request -> [phase : Phase, pos : {"ready", "calling", "failed"},
                            call : Thread \cup {None}, op : Op \cup {0}, tries : Nat]]
    /\ \A r \in Request : cl[r].tries < MaxAttempts[WorkspaceOf[r]]
    /\ losses \in Nat
    /\ spent \subseteq Pid

\* The cross-workspace per-host execution lock: no two mutations whose lock
\* sets conflict run on the host at the same time.
MutationExclusion ==
    \A r, s \in Request :
        r # s /\ mut[r] # {} /\ mut[s] # {} =>
            \A k \in LockSet(r), l \in LockSet(s) : ~locksConflict(k, l)

\* The promise of the protocol, as a refinement: what a request sees, its lease
\* acquired over executors, journal files and retries, is the abstract lease service,
\* in which a lock set is granted at once.
Service ==
    INSTANCE LeaseService WITH
        LocksOf <- [r \in Request |-> LockSet(r)],
        status <- [r \in Request |->
                     CASE cl[r].phase = "acquire" -> "waiting"
                       [] cl[r].phase = "mutate" -> "holding"
                       [] OTHER -> "done"]

ImplementsService == Service!ServiceSpec

\* Nobody waits forever on the host: every request gets its lease and lets it
\* go, or gives up, whatever lease a dead or silent executor left behind.
EveryRequestEnds == <>(\A r \in Request : cl[r].phase = "done")

\* A request that believes it holds its lease has every lock of its lock set
\* claimed on the host, under an owner that a sweep finds active.
LeaseIsBacked ==
    \A r \in Request :
        cl[r].phase = "mutate" =>
            \A l \in LockSet(r) :
                \E c \in claims : /\ c.op = cl[r].op
                                  /\ c.lock = l
                                  /\ operationJournalOwnerActive(c.pid, c.boot)
=============================================================================
