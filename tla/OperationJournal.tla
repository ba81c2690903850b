-------------------------- MODULE OperationJournal --------------------------
(***************************************************************************)
(* The operation journal of one managed host: the directory in which the   *)
(* executors of all workspaces record which operation holds which locks    *)
(* (executor/runtime/operation_journal.go).  Three kinds of file matter:   *)
(*                                                                         *)
(*   files[o]   <dir>/<o>.json, the entry of operation o, encrypted with   *)
(*              the key of the provider process that requested it;         *)
(*   index[o]   current/<host>/<o>.json, a plain copy that the executors   *)
(*              of other workspaces can read too;                          *)
(*   claims     locks/<host>/..., one plain file for each lock held.       *)
(*                                                                         *)
(* Each file is replaced atomically (temporary file and rename), but the   *)
(* three kinds are not updated together, and an executor can die between   *)
(* any two writes.  A flock, the admission lock, serialises the critical   *)
(* sections; the kernel drops it when its holder dies.                     *)
(*                                                                         *)
(* An RPC handler is a thread of an executor process.  Acquire finds or    *)
(* creates the entry of a request and then tries to activate it; Release   *)
(* finalizes an entry.                                                     *)
(***************************************************************************)
EXTENDS HostLocks, Naturals, FiniteSets

CONSTANTS
    Pid,          \* process ids of the host, reused after a process dies
    Workspace,    \* provider processes, each with its own journal key
    Request,      \* request ids, fresh for every lease acquisition
    WorkspaceOf,  \* the workspace that issued a request
    LockSetOf,    \* the lock set a request asks for, as it is sent
    Thread,       \* slots for RPC handlers
    MaxOps,       \* bound: operation ids ever created
    MaxBoot,      \* bound: boots of the host
    RebootPids,   \* bound: pids in use, and named on disk, where the host reboots
    None          \* no process, no file, no thread

ASSUME JournalAssumption ==
    /\ WorkspaceOf \in [Request -> Workspace]
    /\ LockSetOf \in [Request -> SUBSET RawLock]
    /\ MaxOps \in Nat
    /\ MaxBoot \in Nat \ {0}
    /\ RebootPids \in Nat
    /\ None \notin Thread
    /\ None \notin Pid
    /\ None \notin Workspace
    /\ None \notin Request

VARIABLES
    boot,       \* the boot id of the host
    procs,      \* the workspace an executor process serves, None if not alive
    nextOp,     \* the operation ids below it have been created
    files,
    index,
    claims,
    admission,  \* the thread that holds the admission lock, or None
    h           \* the handlers

host == <<boot, procs>>
disk == <<nextOp, files, index, claims>>
vars == <<boot, procs, nextOp, files, index, claims, admission, h>>

Op == 1..MaxOps
Boot == 1..MaxBoot

\* completed and failed are one status here, "finished": nothing in the
\* journal reads the difference.  recovering is never written.
Status == {"queued", "running", "finished", "abandoned"}

isActiveOperationStatus(status) == status \in {"queued", "running"}

Entry == [req : Request, pid : Pid, boot : Boot, status : Status]
Claim == [op : Op, pid : Pid, boot : Boot, lock : Lock]

ASSUME NoneAssumption == None \notin Entry

LockSet(r) == normalizeLockSet(LockSetOf[r])

\* A handler slot that is free.  pc is where a handler stands, section the
\* critical section it runs, ent its copy of the entry of op, left the
\* indexes its sweep has still to look at, cur the operation whose files it
\* takes away, todo the locks it has still to claim, res what it answers.
Idle == [pc |-> "idle", section |-> "none", pid |-> None, req |-> None,
         op |-> 0, ent |-> None, left |-> {}, cur |-> 0, todo |-> {},
         res |-> "none"]

-----------------------------------------------------------------------------
(* What an executor can tell about other processes and about a file. *)

\* Mutant: EPERM of the signal-0 probe is taken for a dead process.
processExistsEPERM(p) == FALSE

processExists(p) == procs[p] # None

\* Mutant: the owner is never probed, only the boot id compared.
ownerActiveUnprobed(p, b) == b = boot

operationJournalOwnerActive(p, b) == b = boot /\ processExists(p)

\* An entry opens only with the journal key of the workspace that wrote it.
unmarshalEncryptedJSON(p, e) == WorkspaceOf[e.req] = procs[p]

\* readOperation succeeds: the file is there and executor p can decrypt it.
readOperation(p, o) ==
    /\ files[o] # None
    /\ unmarshalEncryptedJSON(p, files[o])

\* abandonStaleHostEntriesLocked passes over the entries of ownerPID itself.
staleHostEntry(o, ownerPID) ==
    /\ ~(index[o].pid = ownerPID /\ index[o].boot = boot)
    /\ isActiveOperationStatus(index[o].status)
    /\ ~operationJournalOwnerActive(index[o].pid, index[o].boot)

readHostOperationIndexes == {o \in Op : index[o] # None}

-----------------------------------------------------------------------------
Init ==
    /\ boot = 1
    /\ procs = [p \in Pid |-> None]
    /\ nextOp = 1
    /\ files = [o \in Op |-> None]
    /\ index = [o \in Op |-> None]
    /\ claims = {}
    /\ admission = None
    /\ h = [t \in Thread |-> Idle]

\* Handler t enters a critical section; the two of Acquire open with a sweep.
EnterSection(t, section, pc, left) ==
    /\ admission = None
    /\ admission' = t
    /\ h' = [h EXCEPT ![t].pc = pc, ![t].section = section, ![t].left = left]

\* Handler t answers its call; what else it knew is gone.
Answer(t, res) ==
    h' = [h EXCEPT ![t] = [Idle EXCEPT !.pc = "reply", !.pid = h[t].pid,
                                       !.req = h[t].req, !.op = h[t].op, !.res = res]]

-----------------------------------------------------------------------------
(* Acquire, first critical section: findOrCreateOperation. *)

Acquire(t, p, r) ==
    /\ h[t].pc = "idle"
    /\ procs[p] = WorkspaceOf[r]
    /\ h' = [h EXCEPT ![t].pc = "find", ![t].pid = p, ![t].req = r]
    /\ UNCHANGED <<host, disk, admission>>

\* nextOp <= MaxOps is the bound: there is an id for the entry to create.
FindLock(t) ==
    /\ h[t].pc = "find"
    /\ nextOp <= MaxOps
    /\ EnterSection(t, "find", "sweep", readHostOperationIndexes)
    /\ UNCHANGED <<host, disk>>

LookupHit(t) ==
    /\ h[t].pc = "lookup"
    /\ \E o \in readHostOperationIndexes :
         /\ index[o].req = h[t].req
         /\ readOperation(h[t].pid, o)
         /\ h' = [h EXCEPT ![t].pc = "check", ![t].section = "none",
                           ![t].op = o, ![t].ent = files[o]]
    /\ admission' = None
    /\ UNCHANGED <<host, disk>>

\* The lookup deletes an index of the request whose entry it cannot read.  A request's
\* entries are its own workspace's and written before their index, so there is none
\* (lemma NothingForgotten of OperationProofs), and it goes with the step that follows.
ForgetRequest(r) ==
    [o \in Op |-> IF o \in readHostOperationIndexes /\ index[o].req = r THEN None ELSE index[o]]

\* A new entry is owned by the process that serves the call: the file first,
\* the index next.
CreateFile(t) ==
    /\ h[t].pc = "lookup"
    /\ \A o \in readHostOperationIndexes :
         index[o].req = h[t].req => ~readOperation(h[t].pid, o)
    /\ index' = ForgetRequest(h[t].req)
    /\ LET e == [req |-> h[t].req, pid |-> h[t].pid, boot |-> boot, status |-> "queued"]
       IN  /\ files' = [files EXCEPT ![nextOp] = e]
           /\ h' = [h EXCEPT ![t].pc = "createIndex", ![t].op = nextOp, ![t].ent = e]
    /\ nextOp' = nextOp + 1
    /\ UNCHANGED <<host, claims, admission>>

CreateIndex(t) ==
    /\ h[t].pc = "createIndex"
    /\ index' = [index EXCEPT ![h[t].op] = h[t].ent]
    /\ h' = [h EXCEPT ![t].pc = "check", ![t].section = "none"]
    /\ admission' = None
    /\ UNCHANGED <<host, nextOp, files, claims>>

-----------------------------------------------------------------------------
(* abandonStaleHostEntriesLocked, the sweep that opens both critical       *)
(* sections of Acquire.  The first runs it for the executor itself, the    *)
(* second for the owner the entry names, which may be another executor.    *)

SweepOwner(t) == IF h[t].section = "find" THEN h[t].pid ELSE h[t].ent.pid

SweepSkip(t) ==
    /\ h[t].pc = "sweep"
    /\ \E o \in h[t].left :
         /\ ~staleHostEntry(o, SweepOwner(t))
         /\ h' = [h EXCEPT ![t].left = @ \ {o}]
    /\ UNCHANGED <<host, disk, admission>>

\* Mutant: an entry that cannot be decrypted is deleted before its index.
AbandonFileFirst(t) ==
    /\ h[t].pc = "sweep"
    /\ \E o \in h[t].left :
         /\ staleHostEntry(o, SweepOwner(t))
         /\ files' = IF readOperation(h[t].pid, o)
                       THEN [files EXCEPT ![o].status = "abandoned"]
                       ELSE [files EXCEPT ![o] = None]
         /\ h' = [h EXCEPT ![t].pc = "drop", ![t].cur = o, ![t].left = @ \ {o}]
    /\ UNCHANGED <<host, nextOp, index, claims, admission>>

\* A stale entry that cannot be decrypted is not marked, only taken away.
AbandonFile(t) ==
    /\ h[t].pc = "sweep"
    /\ \E o \in h[t].left :
         /\ staleHostEntry(o, SweepOwner(t))
         /\ files' = IF readOperation(h[t].pid, o)
                       THEN [files EXCEPT ![o].status = "abandoned"]
                       ELSE files
         /\ h' = [h EXCEPT ![t].pc = "drop", ![t].cur = o, ![t].left = @ \ {o}]
    /\ UNCHANGED <<host, nextOp, index, claims, admission>>

\* The claims of an operation go one file at a time, then its index.
DropClaim(t) ==
    /\ h[t].pc = "drop"
    /\ \E c \in claims : c.op = h[t].cur /\ claims' = claims \ {c}
    /\ UNCHANGED <<host, nextOp, files, index, admission, h>>

\* Mutant: the index goes while claims of its operation are left.
DropIndexEarly(t) ==
    /\ h[t].pc = "drop"
    /\ h[t].section # "finalize"
    /\ index' = [index EXCEPT ![h[t].cur] = None]
    /\ h' = IF readOperation(h[t].pid, h[t].cur)
               THEN [h EXCEPT ![t].pc = "sweep", ![t].cur = 0]
               ELSE [h EXCEPT ![t].pc = "purge"]
    /\ UNCHANGED <<host, nextOp, files, claims, admission>>

DropIndex(t) ==
    /\ h[t].pc = "drop"
    /\ h[t].section # "finalize"
    /\ \A c \in claims : c.op # h[t].cur
    /\ index' = [index EXCEPT ![h[t].cur] = None]
    /\ h' = IF readOperation(h[t].pid, h[t].cur)
               THEN [h EXCEPT ![t].pc = "sweep", ![t].cur = 0]
               ELSE [h EXCEPT ![t].pc = "purge"]
    /\ UNCHANGED <<host, nextOp, files, claims, admission>>

PurgeFile(t) ==
    /\ h[t].pc = "purge"
    /\ files' = [files EXCEPT ![h[t].cur] = None]
    /\ h' = [h EXCEPT ![t].pc = "sweep", ![t].cur = 0]
    /\ UNCHANGED <<host, nextOp, index, claims, admission>>

SweepDone(t) ==
    /\ h[t].pc = "sweep"
    /\ h[t].left = {}
    /\ h' = [h EXCEPT ![t].pc = IF h[t].section = "find" THEN "lookup" ELSE "conflicts"]
    /\ UNCHANGED <<host, disk, admission>>

-----------------------------------------------------------------------------
(* Acquire, between the critical sections and in the second: tryActivate,  *)
(* which works on the copy of the entry the first section returned.        *)

\* Mutant: an entry found queued is granted like a running one.
GrantActive(t) ==
    /\ h[t].pc = "check"
    /\ isActiveOperationStatus(h[t].ent.status)
    /\ Answer(t, "granted")
    /\ UNCHANGED <<host, disk, admission>>

\* The entry was running when it was found: granted with no further check.
GrantRunning(t) ==
    /\ h[t].pc = "check"
    /\ h[t].ent.status = "running"
    /\ Answer(t, "granted")
    /\ UNCHANGED <<host, disk, admission>>

\* The context of the call is done: the caller went away.
CancelAcquire(t) ==
    /\ h[t].pc = "check"
    /\ h[t].ent.status # "running"
    /\ h' = [h EXCEPT ![t].pc = "read", ![t].section = "none", ![t].ent = None]
    /\ UNCHANGED <<host, disk, admission>>

ActivateLock(t) ==
    /\ h[t].pc = "check"
    /\ h[t].ent.status # "running"
    /\ EnterSection(t, "activate", "sweep", readHostOperationIndexes)
    /\ UNCHANGED <<host, disk>>

\* readLockClaims deletes the claims whose owner is not active.
liveClaims == {c \in claims : operationJournalOwnerActive(c.pid, c.boot)}

\* Mutant: the claims of the same owner are passed over, not only those of
\* the same operation.
conflictsByOwner(t) ==
    \E c \in liveClaims, l \in LockSet(h[t].ent.req) :
        c.pid # h[t].ent.pid /\ locksConflict(c.lock, l)

conflictsLocked(t) ==
    \E c \in liveClaims, l \in LockSet(h[t].ent.req) :
        c.op # h[t].op /\ locksConflict(c.lock, l)

CheckConflicts(t) ==
    /\ h[t].pc = "conflicts"
    /\ claims' = liveClaims
    /\ IF conflictsLocked(t)
         THEN admission' = None /\ Answer(t, "queued")
         ELSE /\ h' = [h EXCEPT ![t].pc = "runFile",
                                ![t].ent.status = "running",
                                ![t].todo = LockSet(h[t].ent.req)]
              /\ UNCHANGED admission
    /\ UNCHANGED <<host, nextOp, files, index>>

RunFile(t) ==
    /\ h[t].pc = "runFile"
    /\ files' = [files EXCEPT ![h[t].op] = h[t].ent]
    /\ h' = [h EXCEPT ![t].pc = "runIndex"]
    /\ UNCHANGED <<host, nextOp, index, claims, admission>>

RunIndex(t) ==
    /\ h[t].pc = "runIndex"
    /\ index' = [index EXCEPT ![h[t].op] = h[t].ent]
    /\ h' = [h EXCEPT ![t].pc = "claim"]
    /\ UNCHANGED <<host, nextOp, files, claims, admission>>

WriteClaim(t) ==
    /\ h[t].pc = "claim"
    /\ \E l \in h[t].todo :
         /\ claims' = claims \cup {[op |-> h[t].op, pid |-> h[t].ent.pid,
                                    boot |-> h[t].ent.boot, lock |-> l]}
         /\ h' = [h EXCEPT ![t].todo = @ \ {l}]
    /\ UNCHANGED <<host, nextOp, files, index, admission>>

GrantActivated(t) ==
    /\ h[t].pc = "claim"
    /\ h[t].todo = {}
    /\ admission' = None
    /\ Answer(t, "granted")
    /\ UNCHANGED <<host, disk>>

-----------------------------------------------------------------------------
(* finalize, for Release and for an Acquire that gives up.  The entry is   *)
(* read before the admission lock is taken and written back under it.      *)

Release(t, p, o) ==
    /\ h[t].pc = "idle"
    /\ procs[p] # None
    /\ o < nextOp
    /\ h' = [h EXCEPT ![t].pc = "read", ![t].pid = p, ![t].op = o]
    /\ UNCHANGED <<host, disk, admission>>

\* What the handler answers once finalize has returned: an Acquire that gave
\* up (it has a request) reports its own error.
FinalAnswer(t) == IF h[t].req = None THEN "released" ELSE "error"

FinalRead(t) ==
    /\ h[t].pc = "read"
    /\ IF readOperation(h[t].pid, h[t].op)
         THEN h' = [h EXCEPT ![t].pc = "finalize", ![t].ent = files[h[t].op]]
         ELSE Answer(t, "error")
    /\ UNCHANGED <<host, disk, admission>>

FinalLock(t) ==
    /\ h[t].pc = "finalize"
    /\ EnterSection(t, "finalize", "finalFile", {})
    /\ UNCHANGED <<host, disk>>

\* Mutant: the status the client sent, possibly empty, is written as it is.
FinalFileRaw(t) ==
    /\ h[t].pc = "finalFile"
    /\ files' = [files EXCEPT ![h[t].op] = [h[t].ent EXCEPT !.status = ""]]
    /\ h' = [h EXCEPT ![t].pc = "drop", ![t].cur = h[t].op]
    /\ UNCHANGED <<host, nextOp, index, claims, admission>>

FinalFile(t) ==
    /\ h[t].pc = "finalFile"
    /\ files' = [files EXCEPT ![h[t].op] = [h[t].ent EXCEPT !.status = "finished"]]
    /\ h' = [h EXCEPT ![t].pc = "drop", ![t].cur = h[t].op]
    /\ UNCHANGED <<host, nextOp, index, claims, admission>>

FinalIndex(t) ==
    /\ h[t].pc = "drop"
    /\ h[t].section = "finalize"
    /\ \A c \in claims : c.op # h[t].cur
    /\ index' = [index EXCEPT ![h[t].cur] = None]
    /\ admission' = None
    /\ Answer(t, FinalAnswer(t))
    /\ UNCHANGED <<host, nextOp, files, claims>>

-----------------------------------------------------------------------------
(* Failures and the life of processes. *)

\* Writing a file of a critical section fails (a full disk).  An Acquire
\* that was activating finalizes its entry, the others answer the error.
\* A removal or a look into a directory that fails is left out: it stops the
\* handler between two files, as a crash or the failed write before it does.
IOError(t) ==
    /\ h[t].pc \in {"sweep", "lookup", "createIndex", "runFile", "runIndex", "claim", "finalFile"}
    /\ admission' = None
    /\ IF h[t].section = "activate"
         THEN h' = [h EXCEPT ![t].pc = "read", ![t].section = "none", ![t].ent = None,
                             ![t].left = {}, ![t].todo = {}]
         ELSE Answer(t, "error")
    /\ UNCHANGED <<host, disk>>

\* The answer leaves the executor and the slot is free again.
Reply(t) ==
    /\ h[t].pc = "reply"
    /\ h' = [h EXCEPT ![t] = Idle]
    /\ UNCHANGED <<host, disk, admission>>

\* The pids that are in use or that the journal names.
PidsOnHost ==
    {p \in Pid : \/ procs[p] # None
                 \/ \E o \in Op : files[o] # None /\ files[o].pid = p}

\* An executor starts for a workspace; its pid may have been used before.
Start(p, w) ==
    /\ procs[p] = None
    /\ boot > 1 => Cardinality(PidsOnHost \cup {p}) <= RebootPids
    /\ procs' = [procs EXCEPT ![p] = w]
    /\ UNCHANGED <<boot, disk, admission, h>>

\* The handlers of the processes in dead vanish, and the admission lock with
\* its holder.
KillHandlers(dead) ==
    /\ h' = [t \in Thread |-> IF h[t].pid \in dead THEN Idle ELSE h[t]]
    /\ admission' = IF admission # None /\ h[admission].pid \in dead
                      THEN None ELSE admission

Crash(p) ==
    /\ procs[p] # None
    /\ procs' = [procs EXCEPT ![p] = None]
    /\ KillHandlers({p})
    /\ UNCHANGED <<boot, disk>>

Reboot ==
    /\ boot < MaxBoot
    /\ Cardinality(PidsOnHost) <= RebootPids
    /\ boot' = boot + 1
    /\ procs' = [p \in Pid |-> None]
    /\ KillHandlers(Pid)
    /\ UNCHANGED disk

-----------------------------------------------------------------------------
\* One step of a running handler, failures apart.
Step(t) ==
    \/ FindLock(t) \/ LookupHit(t) \/ CreateFile(t) \/ CreateIndex(t)
    \/ SweepSkip(t) \/ AbandonFile(t) \/ DropClaim(t) \/ DropIndex(t)
    \/ PurgeFile(t) \/ SweepDone(t)
    \/ GrantRunning(t) \/ ActivateLock(t) \/ CheckConflicts(t)
    \/ RunFile(t) \/ RunIndex(t) \/ WriteClaim(t) \/ GrantActivated(t)
    \/ FinalRead(t) \/ FinalLock(t) \/ FinalFile(t) \/ FinalIndex(t)

Next ==
    \/ \E t \in Thread, p \in Pid, r \in Request : Acquire(t, p, r)
    \/ \E t \in Thread, p \in Pid, o \in Op : Release(t, p, o)
    \/ \E t \in Thread : Step(t)
    \/ \E t \in Thread : CancelAcquire(t)
    \/ \E t \in Thread : IOError(t)
    \/ \E t \in Thread : Reply(t)
    \/ \E p \in Pid, w \in Workspace : Start(p, w)
    \/ \E p \in Pid : Crash(p)
    \/ Reboot

Spec == Init /\ [][Next]_vars

-----------------------------------------------------------------------------
(* Properties. *)

Handler ==
    [pc : {"idle", "find", "sweep", "drop", "purge", "lookup", "createIndex",
           "check", "conflicts", "runFile", "runIndex", "claim", "read",
           "finalize", "finalFile", "reply"},
     section : {"none", "find", "activate", "finalize"},
     pid : Pid \cup {None},
     req : Request \cup {None},
     op : Op \cup {0},
     ent : Entry \cup {None},
     left : SUBSET Op,
     cur : Op \cup {0},
     todo : SUBSET Lock,
     res : {"none", "granted", "queued", "released", "error"}]

\* The shape of the host, of the files and of the handlers.
TypeOK ==
    /\ boot \in Boot
    /\ procs \in [Pid -> Workspace \cup {None}]
    /\ nextOp \in 1..(MaxOps + 1)
    /\ files \in [Op -> Entry \cup {None}]
    /\ index \in [Op -> Entry \cup {None}]
    /\ claims \subseteq Claim
    /\ admission \in Thread \cup {None}
    /\ h \in [Thread -> Handler]

\* The claims on disk never contradict each other: two operations never hold
\* conflicting locks, whatever executors crash between two writes, however
\* stale the entry a handler activates and whichever pid is reused.
ClaimsNeverConflict ==
    \A c, d \in claims : c.op # d.op => ~locksConflict(c.lock, d.lock)

\* Every claim can be found by a sweep: the index names its operation and the
\* same owner.  A claim without an index would outlive finalize and abandon.
ClaimsAreIndexed ==
    \A c \in claims :
        /\ index[c.op] # None
        /\ index[c.op].pid = c.pid
        /\ index[c.op].boot = c.boot

\* The plain index, on which other workspaces judge an operation stale, and
\* the encrypted entry it stands for exist together and name one request and
\* one owner: findOperationByRequestIDLocked never meets its own index
\* without a readable entry.
IndexMatchesFile ==
    \A o \in Op :
        index[o] # None =>
            /\ files[o] # None
            /\ index[o].req = files[o].req
            /\ index[o].pid = files[o].pid
            /\ index[o].boot = files[o].boot
=============================================================================
