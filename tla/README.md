# TLA+ models of the Ubuntu Terraform provider

The provider manages hosts over SSH. It pushes an executor binary to a host,
talks to it by JSON-RPC over the executor's stdin and stdout, and the executor
runs WASM modules, the guest packs, that change the host. Several Terraform runs
("workspaces", each its own provider process) may manage one host at the same
time; a journal of files on the host keeps their operations apart. This directory
models the parts in which processes, goroutines, crashes and half-done changes
meet, checks them with TLC and proves the central invariants with TLAPS.

Paths below are relative to `src/`.

## The system's parts

| part | state | operations | interacts with | what makes it correct |
|---|---|---|---|---|
| lock descriptors (`shared/hostrpc/rpc.go`, `executor/runtime/operation_journal.go`) | none | normalise, conflict test | journal, lock planning | symmetric conflicts, dominating keys |
| operation journal (`executor/runtime/operation_journal.go`, `journal_key.go`) | entry, index and claim files, a flock per host | Acquire, Release, the sweep of stale entries | executors of all workspaces share the files | conflicting claims never coexist; nothing a crash leaves behind is beyond the reach of the sweep |
| executor daemon (`executor/daemon/main.go`) | the process, up to 8 handlers | serve, exit when stdin closes | journal, WASM runtime | a lease does not outlive it, nor the other way round |
| leases of the provider (`providers/shared/hostsession/manager.go`) | per call: request id, attempts | acquireOperationLease, locked call, releaseOperationLease | journal through RPC, session | mutations with conflicting locks never overlap; nobody waits forever |
| session runtime (`session_runtime.go`, `manager.go`) | activeCalls, resetInProgress, BootstrapMu, client, loaded modules | reserve, release, reset, ensure, load, retry | pool, executor | a call keeps its client; every call ends |
| host readiness (`host_readiness.go`) | hostReady, hostReadyRoot, readyInProgress | check, wait, clear | session runtime, reboot protocol | a verdict is one of the right kind; everybody who waits is answered |
| restart journal (`executor/runtime/restart_journal.go`) | record file per request, helper process | start, wait, resume | executor, systemd | the command runs once per request |
| reboot protocol (`restart_host.go`, `reboot_journal.go`, `reboot_platform.go`, `reboot_barrier_resource.go`) | an entry per operation and per name, its phase, boot ids | prepare, issue, wait, verify, resume | journal, session, leases | completion is proved, the command is not repeated, every request ends |
| connection pool (`transport/pool.go`) | sessions, attempts in flight, use counts, LRU order | GetOrCreate, Remove, Reconnect, evict, Close | manager, SSH | one attempt per host, no lost use, the expected host, every operation ends |
| SSH transport, host keys (`transport/ssh.go`, `hostkeys.go`) | connections, known keys | dial, verify, run | pool | an unknown or changed key is refused as configured |
| RPC channel, tunnel (`shared/hostrpc`) | counters, keys | handshake, frame | both ends | no frame is accepted twice or out of order |
| WASM runtime, dispatcher (`executor/runtime/wasm.go`, `dispatch.go`) | module cache, instance pools | load, verify, CRUD | host capabilities | an instance serves one call at a time |
| resource engine (`providers/shared/engine`) | Terraform state, private state | create, read, update, delete, import | manager, lock planning | state describes the host; destroy safety; a rebuilt host is left alone |
| lock planning (`engine/locks.go`, `catalog/locks.go`) | none | lock set per resource and action | journal | resources that touch the same thing conflict |
| guest packs (`guest/packs`) | the host | CRUD per resource type | host capabilities, guest SDK | what is not managed stays; refusals are harmless; written is in effect |
| catalog, serving, assets, build, logging | declarations | none | all | out of scope |

What is hard here: files of three kinds that are updated one by one with a
crash possible in between; executors of different workspaces that cannot decrypt
each other's entries yet must clean up after one another; ownership by pid, in a
world of reused pids and reboots; retries of calls whose first instance may
still be running; one session shared by many goroutines that may each decide to
reset it; a mutex next to a leader/follower protocol; a protocol whose middle is the
reboot of the host that keeps its journal; a pool that hands out sessions others
evict and reconnect; and some twenty resource types that edit files shared with
others in several steps, each of which may be the last. `PROJECT.json` lists these
hazards at their lines, with the properties aimed at each.

## Modules

| module | models | composed of |
|---|---|---|
| `HostLocks` | lock descriptors and their conflicts | |
| `OperationJournal` | the journal of one host, its handlers, its executors | `HostLocks` |
| `LeaseService` | what leases promise: an abstract lock service | `HostLocks` |
| `OperationLease` | providers of several workspaces over the journal: leases, retries, session resets; implements `LeaseService` | `OperationJournal`, `LeaseService` |
| `SessionRuntime` | one session shared by goroutines: BootstrapMu, reservations, resets, module loads | |
| `RestartJournal` | one journaled restart of a process: retried calls, the record, detached helpers | |
| `HostReadiness` | the readiness gate of a session | |
| `RebootBarrier` | restarting a host, its journal, the barrier resource and the action | `HostReadiness` |
| `ConnectionPool` | the pool of SSH sessions with the host key decision, under the manager's operations | |
| `GuestOps` | what guest packs have in common: outcomes of a sequence of calls, line files and the lines at chosen positions of them | |
| `FilesConfig` | file, symlink, kernel_modules, hosts_entry, sysctl_entry, network_stack, fstab_entry, swap, sshd_config, crontab_entry | `GuestOps` |
| `SystemServices` | systemd_unit, timezone, timesync | `GuestOps` |
| `PackagePacks` | package, package_lock, apt_repository, trusted_cert | `GuestOps` |
| `AccessPacks` | tls_identity, ufw_rule, group, user, command | `GuestOps` |
| `GuestPacks` | the table of types: pack operations, catalog policies, import ids | the four packs |
| `LockPlanning` | the locks each operation plans | `GuestPacks`, `HostLocks` |
| `ResourceEngine` | Terraform's operations on resources of every type | `LockPlanning` |
| `OperationProofs` | theorems: the admission lock and the claims, the owners of operations and the journal's three kinds of file, the leases and the refinement of `LeaseService` | `OperationLease` |
| `SessionRuntimeProofs`, `RestartJournalProofs`, `RebootBarrierProofs`, `ConnectionPoolProofs` | theorems about the module they are named after | |
| `GuestPackProofs` | lemmas: what the operations of the packs leave of a host, and of the lines of a file | `ResourceEngine` |
| `ResourceTypeProofs` | the contract of each of the 22 types | `GuestPackProofs` |
| `ResourceEngineProofs` | theorems about `ResourceEngine` | `ResourceTypeProofs` |
| `MC...` | instances for TLC | |

### OperationJournal

`files`, `index` and `claims` are the three directories of the journal; an entry
is reduced to its request, owner pid, owner boot id and status, an index to the
same (it is a copy of the entry), a claim to operation, owner and lock. `procs`
says which workspace an executor process serves; an entry can be decrypted by
executors of the workspace that requested it (`unmarshalEncryptedJSON`), because
every provider process makes its own journal key. `h[t]` is one RPC handler: where it
stands, its copy of an entry, and what it has still to do. Every write or removal
of a file is an action, so that a `Crash`, a `Reboot` or an `IOError` can come
between any two. Each single write is atomic, as `FileWrite` writes a temporary
file and renames it. `EnterSection` is the flock of `withAdmissionLock`; the kernel
drops it with its holder (`KillHandlers`). Timestamps, attempts and error texts
are left out, and completed and failed are one status, as no code of the journal
reads them. Removing the claims of dead owners in `readLockClaims` is one step: a
crash in the middle leaves the rest to be removed by the next reader, which no
property tells apart from not having begun. Two more things are merged or left out. A
removal, or a look into a directory, that fails stops a handler between two files; a
crash or a failed write does the same at every such place, and `IOError` is the failed
write. And `createEntry`, like the grant of an existing entry, first forgets the index
of a request whose entry cannot be read; a workspace can always read its own entry and
writes it before the index, so there is never one to forget
(`NothingForgotten` in `OperationProofs`), and the step goes with the write that follows.

The model allows more than a provider does: any executor may be asked to release
any operation id that was given out, at any time.

### OperationLease and LeaseService

`cl[r]` is one locked operation in its provider: it acquires, mutates, releases,
each phase a call with its own retry budget (`withRetries`). `exec[w]` is the
executor behind the session of workspace `w`; `mut[r]` the executors in which the
mutation of `r` is running, the ghost on which exclusion is stated. A call may
fail at any time, `MaxLosses` times per phase; its handler goes on. A reset
waits until no call of the session is reserved and ends the executor, at once or,
for the phases in `Orphans`, when its handlers have returned: an executor exits
after `server.Wait()`, which waits for them. Poll delays and timeouts are
nondeterministic choices: a queued request may poll again or give up.
`SendOperationLocked`, `InvokeActionLocked`, `HostCommandLocked` and
`RestartProcessLocked` are the same three phases and are not told apart.

`LeaseService` is the contract without executors, files and retries: a request is
granted all its locks at once, if none conflicts with a lock somebody holds, keeps
them until it is through with its mutation, or gives up. `ImplementsService` is
the refinement: a request holds its locks from the answer to its Acquire to the end
of its mutation.

### SessionRuntime

`mu` is BootstrapMu, `active` is activeCalls, `resetting` is resetInProgress. A
caller is one `withRetries` loop; an ensurer one `EnsureExecutorWithReconnect`.
`held` is the parameter bootstrapHeld. `beginEnsure` needs no state of its own: it
is only reached with BootstrapMu held. Contexts have no deadline, as those of
reads, lease acquisitions and actions; a mutation has one, and it would end the
wait of a follower, not that of a leader in `BootstrapMu.Lock()`.

### RestartJournal

`record` is the status in the record file of one operation id, `lock` its flock,
`pc[a]` the handler of the a-th attempt of `withRetries` and `helper[a]` the helper
process that handler has started. Every write of the record is an action of its
own, because the helper and `startRestartHelper` write it without the flock. `runs`
counts the starts of the command. A handler's context is cancelled once its
provider has gone on (`Cancelled`): the executor's RPC server loses its stdin.
Each attempt is in an executor of its own, since `withRetries` resets the session
after every failure, and it retries every error, those a handler returns
included. The contents of the result, the timestamps and the key are left out:
all attempts of an operation come from one provider process, hence have one key.

### HostReadiness and RebootBarrier

A client is a barrier or an action and has one restart at a time: it takes the
exclusive lease, asks the journal to prepare an entry, reads the proof (boot id and
machine id), marks each phase, sends the command, resets its session, waits for
another boot id, validates, waits for the host to settle, completes. Every mark
writes two files, the entry of the operation and the one its name points to, and
the executor may die between them. The clients run in one provider process or in
several (`proc`), and in a new one when Terraform is run again. A process has one
session to the host and one journal key: its requests of the same name share an entry
and resume it where it stands, and a reset or a reconnection by one ends the executor,
and the lease, of the other. An entry written with another key cannot be read;
`Prepare` removes it and starts a new operation. A `reboot_barrier` with other triggers
has another name, and `restart_host` actions have names of their own. The reboot
command sleeps before it runs (`pending`). The host may go down unasked, and may be another machine when it
comes back. Durations are not modelled: a deadline may pass at any time while it
runs. `HostReadiness` has the leader, the waiters and the verdicts of the gate that
operations pass; a reset of the session clears it. Two things are
left out: the barrier's `Read`, which only compares, and the removal of old artifacts.

### ConnectionPool

A worker is one operation of the manager: it gets a session for its target, marks it
in use, calls, unmarks it and, if the call failed, reconnects the session and tries
again. A session has its link, the host key it has seen and its uses. The three
cases of `GetOrCreate` under the pool's mutex, the dial outside it, the second critical
section, the eviction in it and the closing of the victim after it are steps of their
own; so are those of a reconnect. `trusted` is the trust store, `hostKeyCallback` the
decision of a handshake. The retry budget of a dial is one step that succeeds or
fails. That resets of one session exclude each other and the calls over it is
what `SessionRuntime` shows; here it is the guard `CanReset`, and it is about one session.
Two sessions of one target (the older one removed or evicted while a worker still holds
it) are reset at once by workers that know nothing of each other; what keeps their
reconnects apart is the pool's `inflight` alone.

### The guest packs

An operation of a pack is the set of its outcomes: the host it leaves and what it
returns (`GuestOps`). It is computed from the hosts it passes through, one per call
that changes something, each of which may be the last (`Run`, `Then`). `Refused` is
an error that promises an unchanged host, `Failed` any other one or no answer. A
host is the part the resource type works on: the lines of a file (entries, or lines
nobody can parse, kept as they are), tables by key, and what the kernel or a daemon
has taken from them (`live`, `runs`, `seen`). The initial hosts hold things that are
not managed: duplicate entries, comments, a broken certificate, half a key pair,
rules of others, sources that use the same key. `UnitPlan`, `FilePlan` and so on are the
arguments that reach the branches; the validation of attributes is left out except
where it decides an outcome.

Shared files. `FileWrite` renames a temporary file over the target, which is atomic;
where that is not possible (EBUSY, EXDEV, EPERM: a bind-mounted `/etc/hosts`) it truncates
the target and copies. `mount` says of a host which of the two it is, and `TornWrite` adds, for
the hosts file, the sysctl file, fstab (by a mount entry or by the swap switch) and
sshd_config, that a failed write leaves only the first lines of the new file. `file` has the same
for its one target (`Torn`). A copy that ends within a line leaves a fragment as well,
which is nobody's line, and is left out. The files of the other types hold one
resource's contents each, and their writes are atomic in the model: half a file there is
a failed operation on a resource that is marked as such. A crontab is replaced
by the `crontab` command.

External, and modelled from how the packs use them: systemctl, ufw, the commands of
shadow, apt and dnf, sshd's own check, update-ca-certificates.

### LockPlanning and ResourceEngine

`LockPlanner` is the table of keys per type, `planResourceLocks` adds the mode.
`ResourceEngine` follows one scenario at a time: two resources of a type, or of types
that share a file, on one host, or one resource over two hosts that may be lost,
come back, or be rebuilt under the same address. `tf` is the state Terraform keeps
(with the host, its key fingerprint and the destroy permission), `priv` the private state,
`dirty` the resources whose last operation failed after it may have changed
something, whose file another operation has left torn, or whose host was rebuilt. `met` is
the key of the host at the last operation on the resource there, whatever came of it. An
action is one operation of the provider from its guards (destroy
safety, pinned fingerprint, reachability) over the pack's outcome to the recorded
state, with the read-back of the types that have one. The key that is recorded is not the one
the operation met but the one the pool has when it is asked afterwards
(`observedHostKeyFingerprintValue`): the session may have been evicted or removed by
then, and what is recorded is the key of the prior state, if that was of the same host, or none (0).
A resource without a recorded key goes to any host. Sessions are lost in this
way only in the scenarios with faults, as elsewhere no host has a second key. One action is one whole operation:
that operations on the same objects do not interleave is what `LocksKeepApart` and the
journal's theorem say together. A host that is rebuilt between an operation and the record
of its key is therefore not modelled.

## Runs

| run | instance | shows |
|---|---|---|
| `journal` | 2 pids, 2 workspaces, 1 request each, 2 handlers, 2 operations, 2 boots | `TypeOK`, `ClaimsNeverConflict`, `ClaimsAreIndexed`, `IndexMatchesFile` under crashes, write errors, pid reuse and a reboot |
| `lease` | 2 requests, 3 pids, 3 handlers, a loss while acquiring and two while releasing, executors that outlive their sessions | `LeaseTypeOK`, `MutationExclusion`, `LeaseIsBacked`, and `ImplementsService`: the protocol is the abstract lease service |
| `lease_live` | 5 pids, one loss in any phase; one workspace retries, the other gives up and leaves its lease behind | `EveryRequestEnds` |
| `lease_retry` | loss of a mutation | violated: see findings |
| `session` | 3 callers (two need the same module), an ensurer, 2 attempts, 3 faults, with and without lost connections | `TypeOK`, `CallKeepsClient`; `CallsReturnWhileLinked` while the connection holds |
| `session_deadlock` | 2 callers, an ensurer, the connection may be lost | violated |
| `restart` | 3 attempts, 3 faults: lost calls, failed writes and starts, dead executors, reboots | `RestartTypeOK`, `RunsAtMostOnce`, `ResultIsFinal`, `AbandonedHandlersEnd` |
| `restart_race` | no fault | violated |
| `reboot` | 2 clients in one process or in two, a barrier and an action, 2 requests and one fault, or one request beside 2 operations at the gate | `RebootTypeOK`, `CompletedIsProved`, `IssuedOnce`, `RootIsChecked`, `EveryRestartCompletes`, `EveryRequestEnds` |
| `pool` | 3 workers, 2 targets, a pool of 1, 2 attempts, one fault, one removal | `PoolTypeOK`, `SingleFlight`, `CallsKnownHost`, `UsesAreCounted`, `EveryOperationEnds` |
| `pool_limit` | the same | violated |
| `engine` | 22 resource types: two resources of each type with keys, one of every other, an fstab_entry beside swap; 2 hosts and 2 host faults for symlink | `EngineTypeOK`, `StateMatchesHost`, `OthersKept`, `RefusalIsHarmless`, `DeletedIsGone`, `WrittenIsInEffect`, `KeysInUseStay`, `SSHStaysAllowed`, `LocksKeepApart`, `OnlyTheKnownHost`, `PinHolds` |

The bounds. Two operations with one shared and one exclusive lock on the same
resource and a second lock for one of them are enough for an activation to be cut
between two claims and to meet another in every state; two pids are enough for a
live executor to sweep a dead one and for a pid to come back with the other
workspace. After the reboot one pid is in use (`RebootPids`): a second would only
repeat what the first boot has shown; the theorems hold for any number. In the lease runs a third operation id and more pids than workspaces leave room
for a request to be retried on a new executor and to have its entry swept and made
again: in `lease` for one of the two, in `lease_live` for each; the theorems hold for
any number. Pids are not reused there; `OperationJournal` covers that. Three attempts at a
restart are a launch, a relaunch and a third that meets the two. Two requests to
restart the host are two clients on one entry, on two, or on two of the same name
and different processes, or one request after another that was killed, timed out or
completed; one fault falls between any two of their steps. The first request is that of
a barrier, and competing processes use the same name, as other names share less. Three
workers over two targets and a pool of one have a session dialled, waited for, evicted
and reconnected at once, and one of them removed under a worker that still holds it, so that two sessions
of a target are reset together. In `engine` each type has the plans and hosts that reach every
branch of its pack; what two resources of one type do to each other is what n do, as
operations work on one object each. Each file that can be torn is on a host where it can be
renamed over and on one where it cannot. The hosts of the packs do not depend on which
host of the provider they are, so that one type (symlink, which has all the
operations) stands for all under host faults. `MaxLosses`, `MaxFaults`, `MaxAttempts`,
`MaxOps`, `MaxBoot`, `RebootPids`, `MaxRuns`, `GateRuns`, `MaxRemovals` are the only
bounds, and each is in a guard.

Deadlock is checked in `journal`, `reboot` and `pool`, where the end of all work is a
step of its own. It is not in the lease runs, which stop when the requests are done
or the bounded pids are spent, nor in the session runs, where a deadlock is the
finding, nor in the restart runs, which stop when the provider has its answer or when
all wait, nor in `engine`, where a resource may be refused everything (a destroy that
is not allowed on a host that is gone).

Fairness: handlers and goroutines run; the kernel and `sync.Mutex` serve every
waiter in turn, hence strong fairness of steps that take a lock; answers arrive or
the call fails; an executor whose stdin is closed exits; a provider process whose
operations are done exits. In `RestartJournal` a restart command is assumed to end. In
`RebootBarrier` a command that was sent runs, a host that went down comes up, a
readiness check ends, and a deadline is noticed once something has gone wrong; a run
without faults has to end without its deadlines. Whether the host comes up in time is
open. In `ConnectionPool` some worker takes a step as long as one can, which is less than
fairness to each of them: no worker has steps without end, so all come to theirs; a dial ends,
because the SSH client has a timeout. No failure is assumed to happen or not to
happen, except within its bound.

Every property of a passing run has a mutant in `PROJECT.json`: a definition marked
`Mutant` next to the one it replaces, under which TLC finds the property violated.

## Findings

1. `lease_retry`. The journal knows a lease by the pid of the executor that granted
   it. A mutation whose call fails is retried on a new executor while the lease
   still names the old one; the next `Acquire` of another workspace sweeps it and
   is granted conflicting locks. Two more ways lead there, and are the cases the
   passing lease runs leave out: the failed call may be that of another operation
   of the workspace, whose retry resets the shared session in the gap between
   grant and mutation; and an `Acquire` retried while its predecessor is exiting
   may be granted the entry which that one has activated under its own pid.
2. `session_deadlock`. `resetSessionSafely` becomes leader before it locks
   BootstrapMu; a caller that fails to prepare asks for a reset with BootstrapMu
   held and follows that leader. Both wait forever.
3. `restart_race`. A helper that finishes before its launcher has written `running`
   loses its result to that write; the call then waits forever.
4. `pool_limit`. Sessions in use are passed over by the eviction and the new session
   is added all the same, so that the pool has more than `max_connections`, which
   `docs/index.md:34` calls the maximum.

With the failing case left out, the passing runs of the same modules show that the
protocol is otherwise sound.

Limits that the models have as the code has them, and that the properties name or
leave out, since nothing in the repository promises more:

* Restart journal. `RunsAtMostOnce` and the second half of `ResultIsFinal` hold only
  while writes succeed: if the write of the record fails after the helper was
  started, the launch is recorded as failed and the retry runs the command again. No
  property promises an answer, since a record left in `launching` or `running` by a
  dead executor or helper is never taken over.
* Reboot. An entry that failed stays the current one of its name, and later requests
  of that name are refused as long as the provider process lives; the next process
  cannot decrypt it, removes it and starts over. For the same reason the entry of a
  process that was killed is never resumed: the next one makes a new operation, and
  reboots the host again if the first has already done so. `reboot_issued` is marked
  before the command is sent, so that a request which ends in between leaves an entry
  that waits and times out. A lost answer makes the command run again, and so does a
  lease that ends before the command was sent, as another request may then resume the
  entry (`IssuedOnce` promises one run only while none of these was lost). The exclusive lease dies with the
  executor at the first reset, so two requests on one entry may overwrite each other's
  boot id, or put a completed entry back to waiting; what is reported complete is
  proved all the same.
* Readiness. A clear during a check lets a second one start, and the first to end
  records a verdict on the host before the clear.
* Pool. A reconnect replaces or forgets the cached session without closing it; a
  session may be evicted and closed between `GetOrCreate` and `AcquireUse` (the call
  then fails and is retried); a wrong host key counts as a passing failure and is
  dialled again until the budget is spent.
* Torn files. A write of the hosts file, the sysctl file, fstab or sshd_config that fails
  half-way, where the file cannot be renamed over, takes lines of other resources and
  of nobody with it. `OthersKept` excepts the failed write of such a file by name
  (`Tears`), and `StateMatchesHost` counts all resources of a torn file among those
  in doubt until their next refresh or write; both hold of every other failure.
* Host keys. A resource is recorded without a key when its first operation's session has left
  the pool before the key is asked for; nothing is checked on its behalf until an
  operation finds one. `OnlyTheKnownHost` and `PinHolds` are about resources with a key. A
  refresh that meets another key fails, and the resource stays in the state; one that
  cannot dial at all drops it.
* State and host. `WrittenIsInEffect` says that a write which reports success is in
  effect, not that a refresh notices when it is not: after a failure between file and
  kernel, `kernel_modules`, `sysctl_entry` and `network_stack` read as planned.
  `sshd_config` and `trusted_cert`, retried after a failed reload, find the file as it
  should be and do not reload. A ufw rule's content, and a package or lock planned
  absent, are not read back.
* Identity. Only `file` and `symlink` are replaced when their path changes; a new
  key of `sysctl_entry`, `fstab_entry`, `kernel_modules` or `package` leaves the old
  entry behind; `user`, `group` and `hosts_entry` go on working on the old name. An update
  that also moves the resource to another host works with its old name there: a group
  that is declared absent under its new name removes, on the new host, the group that
  had the old one, though another resource keeps it.
* Partial failure. A crash between the two files of `tls_identity` leaves a pair
  nothing can read but a person; one between two crontabs leaves the job in both; a
  symlink is removed before it is made again; a repeated `userdel` or `groupdel`
  fails on what the first one has done.
* Firewall. A rule of the new resource's name that Terraform does not know of is
  removed without being counted as an SSH rule, and between the removal of a rule and
  the addition of its successor neither is there; `SSHStaysAllowed` is about changes
  that succeed, without such a leftover.
* Engine. A refresh while a host cannot be dialled forgets its resources; the
  destroy permission in the private state stays when the argument is removed; a
  resource recorded as absent is deleted without asking its host.
* Locks. `sshd_config` does not lock the path of its file, so that a `file` resource
  on it does not conflict.

## Proofs

`tlapm` checks the following for every value of the constants that satisfies the
named assumptions of the module: constants have their types, `None` is not one of the
values it stands apart from, sets of workers and clients that are counted are finite.
Two assumptions say more. `EngineAssumption`: the resources of a scenario work on one
kind of host. `LockKeyAssumption`: lock keys made with a prefix are not the empty key,
which the prover cannot see of strings. TLC evaluates all of them on every run.
Some theorems have hypotheses of their own: those on exclusion by leases `Undisturbed`,
five on the resource engine `MarksApart`, and one of these `OneHostEach`, each explained
with its theorem.

An invariant that is to be proved for every instance is nearly always weaker than what
the steps need; under each theorem is the strengthening that is inductive. All of these
were checked by TLC on the instances of the runs before they were proved.

### The journal

* `JournalClaimsNeverConflict`. `ClaimsNeverConflict` is not inductive: a claim is
  written some steps after the check. `LockInv` adds that the admission lock
  excludes (`Mutex`), that between the check and the last claim no other
  operation has a claim against the locks still to be claimed (`Cleared`), and what
  a handler knows where it stands (`HandlersOK`, `IdLeft`). Most steps move one
  handler and write no claim; `QuietStep` does those once. A crash in the middle
  leaves a prefix of the claims, of which none conflicts.
* `JournalClaimsAreIndexed` and `JournalIndexMatchesFile`, from `JournalOwnerInv`. An
  operation has one owner for good: the request it was made for, the pid and the boot
  it was made in. `OwnerInv` says that some table of owners is agreed on by all files,
  claims and indexes (`DiskOwned`) and by every copy of an entry in a handler
  (`HandlerOwned`), so that a handler that writes back an old copy changes the status
  and nothing else, and that a sweep has removed the claims of an operation before its
  index and its index before its entry. A new entry takes an id nobody owns; a crash or
  a reboot loses handlers, and files stay.
* `JournalTypeOK`, the types.

### The leases

* `LeaseKeepsJournal`: every step of providers, sessions and executors is a step of the
  journal's specification or leaves the journal alone. So the journal's theorems hold
  of the whole protocol, and `LeaseTypes` and `LeaseProviderInv` follow without any
  further assumption.
* `LeaseMutationExclusion`, `LeaseBacked` and `LeaseImplementsService` are proved under
  `Undisturbed`: every session has one request, no call is lost during a
  mutation, and an executor that lost an Acquire is gone before it is tried again. Nothing
  less will do: each of the three is a way to lose the lease under a running
  mutation (see finding 1), and the `lease_retry` run shows the property violated where
  the second fails. The constants of the passing `lease` run satisfy it.
  `LeaseInv` adds to the owners that whoever waits for an answer, has one, mutates
  or releases does so about an operation of its own (`ClientServed`, `HandlerServes`),
  that an executor that has a lease to keep lives in the boot the lease was made in
  and its pid is not given out again (`OwnersOK`, `ExecsOK`), so that no sweep takes
  its claims, and that from the answer `granted` to the end of the mutation the claims
  of all its locks are there. Two requests that hold have their claims on one host,
  where they cannot conflict; that gives exclusion, and the grant of the abstract
  service. A queued poll that is granted, a retried Acquire that finds its lease active
  and the answer to a handler of a former attempt are the cases that need care.
  The refinement maps every step to a `Grant`, a release, a request that gives up, or
  a stutter.

### Sessions, restarts, reboots, the pool

* `SessionCallKeepsClient`. `SessionInv` adds that BootstrapMu excludes (`Holder`),
  that activeCalls is the number of callers that have the session reserved
  (`Counted`, by the theorems on cardinality), that a teardown starts with none
  (`Drained`), and that an ensured executor stays until it is reserved (`Ensured`).
* `SessionTypeOK`, from the same invariant, with `AttemptLeft` for the budget.
* `RestartRunsAtMostOnce` and `RestartResultIsFinal`, from `RestartInvariant`. `RestartInv`
  says that while writes succeed (`writes = "ok"`) a record which may be launched has
  no launcher and no helper (`Unclaimed`), that whoever decides to launch has the
  lock and a record that is still launchable (`Deciding`), and that there is one
  launcher (`OneLaunch`) and one helper (`OneHelper`), whose progress tells the number
  of runs; and always that a restart is reported complete, in the record, by a
  handler or to the provider, only if it has run (`Honest`).
* `RestartTypes`, the types.
* `RebootCompletedIsProved`, `RebootIssuedOnce`, `RebootRootIsChecked` and `RebootTypes`, from
  `RebootInvariant`. Completion is proved because every copy of an entry, in either file
  or at a client, has no boot id yet or one from between the boot it was asked for in
  and the present (`JournalOK`, `ClientOK`), and where one is there a validated phase
  was reached over it; two clients that overwrite each other's boot id still write such
  ones. `OnceOK` holds while nothing was lost: only the holder of the exclusive lease is
  before the command, and an entry whose command ran is found in no phase before it, in
  no file. The gate's verdict is one of the right kind because a check that answers late
  writes the flags its own rights allow.
* `PoolUsesAreCounted`, `PoolSingleFlight`, `PoolCallsKnownHost` and `PoolTypes`, from
  `PoolInvariant`. Uses are counted by place: a session's count is the number of workers
  that hold it in one of the places between `AcquireUse` and `ReleaseUse`, which a
  step changes for one worker and one session. Who dials or reconnects is the one in
  `inflight`, also when two sessions of one target are reset at once; who waits has a result
  coming from the one it waits for; what a
  worker holds is a session to its target whose fingerprint it has validated, and a reconnect
  keeps it or makes it invalid for all.

### The resource engine

Three modules, each about what the one below it has shown: an operation of a pack
(`GuestPackProofs`), a type (`ResourceTypeProofs`), the engine over all its resources and
hosts (`ResourceEngineProofs`).

* Two inductive invariants. `EngineInv` (`EngineInvariant`) says of every host of a crontab,
  TLS identity, repository, file, trusted certificate or systemd unit scenario what its
  tables are, of every record that it names a host, a key that host has had, and a state
  of its type, and bounds keys by faults. `ContentInv` (`ContentInvariant`) says the same of
  the contents for every type: the host of a resource `Holds` what its type works on (files
  that are sequences of lines, tables with an entry or nothing for every name, firewall
  rules of which no two of the provider's have one name), and what is recorded `Fits` the type.
* The contract of a type. `Served(t)` says of every host and every state of that kind, not
  only of those a run reaches, that each outcome of a create, update or delete, wherever
  it stopped, keeps the kind (`Holds`), spares what belongs to other resources or to
  nobody and leaves what a refresh reads of them (`Spares`), or is the failed write of a file
  that cannot be renamed over (`Tears`); that what it reports is in
  effect, is read back and is about the object it was asked for (`Reported`, `Among`); that
  what it deletes is gone (`Gone`); and that a refresh of what a refresh reported finds it
  unchanged (`Reads`). `EveryTypeServed` proves it of all 22 types, one lemma per type. A
  type without a shared file has nothing to spare (`AloneOps`); one whose objects have a
  key must touch only the entries under the keys it was given (`KeyedOps`).
* Lines of files. An operation on a file of lines is written with the positions it keeps:
  `At(seq, S)` is the lines at the positions `S`, in their order, and `Nth(S, n)` the n-th of
  them. That a file keeps its other lines is then a statement on ranks of positions:
  two files have the same lines at `S` and at `T` if there is a map of `S` onto `T` that keeps the order
  and the lines. That needs cardinality and no induction over the file, and covers lines
  that are removed, inserted, replaced or put at the end.
* `EngineKeepsOthers` is `Spares`, with the same exception, for the operations that can come next. `EngineDeletes` and
  `EngineWritesInEffect` are `Gone` and `Reported`. `EngineKeepsSSH` needs in addition that the
  rule which `preventUFWSSHDisconnect` found is still among the rules after those of the
  resource's name are removed one by one, the one with the highest number first.
* `EngineStateMatches`. `StateMatchesHost` is not inductive. `MatchInv` adds that two resources
  of a type on one host are about different objects (`Distinct`), so that an operation on
  one spares the other, and that records name the hosts of the scenario
  (`OnTargets`). A failed write either spares the others, or it tears their file and marks
  them (`TornMatch`). An operation on another type of the same file (an fstab entry beside the swap
  switch) leaves what a refresh reads as well (`Aside`).
  Its hypothesis `OneHostEach` says that only types without shared objects are
  configured on several hosts, as in the run. It is needed: with `FaultTypes = {"group"}` TLC
  shows an update which moves a group to another host, works with its prior name there, and
  removes a group that another resource keeps (see the limits above).
* `EngineKnowsTheHost` and `EngineKeepsPins`. An operation asks a host only if it has the key that is
  recorded, if one is (`AsksTheHost`), and what is recorded after it is that host's key or,
  where the session was gone, the old record of the same host (`ObservedKey`, `PinnedKey`).
  So the key met at the last operation, failed or not, a refresh or a write, is the recorded
  one, and no operation replaces it or loses it while the resource stays on its host.
* `EngineTypes`, `EngineKeepsKeys`, `EngineLocks` and `EngineRefusals` follow from `EngineInvariant`.
* `EngineLocks`. For all types but two, resources of a kind share one lock
  (`MasterKeyIsPlanned`), and operations that have one in common exclude each other. A
  crontab entry and a TLS identity lock by name: there the contracts say that what an
  operation changes belongs to a user, or a name, whose lock it has asked for, also
  when an entry moves from one user to another.
* `EngineKeepsKeys` speaks of every operation in every state the engine reaches, and
  needs of a repository's host only that its table of files is one.
* `EngineRefusals`. Most packs refuse before they write, and there `Harmless` composes:
  it holds of what is put together from calls that answer, fail or refuse at once
  (`HarmlessOutcomes`). Four find out later and put back what they changed, and need
  to know that the way back ends where they began: `file`, staged or in place, with
  the temporary file or the candidate gone again whatever the validation left
  (`StagedStops`, `InPlaceStops`, `FileApplied`); `trusted_cert`, when the bundle is
  rebuilt without the new anchor (`CertInstalled`); `systemd_unit`, when the
  identity of its drop-in does not take effect and the old drop-in is put back
  (`UnitUndone`, `UnitApplied`); `tls_identity`, with one half of the pair written
  (`TlsHarmless`). This is why `EngineInv` describes
  their hosts: what is restored is the host only if it holds nothing the record of
  it leaves out.
* `MarksApart` is a hypothesis of `EngineRefusals`, `EngineDeletes`, `EngineWritesInEffect`,
  `EngineKeepsPins` and `EngineStateMatches`. It says that absence, refusal and failure are told from each other, are
  no functions, as the records are that operations return, and that absence is none of the simple
  values a host holds (a group number, a package version, a list of time servers): in the
  code an error is not a state, and what is not there is not a value. The model values of the
  runs are such marks; TLC cannot evaluate the second part, so it is a hypothesis of
  these theorems and not an assumption of the module.

The theorems hold for any resources, hosts, scenarios, faults and types under faults. What the packs work on (the
paths, names and values of a type, the hosts it starts from) is a small set that the pack's module
defines, for the proofs as for the runs; of those hosts a proof uses only what `Holds` says of them.

### Only model-checked

Every safety property of the passing runs, invariant or action property, is proved. Left to TLC are:

* Every liveness property (`EveryRequestEnds`, `CallsReturnWhileLinked`,
  `AbandonedHandlersEnd`, `EveryRestartCompletes`, `EveryOperationEnds`): the prover has
  no fairness and no `ENABLED`.
* The properties the violation runs refute.

## Plan

What is left:

1. Models: the tunnel's handshake and counters; the instance pools of the WASM
   runtime; the barrier's `Read`.
2. Proofs: the progress steps under the liveness properties, as invariants of where
   a process can be stuck; the packs' contracts with the sets of names and values as
   constants.

Not modelled and why: schemas, provider configuration and the validation of
attributes are declarations or pure predicates; data sources only read; conversions
between Terraform values and JSON keep no state; command execution, discovery,
downloads and SSH dialling are I/O, of which the outcomes are modelled where they are
used; the tunnel's correctness is that of its cryptography, which is external, and
compilation and memory of WASM modules belong to the runtime library; logging,
formatting, build and release tooling have no state the properties are about.
