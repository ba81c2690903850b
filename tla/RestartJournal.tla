--------------------------- MODULE RestartJournal ---------------------------
(***************************************************************************)
(* One journaled restart of a process (executor/runtime/restart_journal.go *)
(* and Dispatcher.RestartProcess): the provider calls it, with the same    *)
(* operation id in every attempt, until an attempt returns the result of   *)
(* the restart command.  Each attempt is a handler in an executor of its   *)
(* own, as a failed call ends in a reset of the session.  A handler that   *)
(* finds no record writes one and starts a detached helper process, which  *)
(* runs the command; the others wait for the result in the record.         *)
(*                                                                         *)
(* The record of the operation is a file: only its status is kept here.    *)
(* The flock of the operation guards reading the record and deciding to    *)
(* launch, but neither the helper nor startRestartHelper takes it to write *)
(* the record.                                                             *)
(***************************************************************************)
EXTENDS Naturals

CONSTANTS
    MaxAttempts,    \* attempts of the retry policy
    MaxFaults       \* bound: lost calls, failed steps, deaths

ASSUME RestartAssumption ==
    /\ MaxAttempts \in Nat \ {0}
    /\ MaxFaults \in Nat

Attempt == 1..MaxAttempts

VARIABLES
    record,     \* status in the record of the operation
    lock,       \* the handler that has the flock of the operation, or 0
    pc,         \* the handler of an attempt
    helper,     \* the helper an attempt has launched
    runs,       \* how often the restart command was started
    at,         \* the attempt the provider is at
    answer,     \* what the provider was told in the end
    writes,     \* "failed" once a write of the record or the lock file has
    faults

vars == <<record, lock, pc, helper, runs, at, answer, writes, faults>>

\* The statuses of a record, and "absent" for a record that is not there.
Status == {"absent", "launching", "running", "completed", "launch_error"}

\* Where a handler stands, from before the call to after its return.
Ended == {"result", "error", "gone"}
Steps == {"resolve", "lock", "read", "write", "start", "mark", "faillock", "failwrite", "poll"}

\* Where a helper stands while it has the command before it, or running.
Busy == {"read", "mark", "exec", "command"}

Init ==
    /\ record = "absent"
    /\ lock = 0
    /\ pc = [a \in Attempt |-> "unsent"]
    /\ helper = [a \in Attempt |-> "none"]
    /\ runs = 0
    /\ at = 1
    /\ answer = "none"
    /\ writes = "ok"
    /\ faults = 0

Goto(a, l) == pc' = [pc EXCEPT ![a] = l]

HelperGoto(a, l) == helper' = [helper EXCEPT ![a] = l]

Fault == faults < MaxFaults /\ faults' = faults + 1

WriteFails == Fault /\ writes' = "failed"

\* No fault in a step that could have one.
NoFault == UNCHANGED <<faults, writes>>

\* The context of a handler is cancelled when its executor loses the provider.
Cancelled(a) == a < at \/ answer # "none"

-----------------------------------------------------------------------------
(* The provider: ExecutorManager.RestartProcess, in withRetries.           *)

CallRestart(a) ==
    /\ a = at
    /\ answer = "none"
    /\ pc[a] = "unsent"
    /\ Goto(a, "resolve")
    /\ UNCHANGED <<record, lock, helper, runs, at, answer, writes, faults>>

\* Mutant: the budget is not looked at.
AttemptFailsUnlimited == at' = at + 1 /\ UNCHANGED answer

\* Every error is retried until the budget is spent, the errors the handler
\* itself returns included.
AttemptFails ==
    IF at = MaxAttempts THEN answer' = "error" /\ UNCHANGED at
                        ELSE at' = at + 1 /\ UNCHANGED answer

Deliver(a) ==
    /\ a = at
    /\ answer = "none"
    /\ \/ pc[a] = "result" /\ answer' = "result" /\ UNCHANGED at
       \/ pc[a] = "error" /\ AttemptFails
    /\ UNCHANGED <<record, lock, pc, helper, runs, writes, faults>>

LoseCall(a) ==
    /\ a = at
    /\ answer = "none"
    /\ pc[a] # "unsent"
    /\ Fault
    /\ AttemptFails
    /\ UNCHANGED <<record, lock, pc, helper, runs, writes>>

-----------------------------------------------------------------------------
(* The handler: Dispatcher.RestartProcess.                                 *)

\* The module resolves the command to run, or fails before anything is
\* written.
ResolveCommand(a) ==
    /\ pc[a] = "resolve"
    /\ \/ Goto(a, "lock") /\ UNCHANGED faults
       \/ Goto(a, "error") /\ Fault
    /\ UNCHANGED <<record, lock, helper, runs, at, answer, writes>>

LockOperation(a) ==
    /\ pc[a] = "lock"
    /\ \/ lock = 0 /\ lock' = a /\ Goto(a, "read") /\ NoFault
       \/ WriteFails /\ Goto(a, "error") /\ UNCHANGED lock
    /\ UNCHANGED <<record, helper, runs, at, answer>>

\* Mutant: a launch that seems not to have got anywhere is taken over.
LaunchableTakeover(s) == s \in {"absent", "launch_error", "launching"}

\* A record in one of these states is for the handler that meets it to launch.
Launchable(s) == s \in {"absent", "launch_error"}

PrepareRead(a) ==
    /\ pc[a] = "read"
    /\ IF Launchable(record) THEN Goto(a, "write") /\ UNCHANGED lock
                             ELSE Goto(a, "poll") /\ lock' = 0
    /\ UNCHANGED <<record, helper, runs, at, answer, writes, faults>>

PrepareWrite(a) ==
    /\ pc[a] = "write"
    /\ \/ record' = "launching" /\ Goto(a, "start") /\ NoFault
       \/ WriteFails /\ Goto(a, "error") /\ UNCHANGED record
    /\ lock' = 0
    /\ UNCHANGED <<helper, runs, at, answer>>

StartHelper(a) ==
    /\ pc[a] = "start"
    /\ \/ HelperGoto(a, "read") /\ Goto(a, "mark") /\ UNCHANGED faults
       \/ Fault /\ Goto(a, "faillock") /\ UNCHANGED helper
    /\ UNCHANGED <<record, lock, runs, at, answer, writes>>

\* startRestartHelper writes the record it has in memory, whatever the helper
\* has written since.
MarkRunning(a) ==
    /\ pc[a] = "mark"
    /\ \/ record' = "running" /\ Goto(a, "poll") /\ NoFault
       \/ WriteFails /\ Goto(a, "faillock") /\ UNCHANGED record
    /\ UNCHANGED <<lock, helper, runs, at, answer>>

\* After a failed launch; if the lock cannot be had the record is left as it is.
LockFailed(a) ==
    /\ pc[a] = "faillock"
    /\ \/ lock = 0 /\ lock' = a /\ Goto(a, "failwrite") /\ NoFault
       \/ WriteFails /\ Goto(a, "error") /\ UNCHANGED lock
    /\ UNCHANGED <<record, helper, runs, at, answer>>

MarkLaunchError(a) ==
    /\ pc[a] = "failwrite"
    /\ \/ record' = "launch_error" /\ NoFault
       \/ WriteFails /\ UNCHANGED record
    /\ lock' = 0
    /\ Goto(a, "error")
    /\ UNCHANGED <<helper, runs, at, answer>>

\* Mutant: the ticker is waited for and the context is not.
WaitEndsDeaf(a) ==
    /\ pc[a] = "poll"
    /\ \/ record = "completed" /\ Goto(a, "result")
       \/ record = "launch_error" /\ Goto(a, "error")
    /\ UNCHANGED <<record, lock, helper, runs, at, answer, writes, faults>>

\* A round of waitForRestartResult that ends it.  The others change nothing.
WaitEnds(a) ==
    /\ pc[a] = "poll"
    /\ \/ record = "completed" /\ Goto(a, "result")
       \/ record = "launch_error" /\ Goto(a, "error")
       \/ record \in {"launching", "running"} /\ Cancelled(a) /\ Goto(a, "gone")
    /\ UNCHANGED <<record, lock, helper, runs, at, answer, writes, faults>>

-----------------------------------------------------------------------------
(* The helper: RunJournaledRestart, in a session of its own.               *)

HelperRead(a) ==
    /\ helper[a] = "read"
    /\ HelperGoto(a, IF record = "completed" THEN "done" ELSE "mark")
    /\ UNCHANGED <<record, lock, pc, runs, at, answer, writes, faults>>

\* Mutant: the result is journaled before the command has run.
HelperMarkEarly(a) ==
    /\ helper[a] = "mark"
    /\ record' = "completed"
    /\ HelperGoto(a, "exec")
    /\ UNCHANGED <<lock, pc, runs, at, answer, writes, faults>>

HelperMark(a) ==
    /\ helper[a] = "mark"
    /\ \/ record' = "running" /\ HelperGoto(a, "exec") /\ NoFault
       \/ WriteFails /\ HelperGoto(a, "done") /\ UNCHANGED record
    /\ UNCHANGED <<lock, pc, runs, at, answer>>

HelperExec(a) ==
    /\ helper[a] = "exec"
    /\ runs' = runs + 1
    /\ HelperGoto(a, "command")
    /\ UNCHANGED <<record, lock, pc, at, answer, writes, faults>>

\* The command has ended, with any exit code.
CommandEnds(a) ==
    /\ helper[a] = "command"
    /\ HelperGoto(a, "finish")
    /\ UNCHANGED <<record, lock, pc, runs, at, answer, writes, faults>>

HelperFinish(a) ==
    /\ helper[a] = "finish"
    /\ \/ record' = "completed" /\ NoFault
       \/ WriteFails /\ UNCHANGED record
    /\ HelperGoto(a, "done")
    /\ UNCHANGED <<lock, pc, runs, at, answer>>

-----------------------------------------------------------------------------
(* Deaths.  The kernel drops the flock of a process that dies.             *)

ExecutorDies(a) ==
    /\ pc[a] \in Steps
    /\ Fault
    /\ Goto(a, "gone")
    /\ lock' = IF lock = a THEN 0 ELSE lock
    /\ IF a = at /\ answer = "none" THEN AttemptFails ELSE UNCHANGED <<at, answer>>
    /\ UNCHANGED <<record, helper, runs, writes>>

\* The files outlive a reboot: the journal is under the home of the user.
Reboot ==
    /\ Fault
    /\ pc' = [a \in Attempt |-> IF pc[a] \in Steps THEN "gone" ELSE pc[a]]
    /\ helper' = [a \in Attempt |-> IF helper[a] = "none" THEN "none" ELSE "done"]
    /\ lock' = 0
    /\ IF answer = "none" /\ pc[at] # "unsent" THEN AttemptFails ELSE UNCHANGED <<at, answer>>
    /\ UNCHANGED <<record, runs, writes>>

-----------------------------------------------------------------------------
Handler(a) ==
    \/ ResolveCommand(a) \/ LockOperation(a) \/ PrepareRead(a) \/ PrepareWrite(a)
    \/ StartHelper(a) \/ MarkRunning(a) \/ LockFailed(a) \/ MarkLaunchError(a)
    \/ WaitEnds(a)

Helper(a) ==
    HelperRead(a) \/ HelperMark(a) \/ HelperExec(a) \/ CommandEnds(a) \/ HelperFinish(a)

Next ==
    \/ \E a \in Attempt :
          CallRestart(a) \/ Deliver(a) \/ LoseCall(a) \/ Handler(a) \/ Helper(a) \/ ExecutorDies(a)
    \/ Reboot

Spec == Init /\ [][Next]_vars

\* The provider and the processes of the host go on; a restart command ends.
FairSpec ==
    /\ Spec
    /\ \A a \in Attempt :
          WF_vars(CallRestart(a)) /\ WF_vars(Deliver(a)) /\ WF_vars(Handler(a)) /\ WF_vars(Helper(a))

-----------------------------------------------------------------------------
(* Properties. *)

\* The variables have their types.
RestartTypeOK ==
    /\ record \in Status
    /\ lock \in Attempt \cup {0}
    /\ pc \in [Attempt -> {"unsent"} \cup Steps \cup Ended]
    /\ helper \in [Attempt -> {"none", "finish", "done"} \cup Busy]
    /\ runs \in Nat
    /\ at \in Attempt
    /\ answer \in {"none", "result", "error"}
    /\ writes \in {"ok", "failed"}
    /\ faults \in 0..MaxFaults

\* However often a call of restart_process is lost and retried, and whatever
\* dies meanwhile, the restart command is started at most once, unless writing
\* its record has failed.
RunsAtMostOnce == writes = "ok" => runs <= 1

\* The result a provider receives is that of a command that has run, and no
\* helper that was launched for the operation has it still before it, unless
\* writing its record has failed.
ResultIsFinal ==
    answer = "result" =>
        /\ runs >= 1
        /\ writes = "ok" => \A a \in Attempt : helper[a] \notin Busy

\* Once the helper has journaled the result, the provider gets an answer.
CompletedIsAnswered == record = "completed" ~> answer # "none"

\* A handler whose provider is gone ends, be it waiting for the lock or for a
\* result that never comes.
AbandonedHandlersEnd ==
    \A a \in Attempt :
        (a < at \/ answer # "none") /\ pc[a] # "unsent" ~> pc[a] \in Ended
=============================================================================
