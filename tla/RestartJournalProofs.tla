------------------------ MODULE RestartJournalProofs ------------------------
(***************************************************************************)
(* As long as no write of its record fails, a journaled restart runs its   *)
(* command at most once, and the result it returns is that of the one run. *)
(***************************************************************************)
EXTENDS RestartJournal, TLAPS

\* Where a handler stands that has claimed the launch and has no helper.
Claimed == {"start", "faillock", "failwrite"}

\* The helper of one attempt is the only one.
OnlyHelper(a) == \A b \in Attempt : helper[b] # "none" => b = a

NoHelper == \A b \in Attempt : helper[b] = "none"

\* A launchable record has nobody who launches.
Unclaimed ==
    record \in {"absent", "launch_error"} =>
        /\ NoHelper
        /\ \A a \in Attempt : pc[a] \notin {"start", "mark", "faillock", "failwrite"}

\* A handler between its read of the record and its write is alone with it.
Deciding ==
    \A a \in Attempt :
        /\ pc[a] \in {"read", "write", "failwrite"} => lock = a
        /\ pc[a] = "write" => Launchable(record)

\* There is one launch at a time.
OneLaunch ==
    \A a \in Attempt :
        /\ pc[a] \in Claimed => NoHelper
        /\ pc[a] = "mark" => helper[a] # "none"
        /\ pc[a] \in Claimed \cup {"mark"} =>
             \A b \in Attempt : pc[b] \in Claimed \cup {"mark"} => a = b

\* There is one helper, and the runs it has made are those it has behind it.
OneHelper ==
    /\ \A a \in Attempt : helper[a] # "none" => OnlyHelper(a)
    /\ NoHelper => runs = 0
    /\ \A a \in Attempt : helper[a] \in {"read", "mark", "exec"} => runs = 0
    /\ \A a \in Attempt : helper[a] \in {"command", "finish"} => runs = 1
    /\ runs <= 1

\* Somebody says that the restart is complete: the record, a handler that has
\* read it, the provider.
Reported ==
    record = "completed" \/ answer = "result" \/ \E a \in Attempt : pc[a] = "result"

\* Then the command has run, and a command under way or ended has been started.
Honest ==
    /\ Reported => runs >= 1
    /\ \A a \in Attempt : helper[a] \in {"command", "finish"} => runs >= 1

\* And nobody will run it again.
Finished == Reported => \A a \in Attempt : helper[a] \notin Busy

\* What holds while every write of the record has succeeded.
OneRun == Unclaimed /\ Deciding /\ OneLaunch /\ OneHelper /\ Finished

\* The inductive invariant, with RestartTypeOK.
RestartInv == Honest /\ (writes = "ok" => OneRun)

-----------------------------------------------------------------------------
(* Types. *)

\* The variables have their types before the first call.
LEMMA RestartTypeInit == Init => RestartTypeOK
  BY RestartAssumption DEF Init, RestartTypeOK, Attempt, Status

\* Every step of the provider, a handler, a helper, and every death keeps the
\* types, failed writes included.
LEMMA RestartTypeStep == RestartTypeOK /\ [Next]_vars => RestartTypeOK'
<1> SUFFICES ASSUME RestartTypeOK, [Next]_vars PROVE RestartTypeOK'
  OBVIOUS
<1> USE RestartAssumption DEF RestartTypeOK, Attempt, Status, Steps, Ended, Busy
<1>1. ASSUME NEW a \in Attempt, CallRestart(a) PROVE RestartTypeOK'
  BY <1>1 DEF CallRestart, Goto
<1>2. ASSUME NEW a \in Attempt, Deliver(a) PROVE RestartTypeOK'
  BY <1>2 DEF Deliver, AttemptFails
<1>3. ASSUME NEW a \in Attempt, LoseCall(a) PROVE RestartTypeOK'
  BY <1>3 DEF LoseCall, Fault, AttemptFails
<1>4. ASSUME NEW a \in Attempt, ResolveCommand(a) PROVE RestartTypeOK'
  BY <1>4 DEF ResolveCommand, Goto, Fault
<1>5. ASSUME NEW a \in Attempt, LockOperation(a) PROVE RestartTypeOK'
  BY <1>5 DEF LockOperation, Goto, WriteFails, NoFault, Fault
<1>6. ASSUME NEW a \in Attempt, PrepareRead(a) PROVE RestartTypeOK'
  BY <1>6 DEF PrepareRead, Goto
<1>7. ASSUME NEW a \in Attempt, PrepareWrite(a) PROVE RestartTypeOK'
  BY <1>7 DEF PrepareWrite, Goto, WriteFails, NoFault, Fault
<1>8. ASSUME NEW a \in Attempt, StartHelper(a) PROVE RestartTypeOK'
  BY <1>8 DEF StartHelper, Goto, HelperGoto, Fault
<1>9. ASSUME NEW a \in Attempt, MarkRunning(a) PROVE RestartTypeOK'
  BY <1>9 DEF MarkRunning, Goto, WriteFails, NoFault, Fault
<1>10. ASSUME NEW a \in Attempt, LockFailed(a) PROVE RestartTypeOK'
  BY <1>10 DEF LockFailed, Goto, WriteFails, NoFault, Fault
<1>11. ASSUME NEW a \in Attempt, MarkLaunchError(a) PROVE RestartTypeOK'
  BY <1>11 DEF MarkLaunchError, Goto, WriteFails, NoFault, Fault
<1>12. ASSUME NEW a \in Attempt, WaitEnds(a) PROVE RestartTypeOK'
  BY <1>12 DEF WaitEnds, Goto
<1>13. ASSUME NEW a \in Attempt, HelperRead(a) PROVE RestartTypeOK'
  BY <1>13 DEF HelperRead, HelperGoto
<1>14. ASSUME NEW a \in Attempt, HelperMark(a) PROVE RestartTypeOK'
  BY <1>14 DEF HelperMark, HelperGoto, WriteFails, NoFault, Fault
<1>15. ASSUME NEW a \in Attempt, HelperExec(a) PROVE RestartTypeOK'
  BY <1>15 DEF HelperExec, HelperGoto
<1>16. ASSUME NEW a \in Attempt, CommandEnds(a) PROVE RestartTypeOK'
  BY <1>16 DEF CommandEnds, HelperGoto
<1>17. ASSUME NEW a \in Attempt, HelperFinish(a) PROVE RestartTypeOK'
  BY <1>17 DEF HelperFinish, HelperGoto, WriteFails, NoFault, Fault
<1>18. ASSUME NEW a \in Attempt, ExecutorDies(a) PROVE RestartTypeOK'
  BY <1>18 DEF ExecutorDies, Goto, Fault, AttemptFails
<1>19. CASE Reboot
  BY <1>19 DEF Reboot, Fault, AttemptFails
<1>20. CASE UNCHANGED vars
  BY <1>20 DEF vars
<1>21. QED
  BY <1>1, <1>2, <1>3, <1>4, <1>5, <1>6, <1>7,
     <1>8, <1>9, <1>10, <1>11, <1>12, <1>13, <1>14,
     <1>15, <1>16, <1>17, <1>18, <1>19, <1>20
     DEF Next, Handler, Helper

\* The attempt the provider is at stays within the budget, a record has one of
\* its five statuses, and so on, for every retry policy.
THEOREM RestartTypes == Spec => []RestartTypeOK
  BY RestartTypeInit, RestartTypeStep, PTL DEF Spec

-----------------------------------------------------------------------------
(* The one launch. *)

\* Before the first call nobody launches.
LEMMA RestartInit == Init => RestartInv
<1> SUFFICES ASSUME Init PROVE RestartInv
  OBVIOUS
<1>1. Unclaimed /\ Deciding /\ OneLaunch
  BY DEF Init, Unclaimed, NoHelper, Deciding, OneLaunch, Claimed
<1>2. OneHelper /\ Finished /\ Honest
  BY DEF Init, OneHelper, OnlyHelper, NoHelper, Finished, Honest, Reported
<1>3. QED
  BY <1>1, <1>2 DEF RestartInv, OneRun

\* No step of the provider, a handler or a helper, and no death makes a report
\* wrong or, while writes succeed, leads to a second launch.
LEMMA RestartStep == RestartTypeOK /\ RestartInv /\ [Next]_vars => RestartInv'
<1> SUFFICES ASSUME RestartTypeOK, RestartInv, [Next]_vars PROVE RestartInv'
  OBVIOUS
<1> USE RestartAssumption
    DEF RestartTypeOK, Attempt, Status, Steps, Ended, Busy, RestartInv, OneRun, Unclaimed,
        Deciding, Launchable, OneLaunch, Claimed, NoHelper, OneHelper, OnlyHelper, Finished,
        Honest, Reported
<1>1. ASSUME NEW a \in Attempt, CallRestart(a) PROVE RestartInv'
  BY <1>1 DEF CallRestart, Goto
<1>2. ASSUME NEW a \in Attempt, Deliver(a) PROVE RestartInv'
  BY <1>2 DEF Deliver, AttemptFails
<1>3. ASSUME NEW a \in Attempt, LoseCall(a) PROVE RestartInv'
  BY <1>3 DEF LoseCall, Fault, AttemptFails
<1>4. ASSUME NEW a \in Attempt, ResolveCommand(a) PROVE RestartInv'
  BY <1>4 DEF ResolveCommand, Goto, Fault
<1>5. ASSUME NEW a \in Attempt, LockOperation(a) PROVE RestartInv'
  BY <1>5 DEF LockOperation, Goto, WriteFails, NoFault, Fault
<1>6. ASSUME NEW a \in Attempt, PrepareRead(a) PROVE RestartInv'
  BY <1>6 DEF PrepareRead, Goto
<1>7. ASSUME NEW a \in Attempt, PrepareWrite(a) PROVE RestartInv'
  BY <1>7 DEF PrepareWrite, Goto, WriteFails, NoFault, Fault
<1>8. ASSUME NEW a \in Attempt, StartHelper(a) PROVE RestartInv'
  BY <1>8 DEF StartHelper, Goto, HelperGoto, Fault
<1>9. ASSUME NEW a \in Attempt, MarkRunning(a) PROVE RestartInv'
  BY <1>9 DEF MarkRunning, Goto, WriteFails, NoFault, Fault
<1>10. ASSUME NEW a \in Attempt, LockFailed(a) PROVE RestartInv'
  BY <1>10 DEF LockFailed, Goto, WriteFails, NoFault, Fault
<1>11. ASSUME NEW a \in Attempt, MarkLaunchError(a) PROVE RestartInv'
  BY <1>11 DEF MarkLaunchError, Goto, WriteFails, NoFault, Fault
<1>12. ASSUME NEW a \in Attempt, WaitEnds(a) PROVE RestartInv'
  BY <1>12 DEF WaitEnds, Goto
<1>13. ASSUME NEW a \in Attempt, HelperRead(a) PROVE RestartInv'
  BY <1>13 DEF HelperRead, HelperGoto
<1>14. ASSUME NEW a \in Attempt, HelperMark(a) PROVE RestartInv'
  BY <1>14 DEF HelperMark, HelperGoto, WriteFails, NoFault, Fault
<1>15. ASSUME NEW a \in Attempt, HelperExec(a) PROVE RestartInv'
  BY <1>15 DEF HelperExec, HelperGoto
<1>16. ASSUME NEW a \in Attempt, CommandEnds(a) PROVE RestartInv'
  BY <1>16 DEF CommandEnds, HelperGoto
<1>17. ASSUME NEW a \in Attempt, HelperFinish(a) PROVE RestartInv'
  BY <1>17 DEF HelperFinish, HelperGoto, WriteFails, NoFault, Fault
<1>18. ASSUME NEW a \in Attempt, ExecutorDies(a) PROVE RestartInv'
  BY <1>18 DEF ExecutorDies, Goto, Fault, AttemptFails
<1>19. CASE Reboot
  BY <1>19 DEF Reboot, Fault, AttemptFails
<1>20. CASE UNCHANGED vars
  BY <1>20 DEF vars
<1>21. QED
  BY <1>1, <1>2, <1>3, <1>4, <1>5, <1>6, <1>7,
     <1>8, <1>9, <1>10, <1>11, <1>12, <1>13, <1>14,
     <1>15, <1>16, <1>17, <1>18, <1>19, <1>20
     DEF Next, Handler, Helper

\* The inductive invariant holds throughout: one launcher, one helper, and no
\* report of a restart that did not happen.
THEOREM RestartInvariant == Spec => []RestartInv
  BY RestartInit, RestartTypes, RestartStep, PTL DEF Spec

\* However often a restart is retried, and whatever dies in between, its command
\* is started at most once, unless writing its record has failed.
THEOREM RestartRunsAtMostOnce == Spec => []RunsAtMostOnce
<1>1. RestartInv => RunsAtMostOnce
  BY DEF RestartInv, OneRun, OneHelper, RunsAtMostOnce
<1>2. QED
  BY RestartInvariant, <1>1, PTL

\* A result that reaches the provider is that of a command that has run, and, as
\* long as writes succeed, no helper is left to run it again.
THEOREM RestartResultIsFinal == Spec => []ResultIsFinal
<1>1. RestartInv => ResultIsFinal
  BY DEF RestartInv, OneRun, Honest, Reported, Finished, ResultIsFinal
<1>2. QED
  BY RestartInvariant, <1>1, PTL
=============================================================================
