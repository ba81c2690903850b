------------------------ MODULE SessionRuntimeProofs ------------------------
(***************************************************************************)
(* TLAPS proofs about SessionRuntime, for any number of callers, modules,  *)
(* attempts and faults.                                                    *)
(***************************************************************************)
EXTENDS SessionRuntime, FiniteSetTheorems, TLAPS

\* The callers counted by activeCalls.
Reserved == {c \in Caller : pc[c] \in {"unlock", "calling"}}

\* Where a caller stands with BootstrapMu locked: while it prepares, in a
\* reset it entered with the lock, and in one for which it took the lock.
Locked(c) ==
    \/ pc[c] \in {"ensure", "plugin", "reserve", "unlock", "drain", "teardown", "reconnect"}
    \/ held[c] /\ pc[c] \in {"reset", "follow", "finish"}

\* BootstrapMu excludes.
Holder == \A c \in Caller : Locked(c) => mu = c

\* activeCalls is the number of callers that have reserved the session.
Counted == active = Cardinality(Reserved)

\* A session is torn down only when nobody has it reserved.
Drained == \A c \in Caller : pc[c] = "teardown" => Reserved = {}

\* A caller that has ensured the executor finds one until it reserves it.
Ensured == \A c \in Caller : pc[c] \in {"plugin", "reserve"} => client # 0

\* Whoever resets in order to try again has an attempt left, and an ensurer
\* loads no module.
Resets(c) ==
    pc[c] \in {"reset", "follow", "resetLock", "drain", "teardown", "reconnect", "finish"}

Budget(c) ==
    /\ Resets(c) /\ (held[c] => c \in Ensurer) => tries[c] + 1 \in 0..(MaxAttempts - 1)
    /\ pc[c] = "plugin" => c \notin Ensurer

AttemptLeft == \A c \in Caller : Budget(c)

SessionInv ==
    /\ TypeOK /\ Holder /\ Counted /\ Drained /\ Ensured /\ AttemptLeft
    /\ CallKeepsClient

-----------------------------------------------------------------------------
\* The session starts with nobody in it.
LEMMA InitSessionInv == Init => SessionInv
<1> SUFFICES ASSUME Init PROVE SessionInv
  OBVIOUS
<1>1. Reserved = {}
  BY DEF Init, Reserved
<1>2. Counted
  BY <1>1, FS_EmptySet DEF Init, Counted
<1>3. TypeOK
  <2>1. 0 \in 0..MaxFaults /\ 0 \in 0..(MaxAttempts - 1)
    BY SessionAssumption
  <2>2. linkFaults \in BOOLEAN
    BY SessionAssumption, Zenon DEF Init
  <2>3. QED
    BY <2>1, <2>2 DEF Init, TypeOK
<1>4. Holder /\ Drained /\ Ensured /\ AttemptLeft /\ CallKeepsClient
  BY DEF Init, Holder, Locked, Drained, Ensured, AttemptLeft, Budget, Resets, CallKeepsClient
<1>5. QED
  BY <1>2, <1>3, <1>4 DEF SessionInv

\* A caller moves: the others stay, and BootstrapMu stays, is taken free or
\* is given up by its holder.
Moves(c) ==
    /\ \A d \in Caller \ {c} : pc'[d] = pc[d] /\ held'[d] = held[d] /\ tries'[d] = tries[d]
    /\ \/ mu' = mu
       \/ mu = None /\ mu' = c
       \/ mu = c /\ mu' = None
    /\ Locked(c)' => mu' = c
    /\ Budget(c)'

\* What a move has to respect if it neither reserves nor releases the session
\* nor changes the client: then it preserves the invariant.
LEMMA PlainMove ==
    ASSUME NEW c \in Caller, SessionInv, TypeOK', Moves(c),
           UNCHANGED <<active, client, got>>,
           pc'[c] \in {"unlock", "calling"} <=> pc[c] \in {"unlock", "calling"},
           pc'[c] = "teardown" => active = 0,
           pc'[c] \in {"plugin", "reserve"} => client # 0
    PROVE  SessionInv'
<1> USE DEF SessionInv
<1>1. Reserved' = Reserved
  BY DEF Reserved, Moves
<1>2. Holder'
  BY SessionAssumption DEF Holder, Locked, Moves
<1>3. Counted'
  BY <1>1 DEF Counted
<1>4. IsFiniteSet(Reserved)
  BY SessionAssumption, FS_Subset DEF Reserved
<1>5. active = 0 => Reserved = {}
  BY <1>4, FS_EmptySet DEF Counted
<1>6. Drained'
  BY <1>1, <1>5 DEF Drained, Moves
<1>7. Ensured'
  BY DEF Ensured, Moves
<1>8. AttemptLeft'
  BY DEF AttemptLeft, Budget, Resets, Moves
<1>9. CallKeepsClient'
  BY DEF CallKeepsClient, Moves
<1>10. QED
  BY <1>2, <1>3, <1>6, <1>7, <1>8, <1>9

\* Every step keeps the shape of the state.
LEMMA StepTypeOK ==
    ASSUME SessionInv, NEW c \in Caller, CallerStep(c)
    PROVE  TypeOK'
<1> USE SessionAssumption DEF SessionInv, TypeOK, Goto, GotoReset, Fault, session
<1>1. CASE LockBootstrap(c)
  BY <1>1 DEF LockBootstrap
<1>2. CASE EnsureExecutor(c)
  BY <1>2 DEF EnsureExecutor
<1>3. CASE EnsureFails(c)
  <2>1. faults' \in 0..MaxFaults
    BY <1>3 DEF EnsureFails
  <2>2. mu' \in Caller \cup {None} /\ held' \in [Caller -> BOOLEAN]
    BY <1>3 DEF EnsureFails
  <2>3. QED
    BY <1>3, <2>1, <2>2 DEF EnsureFails
<1>4. CASE SendPlugin(c)
  BY <1>4, ZenonT(40) DEF SendPlugin
<1>5. CASE ReserveCall(c)
  BY <1>5 DEF ReserveCall
<1>6. CASE UnlockBootstrap(c)
  BY <1>6 DEF UnlockBootstrap
<1>7. CASE CallReturns(c) \/ CallFails(c)
  <2>1. c \in Reserved
    BY <1>7 DEF CallReturns, CallFails, ReleaseCall, Reserved
  <2>2. active # 0
    BY <2>1, FS_Subset, FS_EmptySet DEF Counted, Reserved
  <2>3. QED
    BY <1>7, <2>2 DEF CallReturns, CallFails, ReleaseCall
<1>8. CASE RetryOrStop(c)
  BY <1>8 DEF RetryOrStop
<1>9. CASE BeginReset(c)
  BY <1>9 DEF BeginReset
<1>10. CASE FollowReset(c)
  BY <1>10 DEF FollowReset, AfterReset, AttemptLeft, Budget, Resets
<1>11. CASE ResetLock(c) \/ waitForNoActiveCalls(c)
  BY <1>11 DEF ResetLock, waitForNoActiveCalls
<1>12. CASE Teardown(c)
  BY <1>12 DEF Teardown
<1>13. CASE Reconnect(c)
  <2>1. faults' \in 0..MaxFaults
    BY <1>13 DEF Reconnect
  <2>2. broken' \in BOOLEAN
    BY <1>13 DEF Reconnect
  <2>3. mu' \in Caller \cup {None}
    BY <1>13 DEF Reconnect
  <2>4. QED
    BY <1>13, <2>1, <2>2, <2>3 DEF Reconnect
<1>14. CASE FinishReset(c)
  <2>1. tries' \in [Caller -> 0..(MaxAttempts - 1)]
    BY <1>14 DEF FinishReset, AfterReset, AttemptLeft, Budget, Resets
  <2>2. mu' \in Caller \cup {None}
    BY <1>14 DEF FinishReset, AfterReset
  <2>3. QED
    BY <1>14, <2>1, <2>2 DEF FinishReset, AfterReset
<1>15. QED
  BY <1>1, <1>2, <1>3, <1>4, <1>5, <1>6, <1>7, <1>8, <1>9, <1>10, <1>11, <1>12, <1>13, <1>14
  DEF CallerStep

\* Moves that neither reserve nor release the session nor change its client.
PlainStep(c) ==
    \/ LockBootstrap(c) \/ EnsureFails(c) \/ SendPlugin(c) \/ UnlockBootstrap(c)
    \/ RetryOrStop(c) \/ BeginReset(c) \/ FollowReset(c) \/ ResetLock(c)
    \/ waitForNoActiveCalls(c) \/ Reconnect(c) \/ FinishReset(c)

\* Those moves preserve the invariant, each because of what PlainMove asks.
LEMMA PlainStepInv ==
    ASSUME SessionInv, NEW c \in Caller, PlainStep(c)
    PROVE  SessionInv'
<1>1. TypeOK'
  BY StepTypeOK DEF PlainStep, CallerStep
<1> DEFINE Fit == /\ Moves(c)
                  /\ UNCHANGED <<active, client, got>>
                  /\ pc'[c] \in {"unlock", "calling"} <=> pc[c] \in {"unlock", "calling"}
                  /\ pc'[c] = "teardown" => active = 0
                  /\ pc'[c] \in {"plugin", "reserve"} => client # 0
<1> USE SessionAssumption DEF SessionInv, TypeOK, Holder, Locked, Ensured, AttemptLeft,
        Budget, Resets, Moves, Goto, GotoReset, session
<1>2. ASSUME LockBootstrap(c) PROVE Fit
  BY <1>2 DEF LockBootstrap
<1>3. ASSUME EnsureFails(c) PROVE Fit
  BY <1>3 DEF EnsureFails
<1>4. ASSUME SendPlugin(c) PROVE Fit
  BY <1>4 DEF SendPlugin
<1>5. ASSUME UnlockBootstrap(c) PROVE Fit
  BY <1>5 DEF UnlockBootstrap
<1>6. ASSUME RetryOrStop(c) PROVE Fit
  BY <1>6 DEF RetryOrStop
<1>7. ASSUME BeginReset(c) PROVE Fit
  BY <1>7 DEF BeginReset
<1>8. ASSUME FollowReset(c) PROVE Fit
  BY <1>8 DEF FollowReset, AfterReset
<1>9. ASSUME ResetLock(c) PROVE Fit
  BY <1>9 DEF ResetLock
<1>10. ASSUME waitForNoActiveCalls(c) PROVE Fit
  BY <1>10 DEF waitForNoActiveCalls
<1>11. ASSUME Reconnect(c) PROVE Fit
  BY <1>11 DEF Reconnect
<1>12. ASSUME FinishReset(c) PROVE Fit
  BY <1>12 DEF FinishReset, AfterReset
<1>13. Fit
  BY <1>2, <1>3, <1>4, <1>5, <1>6, <1>7, <1>8, <1>9, <1>10, <1>11, <1>12 DEF PlainStep
<1>14. QED
  BY <1>1, <1>13, PlainMove

\* An executor is started only for a caller that holds BootstrapMu and found
\* no client, hence while nobody has the session reserved.
LEMMA EnsureExecutorInv ==
    ASSUME SessionInv, NEW c \in Caller, EnsureExecutor(c)
    PROVE  SessionInv'
<1> USE SessionAssumption DEF SessionInv, EnsureExecutor, Goto
<1>1. TypeOK'
  BY StepTypeOK DEF CallerStep
<1>2. Reserved' = Reserved
  BY DEF Reserved, TypeOK
<1>3. Holder' /\ AttemptLeft'
  BY DEF Holder, Locked, AttemptLeft, Budget, Resets, TypeOK
<1>4. Counted' /\ Drained'
  BY <1>2 DEF Counted, Drained, TypeOK
<1>5. Ensured'
  BY DEF Ensured, TypeOK
<1>6. CallKeepsClient'
  BY DEF CallKeepsClient, TypeOK
<1>7. QED
  BY <1>1, <1>3, <1>4, <1>5, <1>6

\* A reservation is counted, and it is made with BootstrapMu held, so not in
\* the middle of a teardown.
LEMMA ReserveCallInv ==
    ASSUME SessionInv, NEW c \in Caller, ReserveCall(c)
    PROVE  SessionInv'
<1> USE SessionAssumption DEF SessionInv, ReserveCall, Goto, session
<1>1. TypeOK'
  BY StepTypeOK DEF CallerStep
<1>2. Reserved' = Reserved \cup {c} /\ c \notin Reserved
  BY DEF Reserved, TypeOK
<1>3. IsFiniteSet(Reserved)
  BY FS_Subset DEF Reserved
<1>4. Counted'
  BY <1>2, <1>3, FS_AddElement DEF Counted
<1>5. Holder' /\ AttemptLeft'
  BY DEF Holder, Locked, AttemptLeft, Budget, Resets, TypeOK
<1>6. Drained'
  BY DEF Drained, Holder, Locked, TypeOK
<1>7. Ensured' /\ CallKeepsClient'
  BY DEF Ensured, CallKeepsClient, TypeOK
<1>8. QED
  BY <1>1, <1>4, <1>5, <1>6, <1>7

\* A call that returns or fails gives up its own reservation and no other.
LEMMA CallEndsInv ==
    ASSUME SessionInv, NEW c \in Caller, CallReturns(c) \/ CallFails(c)
    PROVE  SessionInv'
<1> USE SessionAssumption DEF SessionInv, CallReturns, CallFails, ReleaseCall, Goto, session
<1>1. TypeOK'
  BY StepTypeOK DEF CallerStep
<1>2. Reserved' = Reserved \ {c} /\ c \in Reserved
  BY DEF Reserved, TypeOK
<1>3. IsFiniteSet(Reserved)
  BY FS_Subset DEF Reserved
<1>4. Counted'
  BY <1>2, <1>3, FS_RemoveElement DEF Counted
<1>5. Holder' /\ AttemptLeft'
  BY DEF Holder, Locked, AttemptLeft, Budget, Resets, TypeOK
<1>6. Drained'
  BY <1>2 DEF Drained, TypeOK
<1>7. Ensured' /\ CallKeepsClient'
  BY DEF Ensured, CallKeepsClient, TypeOK
<1>8. QED
  BY <1>1, <1>4, <1>5, <1>6, <1>7

\* The teardown comes after the drain, and BootstrapMu kept new calls out.
LEMMA TeardownInv ==
    ASSUME SessionInv, NEW c \in Caller, Teardown(c)
    PROVE  SessionInv'
<1> USE SessionAssumption DEF SessionInv, Teardown, Goto
<1>1. TypeOK'
  BY StepTypeOK DEF CallerStep
<1>2. Reserved' = Reserved
  BY DEF Reserved, TypeOK
<1>3. Reserved = {}
  BY DEF Drained
<1>4. Holder' /\ AttemptLeft'
  BY DEF Holder, Locked, AttemptLeft, Budget, Resets, TypeOK
<1>5. Counted' /\ Drained'
  BY <1>2, <1>3 DEF Counted, Drained
<1>6. Ensured'
  BY DEF Ensured, Holder, Locked, TypeOK
<1>7. CallKeepsClient'
  BY <1>2, <1>3 DEF CallKeepsClient, Reserved
<1>8. QED
  BY <1>1, <1>4, <1>5, <1>6, <1>7

\* Every step of the session preserves the invariant.
LEMMA NextSessionInv == SessionInv /\ [Next]_vars => SessionInv'
<1> SUFFICES ASSUME SessionInv, [Next]_vars PROVE SessionInv'
  OBVIOUS
<1>1. ASSUME NEW c \in Caller, CallerStep(c) PROVE SessionInv'
  BY <1>1, PlainStepInv, EnsureExecutorInv, ReserveCallInv, CallEndsInv, TeardownInv
  DEF CallerStep, PlainStep
<1>2. CASE LoseConnection
  <2>1. TypeOK'
    BY <1>2, SessionAssumption DEF LoseConnection, Fault, SessionInv, TypeOK
  <2>2. QED
    BY <1>2, <2>1 DEF LoseConnection, SessionInv, Holder, Locked, Counted, Reserved, Drained,
       Ensured, AttemptLeft, Budget, Resets, CallKeepsClient
<1>3. CASE UNCHANGED vars
  BY <1>3 DEF vars, SessionInv, TypeOK, Holder, Locked, Counted, Reserved, Drained,
     Ensured, AttemptLeft, Budget, Resets, CallKeepsClient
<1>4. QED
  BY <1>1, <1>2, <1>3 DEF Next, Terminated

\* The invariant that carries the two theorems below: BootstrapMu excludes,
\* activeCalls counts the callers that may be using the client, and a
\* teardown starts only at zero (manager.go, session_runtime.go).
THEOREM SessionInvariant == Spec => []SessionInv
<1>1. QED
  BY InitSessionInv, NextSessionInv, PTL DEF Spec

\* The session and its callers keep their shape; in particular activeCalls
\* never goes below zero and no caller exceeds its attempts.
THEOREM SessionTypeOK == Spec => []TypeOK
<1>1. SessionInv => TypeOK
  BY DEF SessionInv
<1>2. QED
  BY <1>1, SessionInvariant, PTL

\* No reset tears down the client of a reserved call, for any number of
\* callers: the promise of the comment in prepareClientForAction.
THEOREM SessionCallKeepsClient == Spec => []CallKeepsClient
<1>1. SessionInv => CallKeepsClient
  BY DEF SessionInv
<1>2. QED
  BY <1>1, SessionInvariant, PTL
=============================================================================
