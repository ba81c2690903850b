--------------------------- MODULE SessionRuntime ---------------------------
(***************************************************************************)
(* One session of the provider to a host, shared by the goroutines of many *)
(* Terraform operations (providers/shared/hostsession/session_runtime.go   *)
(* and the callers of it in manager.go).                                   *)
(*                                                                         *)
(* A caller runs one RPC with withRetries: it prepares the executor under  *)
(* BootstrapMu, reserves the session, unlocks, calls, and after a failure  *)
(* resets the session and tries again.  An ensurer runs                    *)
(* EnsureExecutorWithReconnect, which holds BootstrapMu through all its    *)
(* attempts.  A reset has one leader; whoever asks for one meanwhile       *)
(* follows it.  The contexts of these calls carry no deadline, as those of *)
(* reads, lease acquisitions and actions do not.                           *)
(***************************************************************************)
EXTENDS Naturals, FiniteSets

CONSTANTS
    Caller,         \* goroutines that use the session
    Ensurer,        \* those that run EnsureExecutorWithReconnect
    ModuleOf,       \* the WASM module the call of a caller needs, or None
    MaxAttempts,    \* attempts of the retry policy
    MaxFaults,      \* bound: connection losses and failed steps
    LinkFaults,     \* the choices of linkFaults
    None

ASSUME SessionAssumption ==
    /\ IsFiniteSet(Caller)
    /\ Ensurer \subseteq Caller
    /\ DOMAIN ModuleOf = Caller
    /\ MaxAttempts \in Nat \ {0}
    /\ MaxFaults \in Nat
    /\ LinkFaults \subseteq BOOLEAN
    /\ None \notin Caller

VARIABLES
    mu,         \* the holder of BootstrapMu, or None
    active,     \* activeCalls
    resetting,  \* resetInProgress
    client,     \* the executor and RPC client in use, 0 if there is none
    started,    \* executors started so far
    sent,       \* sentPlugins: modules loaded into the executor
    broken,     \* the connection under the client is lost
    faults,
    linkFaults, \* may the connection be lost, or starting an executor fail?
    pc,
    tries,
    got,        \* the client a caller was handed
    held        \* does the reset of a caller run with BootstrapMu held?

session == <<client, started, sent, broken, faults, linkFaults>>
vars == <<mu, active, resetting, client, started, sent, broken, faults, linkFaults, pc, tries, got, held>>

Init ==
    /\ mu = None
    /\ active = 0
    /\ resetting = FALSE
    /\ client = 0
    /\ started = 0
    /\ sent = {}
    /\ broken = FALSE
    /\ faults = 0
    /\ linkFaults \in LinkFaults
    /\ pc = [c \in Caller |-> "prepare"]
    /\ tries = [c \in Caller |-> 0]
    /\ got = [c \in Caller |-> 0]
    /\ held = [c \in Caller |-> FALSE]

Goto(c, l) == pc' = [pc EXCEPT ![c] = l]

\* The next step of c is a reset, with or without BootstrapMu held.
GotoReset(c, h) ==
    /\ Goto(c, "reset")
    /\ held' = [held EXCEPT ![c] = h]

Fault == faults < MaxFaults /\ faults' = faults + 1

LoseConnection ==
    /\ linkFaults
    /\ ~broken
    /\ Fault
    /\ broken' = TRUE
    /\ UNCHANGED <<mu, active, resetting, client, started, sent, pc, tries, got, held, linkFaults>>

-----------------------------------------------------------------------------
(* prepareClientForAction and EnsureExecutorWithReconnect, under           *)
(* BootstrapMu.                                                            *)

LockBootstrap(c) ==
    /\ pc[c] = "prepare"
    /\ mu = None
    /\ mu' = c
    /\ Goto(c, "ensure")
    /\ UNCHANGED <<active, resetting, session, tries, got, held>>

\* EnsureExecutor keeps the client there is, be its connection alive or not,
\* and starts an executor over a working connection otherwise.  The ensurer
\* is then done; a caller goes on to load its module.
EnsureExecutor(c) ==
    /\ pc[c] = "ensure"
    /\ \/ client # 0 /\ UNCHANGED <<client, started>>
       \/ /\ client = 0
          /\ ~broken
          /\ started' = started + 1
          /\ client' = started + 1
    /\ IF c \in Ensurer THEN mu' = None /\ Goto(c, "done")
                        ELSE UNCHANGED mu /\ Goto(c, "plugin")
    /\ UNCHANGED <<active, resetting, sent, broken, faults, tries, got, held, linkFaults>>

EnsureFails(c) ==
    /\ pc[c] = "ensure"
    /\ linkFaults
    /\ client = 0
    /\ \/ broken /\ UNCHANGED faults
       \/ ~broken /\ Fault
    /\ IF c \in Ensurer /\ tries[c] = MaxAttempts - 1
         THEN mu' = None /\ Goto(c, "done") /\ UNCHANGED held
         ELSE UNCHANGED mu /\ GotoReset(c, TRUE)
    /\ UNCHANGED <<active, resetting, client, started, sent, broken, tries, got, linkFaults>>

\* SendPlugin loads the module unless this executor has it already; only the
\* loading needs the connection.
SendPlugin(c) ==
    /\ pc[c] = "plugin"
    /\ \/ /\ ModuleOf[c] \in sent \cup {None}
          /\ Goto(c, "reserve")
          /\ UNCHANGED <<sent, held>>
       \/ /\ ModuleOf[c] \notin sent \cup {None}
          /\ ~broken
          /\ sent' = sent \cup {ModuleOf[c]}
          /\ Goto(c, "reserve")
          /\ UNCHANGED held
       \/ /\ ModuleOf[c] \notin sent \cup {None}
          /\ broken
          /\ GotoReset(c, TRUE)
          /\ UNCHANGED sent
    /\ UNCHANGED <<mu, active, resetting, client, started, broken, faults, tries, got, linkFaults>>

\* reserveCall comes before BootstrapMu is released.
ReserveCall(c) ==
    /\ pc[c] = "reserve"
    /\ active' = active + 1
    /\ got' = [got EXCEPT ![c] = client]
    /\ Goto(c, "unlock")
    /\ UNCHANGED <<mu, resetting, session, tries, held>>

UnlockBootstrap(c) ==
    /\ pc[c] = "unlock"
    /\ mu' = None
    /\ Goto(c, "calling")
    /\ UNCHANGED <<active, resetting, session, tries, got, held>>

-----------------------------------------------------------------------------
(* The call. *)

ReleaseCall(c, l) ==
    /\ pc[c] = "calling"
    /\ active' = active - 1
    /\ got' = [got EXCEPT ![c] = 0]
    /\ Goto(c, l)

CallReturns(c) ==
    /\ ~broken
    /\ ReleaseCall(c, "done")
    /\ UNCHANGED <<mu, resetting, session, tries, held>>

CallFails(c) ==
    /\ IF broken THEN UNCHANGED faults ELSE Fault
    /\ ReleaseCall(c, "failed")
    /\ UNCHANGED <<mu, resetting, client, started, sent, broken, tries, held, linkFaults>>

\* Mutant: one attempt too many.
RetryOnceMore(c) ==
    /\ pc[c] = "failed"
    /\ IF tries[c] = MaxAttempts
         THEN Goto(c, "done") /\ UNCHANGED held
         ELSE GotoReset(c, FALSE)
    /\ UNCHANGED <<mu, active, resetting, session, tries, got>>

\* withRetries after a failed attempt: stop, or reset the session.
RetryOrStop(c) ==
    /\ pc[c] = "failed"
    /\ IF tries[c] = MaxAttempts - 1
         THEN Goto(c, "done") /\ UNCHANGED held
         ELSE GotoReset(c, FALSE)
    /\ UNCHANGED <<mu, active, resetting, session, tries, got>>

-----------------------------------------------------------------------------
(* resetSessionSafely.  held is its parameter bootstrapHeld.  A caller that *)
(* fails to prepare resets without reconnecting, the others reconnect.     *)

BeginReset(c) ==
    /\ pc[c] = "reset"
    /\ IF resetting
         THEN Goto(c, "follow") /\ UNCHANGED resetting
         ELSE Goto(c, IF held[c] THEN "drain" ELSE "resetLock") /\ resetting' = TRUE
    /\ UNCHANGED <<mu, active, session, tries, got, held>>

\* Where a caller goes on when its reset has returned.  An ensurer keeps
\* BootstrapMu and tries again; a failed preparation gives it back and counts
\* as a failed attempt; withRetries starts its next attempt.
AfterReset(c) ==
    \/ /\ held[c] /\ c \in Ensurer
       /\ tries' = [tries EXCEPT ![c] = @ + 1]
       /\ Goto(c, "ensure")
       /\ UNCHANGED mu
    \/ /\ held[c] /\ c \notin Ensurer
       /\ mu' = None
       /\ Goto(c, "failed")
       /\ UNCHANGED tries
    \/ /\ ~held[c]
       /\ UNCHANGED mu
       /\ tries' = [tries EXCEPT ![c] = @ + 1]
       /\ Goto(c, "prepare")

FollowReset(c) ==
    /\ pc[c] = "follow"
    /\ ~resetting
    /\ AfterReset(c)
    /\ UNCHANGED <<active, resetting, session, got, held>>

ResetLock(c) ==
    /\ pc[c] = "resetLock"
    /\ mu = None
    /\ mu' = c
    /\ Goto(c, "drain")
    /\ UNCHANGED <<active, resetting, session, tries, got, held>>

\* Mutant: the reset does not wait for the calls under way.
waitForNothing(c) ==
    /\ pc[c] = "drain"
    /\ Goto(c, "teardown")
    /\ UNCHANGED <<mu, active, resetting, session, tries, got, held>>

waitForNoActiveCalls(c) ==
    /\ pc[c] = "drain"
    /\ active = 0
    /\ Goto(c, "teardown")
    /\ UNCHANGED <<mu, active, resetting, session, tries, got, held>>

\* resetSession drops the client and closes the stdio of the executor.
Teardown(c) ==
    /\ pc[c] = "teardown"
    /\ client' = 0
    /\ sent' = {}
    /\ Goto(c, "reconnect")
    /\ UNCHANGED <<mu, active, resetting, started, broken, faults, tries, got, held, linkFaults>>

\* A leader that locked BootstrapMu itself gives it back here, before the
\* reset is over: the deferred calls run last in, first out.
Reconnect(c) ==
    /\ pc[c] = "reconnect"
    /\ IF held[c] /\ c \notin Ensurer
         THEN UNCHANGED <<broken, faults>>
         ELSE \/ broken' = FALSE /\ UNCHANGED faults
              \/ broken /\ Fault /\ UNCHANGED broken
    /\ mu' = IF held[c] THEN mu ELSE None
    /\ Goto(c, "finish")
    /\ UNCHANGED <<active, resetting, client, started, sent, tries, got, held, linkFaults>>

\* Mutant: the leader returns without clearing resetInProgress.
FinishForgotten(c) ==
    /\ pc[c] = "finish"
    /\ AfterReset(c)
    /\ UNCHANGED <<active, resetting, session, got, held>>

FinishReset(c) ==
    /\ pc[c] = "finish"
    /\ resetting' = FALSE
    /\ AfterReset(c)
    /\ UNCHANGED <<active, session, got, held>>

-----------------------------------------------------------------------------
CallerStep(c) ==
    \/ LockBootstrap(c) \/ EnsureExecutor(c) \/ EnsureFails(c) \/ SendPlugin(c)
    \/ ReserveCall(c) \/ UnlockBootstrap(c) \/ CallReturns(c) \/ CallFails(c)
    \/ RetryOrStop(c) \/ BeginReset(c) \/ FollowReset(c) \/ ResetLock(c)
    \/ waitForNoActiveCalls(c) \/ Teardown(c) \/ Reconnect(c) \/ FinishReset(c)

\* All callers are done: the apply is over.
Terminated ==
    /\ \A c \in Caller : pc[c] = "done"
    /\ UNCHANGED vars

Next ==
    \/ \E c \in Caller : CallerStep(c)
    \/ LoseConnection
    \/ Terminated

Spec == Init /\ [][Next]_vars

\* Goroutines run, RPCs return or fail, and sync.Mutex does not starve a
\* waiter, hence strong fairness.
FairSpec == Spec /\ \A c \in Caller : SF_vars(CallerStep(c))

-----------------------------------------------------------------------------
(* Properties. *)

\* The session and its callers have their shape.
TypeOK ==
    /\ mu \in Caller \cup {None}
    /\ active \in Nat
    /\ resetting \in BOOLEAN
    /\ client \in Nat /\ started \in Nat
    /\ sent \subseteq {ModuleOf[c] : c \in Caller}
    /\ broken \in BOOLEAN
    /\ faults \in 0..MaxFaults
    /\ linkFaults \in BOOLEAN
    /\ pc \in [Caller -> {"prepare", "ensure", "plugin", "reserve", "unlock", "calling",
                          "failed", "reset", "follow", "resetLock", "drain", "teardown",
                          "reconnect", "finish", "done"}]
    /\ tries \in [Caller -> 0..(MaxAttempts - 1)]
    /\ got \in [Caller -> Nat]
    /\ held \in [Caller -> BOOLEAN]

\* A concurrent reset cannot tear down the executor's stdio between bootstrap
\* and the end of the call: whoever has reserved the session still has the
\* client it was handed, through every interleaving of resets and retries.
CallKeepsClient ==
    \A c \in Caller : pc[c] \in {"unlock", "calling"} => got[c] # 0 /\ got[c] = client

\* README: the provider is "designed to be resilient to transient SSH failures
\* and host reboots".  Every operation that uses the session comes to an end,
\* with its result or with an error.
EveryCallReturns == <>(\A c \in Caller : pc[c] = "done")

\* As long as the connection holds and executors start, every operation comes to an
\* end, whatever calls fail and sessions are reset.
CallsReturnWhileLinked == ~linkFaults => EveryCallReturns
=============================================================================
