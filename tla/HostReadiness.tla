--------------------------- MODULE HostReadiness ---------------------------
(***************************************************************************)
(* The readiness gate of a session (hostsession/host_readiness.go and the  *)
(* readiness fields of session_runtime.go): before an operation changes    *)
(* the host, one goroutine checks that the host has finished to boot and   *)
(* that no package manager runs; the others wait for its verdict.  A check *)
(* with root counts for both kinds of operation, one without for the       *)
(* unprivileged kind only.  A reset of the session forgets the verdict,    *)
(* and that a check is in progress, although the check goes on.            *)
(***************************************************************************)
EXTENDS Naturals, FiniteSets

CONSTANTS
    Checker,    \* operations that change the host over this session
    NeedRoot    \* those that need root

ASSUME CheckerAssumption == IsFiniteSet(Checker) /\ NeedRoot \subseteq Checker

VARIABLES
    hostReady, hostReadyRoot,   \* the verdicts
    readyInProgress,
    lastReadyErr,               \* did the last check end with an error?
    kpc,                        \* where each operation is
    rootChecked                 \* history: a check with root succeeded

readyVars == <<hostReady, hostReadyRoot, readyInProgress, lastReadyErr, kpc, rootChecked>>

ReadyInit ==
    /\ hostReady = FALSE
    /\ hostReadyRoot = FALSE
    /\ readyInProgress = FALSE
    /\ lastReadyErr = FALSE
    /\ kpc \in {[k \in Checker |-> l] : l \in {"begin", "absent"}}
    /\ rootChecked = FALSE

KGoto(k, l) == kpc' = [kpc EXCEPT ![k] = l]

\* Mutant: a check without root does for everybody.
readinessOfAnyKind(k) == hostReady
readinessSatisfiedLocked(k) == IF k \in NeedRoot THEN hostReadyRoot ELSE hostReady

\* k passes on a verdict there is, or leads the next check.
PassOrLead(k) ==
    \/ /\ readinessSatisfiedLocked(k)
       /\ KGoto(k, "pass")
       /\ UNCHANGED <<readyInProgress, lastReadyErr>>
    \/ /\ ~readinessSatisfiedLocked(k)
       /\ readyInProgress' = TRUE
       /\ lastReadyErr' = FALSE
       /\ KGoto(k, "check")

beginReadinessCheck(k) ==
    /\ kpc[k] = "begin"
    /\ \/ readyInProgress /\ KGoto(k, "wait") /\ UNCHANGED <<readyInProgress, lastReadyErr>>
       \/ ~readyInProgress /\ PassOrLead(k)
    /\ UNCHANGED <<hostReady, hostReadyRoot, rootChecked>>

\* The verdict does for k, or it is an error, or there is none k can use.
WaitReadiness(k) ==
    /\ kpc[k] = "wait"
    /\ ~readyInProgress
    /\ \/ (readinessSatisfiedLocked(k) \/ ~lastReadyErr) /\ PassOrLead(k)
       \/ /\ ~readinessSatisfiedLocked(k) /\ lastReadyErr
          /\ KGoto(k, "refused")
          /\ UNCHANGED <<readyInProgress, lastReadyErr>>
    /\ UNCHANGED <<hostReady, hostReadyRoot, rootChecked>>

\* sudo, cloud-init, systemd and the package managers, in that order: one command
\* that reports a host not ready, or that fails, refuses.
ensureHostReady(k, ok) ==
    /\ kpc[k] = "check"
    /\ KGoto(k, IF ok THEN "ready" ELSE "notReady")
    /\ UNCHANGED <<hostReady, hostReadyRoot, readyInProgress, lastReadyErr, rootChecked>>

\* Mutant: a check that fails returns early, still marked as in progress.
FinishReadinessEarly(k) ==
    \/ /\ kpc[k] = "ready"
       /\ hostReady' = TRUE
       /\ hostReadyRoot' = (hostReadyRoot \/ k \in NeedRoot)
       /\ rootChecked' = (rootChecked \/ k \in NeedRoot)
       /\ readyInProgress' = FALSE
       /\ lastReadyErr' = FALSE
       /\ KGoto(k, "pass")
    \/ /\ kpc[k] = "notReady"
       /\ KGoto(k, "refused")
       /\ UNCHANGED <<hostReady, hostReadyRoot, readyInProgress, lastReadyErr, rootChecked>>

FinishReadiness(k) ==
    /\ readyInProgress' = FALSE
    /\ \/ /\ kpc[k] = "ready"
          /\ hostReady' = TRUE
          /\ hostReadyRoot' = (hostReadyRoot \/ k \in NeedRoot)
          /\ rootChecked' = (rootChecked \/ k \in NeedRoot)
          /\ lastReadyErr' = FALSE
          /\ KGoto(k, "pass")
       \/ /\ kpc[k] = "notReady"
          /\ lastReadyErr' = TRUE
          /\ KGoto(k, "refused")
          /\ UNCHANGED <<hostReady, hostReadyRoot, rootChecked>>

clearReadiness ==
    /\ hostReady' = FALSE
    /\ hostReadyRoot' = FALSE
    /\ readyInProgress' = FALSE
    /\ lastReadyErr' = FALSE
    /\ UNCHANGED <<kpc, rootChecked>>

\* The process ends, and its operations with it.
EndReadiness ==
    /\ hostReady' = FALSE
    /\ hostReadyRoot' = FALSE
    /\ readyInProgress' = FALSE
    /\ lastReadyErr' = FALSE
    /\ kpc' = [k \in Checker |-> IF kpc[k] \in {"pass", "refused"} THEN kpc[k] ELSE "absent"]
    /\ UNCHANGED rootChecked

ReadyStep(k) == beginReadinessCheck(k) \/ WaitReadiness(k) \/ FinishReadiness(k)
=============================================================================
