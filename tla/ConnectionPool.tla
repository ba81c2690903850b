--------------------------- MODULE ConnectionPool ---------------------------
(***************************************************************************)
(* The provider's pool of SSH sessions (providers/shared/transport/pool.go)*)
(* with the host key checks of ssh.go and hostkeys.go, as the operations   *)
(* of hostsession/manager.go use it: a worker gets a session for its       *)
(* target, marks it in use, calls over it, unmarks it, and after a failure *)
(* reconnects the session, or gets another one, and tries again.           *)
(*                                                                         *)
(* A target is a cache key.  Dialling stands for a whole retry budget.     *)
(* The resets of one session exclude each other and the calls over it      *)
(* (module SessionRuntime; guards of Begin and CanReset).  Two sessions of *)
(* one target, the older one removed from the pool but still held, are not *)
(* kept apart by that.                                                     *)
(***************************************************************************)
EXTENDS Naturals, FiniteSets, Sequences

CONSTANTS
    Worker,         \* goroutines, each with one operation
    Target,         \* cache keys
    MaxConns,       \* max_connections
    MaxAttempts,    \* attempts of the retry policy of an operation
    MaxFaults,      \* bound: failed dials, lost links, rebuilt hosts, cancellations
    MaxRemovals,    \* bound: calls of Remove and Close
    Target0,        \* the target of the operation of each worker
    Want0,          \* the host key it expects, 0 if none
    None

ASSUME PoolAssumption ==
    /\ IsFiniteSet(Worker) /\ IsFiniteSet(Target)
    /\ MaxConns \in Nat \ {0} /\ MaxAttempts \in Nat \ {0}
    /\ MaxFaults \in Nat /\ MaxRemovals \in Nat
    /\ Target0 \in [Worker -> Target] /\ Want0 \in [Worker -> {0, 1}]
    /\ None \notin Worker

VARIABLES
    sess,       \* the sessions made so far: target, link, observed host key, uses
    cached,     \* p.sessions: the session of each target, 0 if there is none
    recent,     \* the sessions in the order they were last used
    inflight,   \* p.inflight: the worker that dials for a target, or None
    hostKey,    \* the key the host of a target presents
    trusted,    \* the trust store: the keys accepted for a target
    pc,
    target,     \* of the operation of each worker
    want,       \* the host key the operation expects, 0 if none
    mine,       \* the session a worker holds, 0 if none
    on,         \* the worker whose attempt is waited for
    res,        \* the result of an attempt, for its owner and those who waited
    victim,     \* the session its owner has still to close, 0 if none
    tries,
    faults,
    removals

poolVars == <<sess, cached, recent, inflight, hostKey, trusted>>
workerVars == <<target, want, mine, on, res, victim, tries>>
vars == <<poolVars, pc, workerVars, faults, removals>>

Ok(s) == [ok |-> TRUE, retry |-> FALSE, s |-> s]
Err(retry) == [ok |-> FALSE, retry |-> retry, s |-> 0]

Init ==
    /\ sess = <<>>
    /\ cached = [k \in Target |-> 0]
    /\ recent = <<>>
    /\ inflight = [k \in Target |-> None]
    /\ hostKey = [k \in Target |-> 1]
    /\ trusted = [k \in Target |-> {}]
    /\ pc = [w \in Worker |-> "get"]
    /\ target = Target0
    /\ want = Want0
    /\ mine = [w \in Worker |-> 0]
    /\ on = [w \in Worker |-> None]
    /\ res = [w \in Worker |-> Err(FALSE)]
    /\ victim = [w \in Worker |-> 0]
    /\ tries = [w \in Worker |-> 0]
    /\ faults = 0
    /\ removals = 0

Goto(w, l) == pc' = [pc EXCEPT ![w] = l]
Fault == faults < MaxFaults /\ faults' = faults + 1
Touch(s) == recent' = Append(SelectSeq(recent, LAMBDA x : x # s), s)
Size == Cardinality({k \in Target : cached[k] # 0})

\* An operation that was without a session ends with the error; one that was to
\* replace its session goes on with the one it has.
GetFails(w) == Goto(w, IF mine[w] = 0 THEN "done" ELSE "got")

-----------------------------------------------------------------------------
validateSessionTrust(s, w) == want[w] \in {0, sess[s].fp}

\* The session of a successful get, if it is the host the operation expects.
Take(w, s) ==
    \/ /\ validateSessionTrust(s, w)
       /\ mine' = [mine EXCEPT ![w] = s]
       /\ Touch(s)
       /\ Goto(w, "got")
    \/ /\ ~validateSessionTrust(s, w)
       /\ GetFails(w)
       /\ UNCHANGED <<mine, recent>>

Busy(k) == inflight[k] # None

\* The three cases under the pool's mutex: wait for who is dialling, take the cached
\* session, dial.
GetOrCreate(w) ==
    LET k == target[w]
    IN /\ pc[w] = "get"
       /\ \/ /\ Busy(k)
             /\ on' = [on EXCEPT ![w] = inflight[k]]
             /\ Goto(w, "wait")
             /\ UNCHANGED <<mine, recent, inflight>>
          \/ /\ ~Busy(k) /\ cached[k] # 0
             /\ Take(w, cached[k])
             /\ UNCHANGED <<on, inflight>>
          \/ /\ ~Busy(k) /\ cached[k] = 0
             /\ inflight' = [inflight EXCEPT ![k] = w]
             /\ Goto(w, "dial")
             /\ UNCHANGED <<mine, recent, on>>
    /\ UNCHANGED <<sess, cached, hostKey, trusted, target, want, res, victim, tries, faults, removals>>

\* Mutant: the callback of a client that does not check host keys.
hostKeyCallbackAny(k, expected) == TRUE
\* The callback of the SSH handshake: the key is the expected one, and one of those
\* the store trusts for the target, if it trusts any.
hostKeyCallback(k, expected) ==
    /\ expected \in {0, hostKey[k]}
    /\ trusted[k] # {} => hostKey[k] \in trusted[k]

TrustFingerprintAliases(k) == trusted' = [trusted EXCEPT ![k] = @ \cup {hostKey[k]}]

connectSession(w) ==
    LET k == target[w]
    IN /\ pc[w] = "dial"
       /\ Goto(w, "finish")
       /\ \/ /\ hostKeyCallback(k, want[w])
             /\ TrustFingerprintAliases(k)
             /\ sess' = Append(sess, [key |-> k, link |-> "up", fp |-> hostKey[k], use |-> 0])
             /\ Touch(Len(sess) + 1)
             /\ res' = [res EXCEPT ![w] = Ok(Len(sess) + 1)]
             /\ UNCHANGED faults
          \/ /\ ~hostKeyCallback(k, want[w])     \* a handshake error, taken for a passing one
             /\ res' = [res EXCEPT ![w] = Err(TRUE)]
             /\ UNCHANGED <<sess, recent, trusted, faults>>
          \/ /\ Fault
             /\ \E retry \in BOOLEAN : res' = [res EXCEPT ![w] = Err(retry)]
             /\ UNCHANGED <<sess, recent, trusted>>
    /\ UNCHANGED <<cached, inflight, hostKey, target, want, mine, on, victim, tries, removals>>

\* The least recently used of the cached sessions that are not in use.
Evictable == {i \in DOMAIN recent : sess[recent[i]].use = 0 /\ cached[sess[recent[i]].key] = recent[i]}
evictLRULocked ==
    IF Evictable = {} THEN 0 ELSE recent[CHOOSE i \in Evictable : \A j \in Evictable : i <= j]

finishConnectAttempt(w) ==
    LET k == target[w]
        s == res[w].s
        v == IF res[w].ok /\ Size >= MaxConns THEN evictLRULocked ELSE 0
        kept == [x \in Target |-> IF v # 0 /\ cached[x] = v THEN 0 ELSE cached[x]]
    IN /\ pc[w] = "finish"
       /\ \/ res[w].ok /\ cached' = [kept EXCEPT ![k] = s]
          \/ ~res[w].ok /\ UNCHANGED cached
       /\ inflight' = [inflight EXCEPT ![k] = None]
       /\ victim' = [victim EXCEPT ![w] = v]
       /\ Goto(w, "publish")
    /\ UNCHANGED <<sess, recent, hostKey, trusted, target, want, mine, on, res, tries, faults, removals>>

closeSession(s) == sess' = [sess EXCEPT ![s].link = "closed"]

\* Mutant: those who wait to get a session are forgotten.
DeliverToReconnects(w, r, next) ==
    /\ res' = [x \in Worker |-> IF on[x] = w /\ pc[x] = "wait" THEN r ELSE IF x = w THEN Err(FALSE) ELSE res[x]]
    /\ pc' = [x \in Worker |->
                CASE x = w -> next
                  [] on[x] = w /\ pc[x] = "rewait" -> IF r.ok THEN "got" ELSE "get"
                  [] OTHER -> pc[x]]
    /\ on' = [x \in Worker |-> IF on[x] = w THEN None ELSE on[x]]

\* Those who wait for w have its result: whoever waited to get a session looks at
\* it, whoever waited to reconnect one goes on with its own session.
Deliver(w, r, next) ==
    /\ res' = [x \in Worker |-> IF on[x] = w /\ pc[x] = "wait" THEN r ELSE IF x = w THEN Err(FALSE) ELSE res[x]]
    /\ pc' = [x \in Worker |->
                CASE x = w -> next
                  [] on[x] = w /\ pc[x] = "wait" -> "woken"
                  [] on[x] = w /\ pc[x] = "rewait" -> IF r.ok THEN "got" ELSE "get"
                  [] OTHER -> pc[x]]
    /\ on' = [x \in Worker |-> IF on[x] = w THEN None ELSE on[x]]

\* The victim is closed outside the mutex, then the attempt is done.
Publish(w) ==
    /\ pc[w] = "publish"
    /\ \/ victim[w] # 0 /\ closeSession(victim[w])
       \/ victim[w] = 0 /\ UNCHANGED sess
    /\ victim' = [victim EXCEPT ![w] = 0]
    /\ \/ /\ res[w].ok
          /\ mine' = [mine EXCEPT ![w] = res[w].s]
          /\ Deliver(w, res[w], "got")
       \/ /\ ~res[w].ok
          /\ UNCHANGED mine
          /\ Deliver(w, res[w], IF mine[w] = 0 THEN "done" ELSE "got")
    /\ UNCHANGED <<cached, recent, inflight, hostKey, trusted, target, want, tries, faults, removals>>

Woken(w) ==
    /\ pc[w] = "woken"
    /\ \/ res[w].ok /\ Take(w, res[w].s)
       \/ ~res[w].ok /\ res[w].retry /\ Goto(w, "get") /\ UNCHANGED <<mine, recent>>
       \/ ~res[w].ok /\ ~res[w].retry /\ GetFails(w) /\ UNCHANGED <<mine, recent>>
    /\ res' = [res EXCEPT ![w] = Err(FALSE)]
    /\ UNCHANGED <<sess, cached, inflight, hostKey, trusted, target, want, on, victim, tries, faults, removals>>

\* The context of a worker that waits is cancelled.
Cancel(w) ==
    /\ pc[w] = "wait"
    /\ Fault
    /\ on' = [on EXCEPT ![w] = None]
    /\ Goto(w, "done")
    /\ UNCHANGED <<poolVars, target, want, mine, res, victim, tries, removals>>

-----------------------------------------------------------------------------
Resetting(w) == pc[w] \in {"redial", "refinish", "rewait"}

AcquireUse(w) ==
    /\ pc[w] = "got"
    /\ sess' = [sess EXCEPT ![mine[w]].use = @ + 1]
    /\ Goto(w, "acquired")
    /\ UNCHANGED <<cached, recent, inflight, hostKey, trusted, workerVars, faults, removals>>

\* BootstrapMu keeps the calls off a session that is being reset.
Begin(w) ==
    /\ pc[w] = "acquired"
    /\ \A x \in Worker : Resetting(x) => mine[x] # mine[w]
    /\ Goto(w, "call")
    /\ UNCHANGED <<poolVars, workerVars, faults, removals>>

\* Mutant: one attempt too many.
LastAttemptLate(w) == tries[w] = MaxAttempts
LastAttempt(w) == tries[w] + 1 = MaxAttempts

\* Mutant: a session whose link is gone is not released.
ReleaseUseIfUp(s) == sess' = [sess EXCEPT ![s].use = IF sess[s].link = "up" THEN @ - 1 ELSE @]
ReleaseUse(s) == sess' = [sess EXCEPT ![s].use = @ - 1]

\* The call succeeds over a link that is up, and the use of the session ends.
Call(w) ==
    LET s == mine[w]
    IN /\ pc[w] = "call"
       /\ ReleaseUse(s)
       /\ \/ /\ sess[s].link = "up" \/ LastAttempt(w)
             /\ Goto(w, "done")
             /\ mine' = [mine EXCEPT ![w] = 0]
             /\ tries' = [tries EXCEPT ![w] = 0]
          \/ /\ sess[s].link # "up" /\ ~LastAttempt(w)
             /\ Goto(w, "reset")
             /\ tries' = [tries EXCEPT ![w] = @ + 1]
             /\ UNCHANGED mine
    /\ UNCHANGED <<cached, recent, inflight, hostKey, trusted, target, want, on, res, victim, faults, removals>>

\* The reset of a session waits for the calls over it and for another reset of it.
\* The resets of two sessions of one target know nothing of each other.
CanReset(w) ==
    /\ pc[w] = "reset"
    /\ \A x \in Worker : mine[x] = mine[w] => ~Resetting(x) /\ pc[x] # "call"

\* Mutant: a reconnect does not look for an attempt that is under way.
ReconnectAnyway(w) ==
    /\ CanReset(w)
    /\ inflight' = [inflight EXCEPT ![target[w]] = w]
    /\ Goto(w, "redial")
    /\ UNCHANGED <<sess, cached, recent, hostKey, trusted, target, want, mine, on, res, victim, tries, faults, removals>>

\* It waits for whatever attempt at the target is under way, a connect or the
\* reconnect of another session, and goes on with its own session as it is then.
ReconnectWithReason(w) ==
    LET k == target[w]
    IN /\ CanReset(w)
       /\ \/ /\ Busy(k)
             /\ on' = [on EXCEPT ![w] = inflight[k]]
             /\ Goto(w, "rewait")
             /\ UNCHANGED inflight
          \/ /\ ~Busy(k)
             /\ inflight' = [inflight EXCEPT ![k] = w]
             /\ Goto(w, "redial")
             /\ UNCHANGED on
    /\ UNCHANGED <<sess, cached, recent, hostKey, trusted, target, want, mine, res, victim, tries, faults, removals>>

\* The session's own key is expected.  The old transport is closed once the new one
\* is there.
reconnectSession(w) ==
    LET k == target[w]
        s == mine[w]
    IN /\ pc[w] = "redial"
       /\ Goto(w, "refinish")
       /\ \/ /\ hostKeyCallback(k, sess[s].fp)
             /\ TrustFingerprintAliases(k)
             /\ sess' = [sess EXCEPT ![s].link = "up", ![s].fp = hostKey[k]]
             /\ Touch(s)
             /\ res' = [res EXCEPT ![w] = Ok(s)]
             /\ UNCHANGED faults
          \/ /\ \/ ~hostKeyCallback(k, sess[s].fp) /\ UNCHANGED faults
                \/ Fault
             /\ \E retry \in BOOLEAN : res' = [res EXCEPT ![w] = Err(retry)]
             /\ UNCHANGED <<sess, trusted, recent>>
    /\ UNCHANGED <<cached, inflight, hostKey, target, want, mine, on, victim, tries, removals>>

\* Whatever session is cached for the target is replaced, or forgotten, not closed.
finishReconnectAttempt(w) ==
    LET k == target[w]
    IN /\ pc[w] = "refinish"
       /\ cached' = [cached EXCEPT ![k] = IF res[w].ok THEN mine[w] ELSE 0]
       /\ inflight' = [inflight EXCEPT ![k] = None]
       /\ Deliver(w, res[w], IF res[w].ok THEN "got" ELSE "get")
    /\ UNCHANGED <<sess, recent, hostKey, trusted, target, want, mine, victim, tries, faults, removals>>

-----------------------------------------------------------------------------
\* Remove and Close take sessions out of the pool and close them, in use or not.
Remove(ks) ==
    LET gone == {cached[k] : k \in ks} \ {0}
    IN /\ removals < MaxRemovals
       /\ removals' = removals + 1
       /\ gone # {}
       /\ cached' = [k \in Target |-> IF k \in ks THEN 0 ELSE cached[k]]
       /\ sess' = [s \in DOMAIN sess |-> IF s \in gone THEN [sess[s] EXCEPT !.link = "closed"] ELSE sess[s]]
       /\ UNCHANGED <<recent, inflight, hostKey, trusted, pc, workerVars, faults>>

Down(s) == [s EXCEPT !.link = IF @ = "up" THEN "down" ELSE @]

\* A link is lost, or the host of a target is rebuilt: it has a new key.
LoseLink(k) ==
    /\ Fault
    /\ \E s \in DOMAIN sess : sess[s].key = k /\ sess[s].link = "up"
    /\ sess' = [s \in DOMAIN sess |-> IF sess[s].key = k THEN Down(sess[s]) ELSE sess[s]]
    /\ \/ UNCHANGED hostKey
       \/ hostKey' = [hostKey EXCEPT ![k] = @ + 1]
    /\ UNCHANGED <<cached, recent, inflight, trusted, pc, workerVars, removals>>

AllDone ==
    /\ \A w \in Worker : pc[w] = "done"
    /\ UNCHANGED vars

Step(w) ==
    \/ GetOrCreate(w) \/ connectSession(w) \/ finishConnectAttempt(w) \/ Publish(w) \/ Woken(w)
    \/ AcquireUse(w) \/ Begin(w) \/ Call(w)
    \/ ReconnectWithReason(w) \/ reconnectSession(w) \/ finishReconnectAttempt(w)

Next ==
    \/ \E w \in Worker : Step(w) \/ Cancel(w)
    \/ \E ks \in {{k} : k \in Target} \cup {Target} : Remove(ks)
    \/ \E k \in Target : LoseLink(k)
    \/ AllDone

Spec == Init /\ [][Next]_vars /\ WF_vars(\E w \in Worker : Step(w))

-----------------------------------------------------------------------------
\* Sessions, results and workers are of their types, and a cached session is one of
\* its target.
PoolTypeOK ==
    /\ \A s \in DOMAIN sess :
         /\ sess[s].key \in Target /\ sess[s].link \in {"up", "down", "closed"}
         /\ sess[s].fp \in 1 .. MaxFaults + 1 /\ sess[s].use \in 0 .. Cardinality(Worker)
    /\ \A k \in Target : cached[k] # 0 => cached[k] \in DOMAIN sess /\ sess[cached[k]].key = k
    /\ inflight \in [Target -> Worker \cup {None}]
    /\ hostKey \in [Target -> 1 .. MaxFaults + 1]
    /\ pc \in [Worker -> {"get", "dial", "finish", "publish", "wait", "woken", "got", "acquired", "call",
                          "reset", "redial", "refinish", "rewait", "done"}]
    /\ mine \in [Worker -> 0 .. Len(sess)]
    /\ tries \in [Worker -> 0 .. MaxAttempts - 1]

\* At most one worker at a time connects to a target, be it for a first connection or
\* a reconnect, and everybody else who needs it waits for that attempt, which is the
\* one the pool knows of.
SingleFlight ==
    /\ \A k \in Target :
         Cardinality({w \in Worker : target[w] = k /\ pc[w] \in {"dial", "finish", "redial", "refinish"}}) <= 1
    /\ \A w \in Worker : pc[w] \in {"wait", "rewait"} => on[w] # None /\ pc[on[w]] \in {"dial", "finish", "publish", "redial", "refinish"}

\* A call runs over a session to the host the operation was planned for: its key is
\* the one expected, through every reconnect, by whichever worker, and every rebuild
\* of the host.
CallsKnownHost ==
    \A w \in Worker : pc[w] = "call" =>
        /\ want[w] \in {0, sess[mine[w]].fp}
        /\ sess[mine[w]].link = "up" => sess[mine[w]].fp = hostKey[target[w]]

\* The uses of a session are those of the workers that hold it: none is lost or counted
\* twice when sessions are reconnected, replaced and evicted.
UsesAreCounted ==
    \A s \in DOMAIN sess :
        sess[s].use = Cardinality({w \in Worker : mine[w] = s /\ pc[w] \in {"acquired", "call"}})

\* Every operation ends, with its result or an error, however attempts, waits,
\* evictions, reconnects and removals interleave.
EveryOperationEnds == <>(\A w \in Worker : pc[w] = "done")

\* "Maximum number of concurrent SSH connections in the pool."
WithinLimit == Size <= MaxConns
=============================================================================
