------------------------ MODULE ConnectionPoolProofs ------------------------
(***************************************************************************)
(* TLAPS proofs about ConnectionPool, for any number of workers, targets,  *)
(* connections, attempts, faults and removals.                             *)
(***************************************************************************)
EXTENDS ConnectionPool, FiniteSetTheorems, TLAPS

\* Where a worker stands while it connects, and while others may wait for it.
Dialling == {"dial", "finish", "redial", "refinish"}
Attempting == Dialling \cup {"publish"}
Waiting == {"wait", "rewait"}

\* Where a worker holds a session, and where it has marked it in use.
Holding == {"got", "acquired", "call", "reset", "redial", "refinish", "rewait"}
Using == {"acquired", "call"}

Session == [key : Target, link : {"up", "down", "closed"}, fp : 1 .. MaxFaults + 1, use : Nat]
Result == [ok : BOOLEAN, retry : BOOLEAN, s : Nat]

Place == {"get", "dial", "finish", "publish", "wait", "woken", "got", "acquired", "call",
          "reset", "redial", "refinish", "rewait", "done"}

\* The shape of the state; what the order of the sessions and the victims are
\* is of no account.
Shape ==
    /\ sess \in Seq(Session)
    /\ cached \in [Target -> 0 .. Len(sess)]
    /\ inflight \in [Target -> Worker \cup {None}]
    /\ hostKey \in [Target -> 1 .. faults + 1]
    /\ DOMAIN trusted = Target
    /\ pc \in [Worker -> Place]
    /\ target = Target0
    /\ want = Want0
    /\ mine \in [Worker -> 0 .. Len(sess)]
    /\ on \in [Worker -> Worker \cup {None}]
    /\ res \in [Worker -> Result]
    /\ tries \in [Worker -> 0 .. MaxAttempts - 1]
    /\ faults \in 0 .. MaxFaults

\* Session s is one of the target of w.
IsFor(s, w) == s \in DOMAIN sess /\ sess[s].key = target[w]

\* A link that is up leads to the host that has the session's key, and a cached
\* session is one of its target.
SessionsOK ==
    /\ \A s \in DOMAIN sess : sess[s].link = "up" => sess[s].fp = hostKey[sess[s].key]
    /\ \A k \in Target : cached[k] # 0 => sess[cached[k]].key = k

\* A worker that goes on to call has a session, of its target and of the host
\* it expects.
HoldsOK ==
    \A w \in Worker :
        /\ pc[w] \in Holding => mine[w] # 0
        /\ mine[w] # 0 => IsFor(mine[w], w) /\ validateSessionTrust(mine[w], w)

\* The pool knows of every attempt, and only of those.
FlightsOK ==
    /\ \A w \in Worker : pc[w] \in Dialling => inflight[target[w]] = w
    /\ \A k \in Target : inflight[k] # None => target[inflight[k]] = k /\ pc[inflight[k]] \in Dialling

\* Whoever waits, waits for an attempt at its target that is not over yet.
WaitsOK ==
    \A w \in Worker :
        /\ pc[w] \in Waiting <=> on[w] # None
        /\ on[w] # None => target[on[w]] = target[w] /\ pc[on[w]] \in Attempting

\* The result of an attempt is a session of the target, for its owner one it trusts.
ResultsOK ==
    \A w \in Worker : res[w].ok =>
        /\ pc[w] \in {"finish", "publish", "woken"} => IsFor(res[w].s, w)
        /\ pc[w] \in {"finish", "publish"} => validateSessionTrust(res[w].s, w)
        /\ pc[w] = "refinish" => res[w].s = mine[w]

PoolInv == Shape /\ SessionsOK /\ HoldsOK /\ FlightsOK /\ WaitsOK /\ ResultsOK /\ UsesAreCounted

\* The workers that have session s in use.
Users(s) == {w \in Worker : mine[w] = s /\ pc[w] \in Using}

-----------------------------------------------------------------------------
(* What steps have in common. *)

\* Sessions changed in place are as many sessions.
LEMMA InPlace ==
    ASSUME sess \in Seq(Session), NEW f \in [DOMAIN sess -> Session]
    PROVE  f \in Seq(Session) /\ Len(f) = Len(sess) /\ DOMAIN f = DOMAIN sess
<1>1. DOMAIN sess = 1 .. Len(sess) /\ Len(sess) \in Nat
  OBVIOUS
<1>2. f \in [1 .. Len(sess) -> Session]
  BY <1>1
<1>3. QED
  BY <1>1, <1>2

\* Sessions keep their target and their key for as long as they live.
KeepsSessions ==
    /\ DOMAIN sess \subseteq DOMAIN sess'
    /\ \A s \in DOMAIN sess : sess'[s].key = sess[s].key /\ sess'[s].fp = sess[s].fp

\* Then whoever holds a session, or keeps holding one, holds one it trusts.
LEMMA HoldsStep ==
    ASSUME HoldsOK, Shape, Shape', KeepsSessions,
           \A w \in Worker :
               /\ pc'[w] \in Holding => mine'[w] # 0
               /\ mine'[w] # mine[w] /\ mine'[w] # 0 =>
                      IsFor(mine'[w], w) /\ validateSessionTrust(mine'[w], w)
    PROVE  HoldsOK'
<1>1. target' = target /\ want' = want
  BY DEF Shape
<1>2. ASSUME NEW w \in Worker, mine'[w] # 0
      PROVE  (IsFor(mine[w], w) /\ validateSessionTrust(mine[w], w))'
  <2>1. IsFor(mine'[w], w) /\ validateSessionTrust(mine'[w], w)
    BY <1>2 DEF HoldsOK, IsFor, validateSessionTrust
  <2>2. QED
    BY <1>1, <2>1 DEF IsFor, validateSessionTrust, KeepsSessions
<1>3. QED
  BY <1>2 DEF HoldsOK

\* The results are still of the target of who gets them.
LEMMA ResultsStep ==
    ASSUME ResultsOK, Shape, Shape', KeepsSessions,
           \A w \in Worker : res'[w].ok =>
               /\ pc'[w] \in {"finish", "publish", "woken"} => IsFor(res'[w].s, w)
               /\ pc'[w] \in {"finish", "publish"} => validateSessionTrust(res'[w].s, w)
               /\ pc'[w] = "refinish" => res'[w].s = mine'[w]
    PROVE  ResultsOK'
<1>1. target' = target /\ want' = want
  BY DEF Shape
<1>2. ASSUME NEW w \in Worker, NEW s, IsFor(s, w)
      PROVE  IsFor(s, w)' /\ (validateSessionTrust(s, w) => validateSessionTrust(s, w)')
  BY <1>1, <1>2 DEF IsFor, validateSessionTrust, KeepsSessions
<1>3. QED
  BY <1>2 DEF ResultsOK

\* A cached session stays one of its target.
LEMMA CachedStep ==
    ASSUME SessionsOK, Shape, KeepsSessions, DOMAIN sess' = DOMAIN sess,
           \A s \in DOMAIN sess : sess'[s].link = "up" => sess'[s].fp = hostKey'[sess'[s].key],
           \A k \in Target : cached'[k] # cached[k] /\ cached'[k] # 0 =>
               cached'[k] \in DOMAIN sess /\ sess[cached'[k]].key = k
    PROVE  SessionsOK'
<1>1. ASSUME NEW k \in Target, cached'[k] # 0 PROVE sess'[cached'[k]].key = k
  <2>1. cached'[k] \in DOMAIN sess /\ sess[cached'[k]].key = k
    BY <1>1 DEF SessionsOK, Shape
  <2>2. QED
    BY <2>1 DEF KeepsSessions
<1>2. QED
  BY <1>1 DEF SessionsOK, KeepsSessions

\* Uses that nobody begins or ends are still counted.
LEMMA UsesStep ==
    ASSUME UsesAreCounted, DOMAIN sess' = DOMAIN sess,
           \A s \in DOMAIN sess : sess'[s].use = sess[s].use,
           \A w \in Worker : pc'[w] \in Using \/ pc[w] \in Using =>
               pc'[w] \in Using /\ pc[w] \in Using /\ mine'[w] = mine[w]
    PROVE  UsesAreCounted'
<1>1. ASSUME NEW s PROVE Users(s)' = Users(s)
  BY DEF Users
<1>2. QED
  BY <1>1 DEF UsesAreCounted, Users, Using

\* A step that leaves the sessions alone keeps them.
LEMMA SameSessions ==
    ASSUME sess' = sess
    PROVE  /\ KeepsSessions
           /\ \A s \in DOMAIN sess : sess'[s].use = sess[s].use
BY DEF KeepsSessions

\* The start: no session, nobody waits.
LEMMA InitPoolInv == Init => PoolInv
<1> SUFFICES ASSUME Init PROVE PoolInv
  OBVIOUS
<1>1. Shape
  BY PoolAssumption DEF Init, Shape, Err, Result, Place
<1>2. SessionsOK /\ HoldsOK /\ FlightsOK /\ WaitsOK /\ ResultsOK
  BY DEF Init, SessionsOK, HoldsOK, FlightsOK, WaitsOK, ResultsOK, Err, Holding, Dialling, Waiting
<1>3. UsesAreCounted
  BY DEF Init, UsesAreCounted
<1>4. QED
  BY <1>1, <1>2, <1>3 DEF PoolInv
\* A worker that neither begins nor ends an attempt or a wait disturbs no
\* attempt and no wait.
LEMMA FlightsStep ==
    ASSUME NEW w \in Worker, NEW l, Shape, FlightsOK, WaitsOK, Goto(w, l),
           pc[w] \in Dialling <=> l \in Dialling,
           pc[w] \in Attempting => l \in Attempting,
           pc[w] \in Waiting <=> l \in Waiting,
           UNCHANGED <<inflight, on, target>>
    PROVE  FlightsOK' /\ WaitsOK'
<1>1. /\ pc'[w] = l /\ \A x \in Worker : x # w => pc'[x] = pc[x]
      /\ \A k \in Target : inflight[k] # None => inflight[k] \in Worker
      /\ \A x \in Worker : on[x] # None => on[x] \in Worker
  BY DEF Goto, Shape
<1>2. FlightsOK'
  BY <1>1 DEF FlightsOK
<1>3. WaitsOK'
  BY <1>1 DEF WaitsOK
<1>4. QED
  BY <1>2, <1>3

\* What the invariant says of a worker's target and expectation.
LEMMA WorkerFacts ==
    ASSUME PoolInv, NEW w \in Worker
    PROVE  /\ target[w] \in Target /\ want[w] \in {0, 1}
           /\ mine[w] \in 0 .. Len(sess) /\ res[w] \in Result /\ w # None
           /\ sess \in Seq(Session) /\ Len(sess) \in Nat /\ DOMAIN sess = 1 .. Len(sess)
BY PoolAssumption DEF PoolInv, Shape

-----------------------------------------------------------------------------
(* GetOrCreate. *)


\* A session that is taken is one of the worker's target that it trusts; a
\* worker that gets none ends, or goes on with the one it has.
LEMMA TakeStep ==
    ASSUME NEW w \in Worker, PoolInv, pc[w] \in {"get", "woken"},
           pc' = [pc EXCEPT ![w] = pc'[w]], pc'[w] \in {"get", "got", "done"},
           mine' = [mine EXCEPT ![w] = mine'[w]],
           \/ mine'[w] = mine[w] /\ (pc'[w] = "got" => mine[w] # 0)
           \/ mine'[w] # 0 /\ IsFor(mine'[w], w) /\ validateSessionTrust(mine'[w], w),
           res' = [res EXCEPT ![w] = res'[w]], res'[w] \in Result,
           UNCHANGED <<sess, cached, inflight, hostKey, trusted, target, want, on, tries, faults>>
    PROVE  PoolInv'
<1>1. /\ \A x \in Worker : x # w => pc'[x] = pc[x] /\ mine'[x] = mine[x] /\ res'[x] = res[x]
      /\ mine'[w] \in 0 .. Len(sess) /\ Goto(w, pc'[w])
  BY WorkerFacts DEF PoolInv, Shape, Goto, IsFor
<1>2. Shape'
  BY <1>1 DEF PoolInv, Shape, Place
<1>3. KeepsSessions /\ \A s \in DOMAIN sess : sess'[s].use = sess[s].use
  BY SameSessions
<1>4. SessionsOK'
  BY DEF PoolInv, SessionsOK
<1>5. HoldsOK'
  <2>1. ASSUME NEW x \in Worker
        PROVE  /\ pc'[x] \in Holding => mine'[x] # 0
               /\ mine'[x] # mine[x] /\ mine'[x] # 0 =>
                      IsFor(mine'[x], x) /\ validateSessionTrust(mine'[x], x)
    BY <1>1 DEF PoolInv, HoldsOK, Holding
  <2>2. QED
    BY <1>2, <1>3, <2>1, HoldsStep DEF PoolInv
<1>6. FlightsOK' /\ WaitsOK'
  <2>1. pc[w] \notin Attempting \cup Waiting \cup Dialling /\ pc'[w] \notin Waiting \cup Dialling
    BY DEF Attempting, Waiting, Dialling
  <2>2. QED
    BY <1>1, <2>1, FlightsStep DEF PoolInv
<1>7. ResultsOK'
  <2>1. \A x \in Worker : x = w \/ (pc'[x] = pc[x] /\ res'[x] = res[x] /\ mine'[x] = mine[x])
    BY <1>1
  <2>2. \A x \in Worker : res'[x].ok =>
               /\ pc'[x] \in {"finish", "publish", "woken"} => IsFor(res'[x].s, x)
               /\ pc'[x] \in {"finish", "publish"} => validateSessionTrust(res'[x].s, x)
               /\ pc'[x] = "refinish" => res'[x].s = mine'[x]
    BY <2>1 DEF PoolInv, ResultsOK, IsFor, validateSessionTrust
  <2>3. QED
    BY <1>2, <1>3, <2>2, ResultsStep DEF PoolInv
<1>8. UsesAreCounted'
  <2>1. pc[w] \notin Using /\ pc'[w] \notin Using
    BY DEF Using
  <2>2. QED
    BY <1>1, <1>3, <2>1, UsesStep DEF PoolInv
<1>9. QED
  BY <1>2, <1>4, <1>5, <1>6, <1>7, <1>8 DEF PoolInv

\* A worker that waits for an attempt leaves it alone; one that begins an
\* attempt is the only one to.
LEMMA BeginStep ==
    ASSUME NEW w \in Worker, PoolInv, pc[w] \in {"get", "reset"},
           pc' = [pc EXCEPT ![w] = pc'[w]],
           \/ /\ Busy(target[w]) /\ on' = [on EXCEPT ![w] = inflight[target[w]]]
              /\ pc'[w] = (IF pc[w] = "get" THEN "wait" ELSE "rewait") /\ UNCHANGED inflight
           \/ /\ ~Busy(target[w]) /\ inflight' = [inflight EXCEPT ![target[w]] = w]
              /\ pc'[w] = (IF pc[w] = "get" THEN "dial" ELSE "redial") /\ UNCHANGED on,
           UNCHANGED <<sess, cached, hostKey, trusted, target, want, mine, res, tries, faults>>
    PROVE  PoolInv'
<1>1. /\ \A x \in Worker : x # w => pc'[x] = pc[x]
      /\ \A k \in Target : inflight[k] # None => inflight[k] \in Worker
      /\ \A x \in Worker : on[x] # None => on[x] \in Worker
      /\ target' = target
  BY DEF PoolInv, Shape
<1>2. target[w] \in Target /\ w # None
  BY WorkerFacts
<1>3. Shape'
  <2>1. pc'[w] \in Place
    BY DEF Place
  <2>2. pc' \in [Worker -> Place]
    BY <2>1 DEF PoolInv, Shape
  <2>3. /\ on \in [Worker -> Worker \cup {None}] /\ inflight \in [Target -> Worker \cup {None}]
        /\ inflight[target[w]] \in Worker \cup {None}
    BY <1>2 DEF PoolInv, Shape
  <2>4. on' \in [Worker -> Worker \cup {None}]
    BY <2>3
  <2>5. inflight' \in [Target -> Worker \cup {None}]
    BY <2>3
  <2>6. QED
    BY <2>2, <2>4, <2>5 DEF PoolInv, Shape
<1>4. KeepsSessions /\ \A s \in DOMAIN sess : sess'[s].use = sess[s].use
  BY SameSessions
<1>5. SessionsOK'
  BY DEF PoolInv, SessionsOK
<1>6. HoldsOK'
  <2>1. pc'[w] \in Holding => pc[w] \in Holding
    BY DEF Holding
  <2>2. QED
    BY <1>1, <1>3, <1>4, <2>1, HoldsStep DEF PoolInv, HoldsOK
<1>7. FlightsOK'
  <2>1. CASE Busy(target[w])
    BY <1>1, <2>1 DEF PoolInv, FlightsOK, Dialling
  <2>2. CASE ~Busy(target[w])
    <3>1. /\ inflight[target[w]] = None /\ inflight'[target[w]] = w /\ pc'[w] \in Dialling
          /\ \A k \in Target : k # target[w] => inflight'[k] = inflight[k]
      BY <1>2, <2>2 DEF PoolInv, Shape, Busy, Dialling
    <3>2. \A x \in Worker : x # w /\ pc'[x] \in Dialling => target[x] # target[w] /\ target[x] \in Target
      BY <1>1, <3>1, WorkerFacts, PoolAssumption DEF PoolInv, FlightsOK
    <3>3. \A k \in Target : inflight[k] # None => inflight[k] # w
      BY DEF PoolInv, FlightsOK, Dialling
    <3>4. QED
      BY <1>1, <3>1, <3>2, <3>3 DEF PoolInv, FlightsOK
  <2>3. QED
    BY <2>1, <2>2
<1>8. WaitsOK'
  <2>1. CASE Busy(target[w])
    <3>1. /\ inflight[target[w]] \in Worker /\ target[inflight[target[w]]] = target[w]
          /\ pc[inflight[target[w]]] \in Dialling
      BY <1>2, <2>1 DEF PoolInv, Shape, Busy, FlightsOK
    <3>2. /\ on'[w] = inflight[target[w]] /\ on'[w] # None /\ on'[w] # w /\ pc'[w] \in Waiting
          /\ \A x \in Worker : x # w => on'[x] = on[x]
      BY <1>2, <2>1, <3>1 DEF PoolInv, Shape, Busy, Waiting, Dialling
    <3>3. \A x \in Worker : on[x] # w
      BY PoolAssumption DEF PoolInv, WaitsOK, Attempting, Dialling
    <3>4. QED
      BY <1>1, <3>1, <3>2, <3>3 DEF PoolInv, WaitsOK, Attempting
  <2>2. CASE ~Busy(target[w])
    <3>1. pc'[w] \in Attempting /\ pc'[w] \notin Waiting /\ pc[w] \notin Waiting /\ on' = on
      BY <2>2 DEF Attempting, Dialling, Waiting
    <3>2. QED
      BY <1>1, <3>1 DEF PoolInv, WaitsOK
  <2>3. QED
    BY <2>1, <2>2
<1>9. ResultsOK'
  <2>1. \A x \in Worker : res'[x].ok =>
               /\ pc'[x] \in {"finish", "publish", "woken"} => IsFor(res'[x].s, x)
               /\ pc'[x] \in {"finish", "publish"} => validateSessionTrust(res'[x].s, x)
               /\ pc'[x] = "refinish" => res'[x].s = mine'[x]
    BY <1>1 DEF PoolInv, ResultsOK
  <2>2. QED
    BY <1>3, <1>4, <2>1, ResultsStep DEF PoolInv
<1>10. UsesAreCounted'
  <2>1. pc[w] \notin Using /\ pc'[w] \notin Using
    BY DEF Using
  <2>2. QED
    BY <1>1, <1>4, <2>1, UsesStep DEF PoolInv
<1>11. QED
  BY <1>3, <1>5, <1>6, <1>7, <1>8, <1>9, <1>10 DEF PoolInv

\* The three cases under the pool's mutex.
LEMMA GetOrCreateStep ==
    ASSUME NEW w \in Worker, PoolInv, GetOrCreate(w)
    PROVE  PoolInv'
<1>1. /\ pc[w] = "get" /\ w \in DOMAIN pc /\ w \in DOMAIN mine
      /\ UNCHANGED <<sess, cached, hostKey, trusted, target, want, res, tries, faults>>
  BY DEF GetOrCreate, PoolInv, Shape
<1>2. CASE ~Busy(target[w]) /\ cached[target[w]] # 0
  <2>1. Take(w, cached[target[w]]) /\ UNCHANGED <<on, inflight>>
    BY <1>2 DEF GetOrCreate
  <2>2. IsFor(cached[target[w]], w)
    BY <1>2, WorkerFacts DEF PoolInv, Shape, SessionsOK, IsFor
  <2>3. /\ pc' = [pc EXCEPT ![w] = pc'[w]] /\ pc'[w] \in {"get", "got", "done"}
        /\ mine' = [mine EXCEPT ![w] = mine'[w]]
        /\ \/ mine'[w] = mine[w] /\ (pc'[w] = "got" => mine[w] # 0)
           \/ mine'[w] = cached[target[w]] /\ validateSessionTrust(cached[target[w]], w)
    BY <1>1, <2>1 DEF Take, GetFails, Goto, PoolInv, Shape
  <2>4. res' = [res EXCEPT ![w] = res'[w]] /\ res'[w] \in Result
    BY <1>1 DEF PoolInv, Shape
  <2>5. QED
    BY <1>1, <1>2, <2>1, <2>2, <2>3, <2>4, TakeStep DEF IsFor, validateSessionTrust
<1>3. CASE Busy(target[w]) \/ cached[target[w]] = 0
  <2>1. /\ pc' = [pc EXCEPT ![w] = pc'[w]] /\ UNCHANGED mine
        /\ \/ /\ Busy(target[w]) /\ on' = [on EXCEPT ![w] = inflight[target[w]]]
              /\ pc'[w] = "wait" /\ UNCHANGED inflight
           \/ /\ ~Busy(target[w]) /\ inflight' = [inflight EXCEPT ![target[w]] = w]
              /\ pc'[w] = "dial" /\ UNCHANGED on
    BY <1>1, <1>3 DEF GetOrCreate, Goto
  <2>2. QED
    BY <1>1, <2>1, BeginStep
<1>4. QED
  BY <1>2, <1>3
\* The result of a dial: a session of the target with the key its host
\* presented, or an error.
LEMMA connectSessionStep ==
    ASSUME NEW w \in Worker, PoolInv, connectSession(w)
    PROVE  PoolInv'
<1> DEFINE k == target[w]
           n == [key |-> k, link |-> "up", fp |-> hostKey[k], use |-> 0]
<1>1. /\ pc[w] = "dial" /\ Goto(w, "finish") /\ k \in Target /\ w # None
      /\ sess \in Seq(Session) /\ Len(sess) \in Nat /\ DOMAIN sess = 1 .. Len(sess)
      /\ UNCHANGED <<cached, inflight, hostKey, target, want, mine, on, tries>>
  BY WorkerFacts DEF connectSession
<1>2. /\ pc'[w] = "finish" /\ \A x \in Worker : x # w => pc'[x] = pc[x]
      /\ pc' \in [Worker -> Place]
  BY <1>1 DEF Goto, PoolInv, Shape, Place
<1>3. FlightsOK' /\ WaitsOK'
  BY <1>1, FlightsStep DEF PoolInv, Dialling, Attempting, Waiting
<1>4. \A x \in Worker : pc'[x] \in Holding => pc[x] \in Holding
  BY <1>2 DEF Holding
<1>5. \A x \in Worker : pc'[x] \in Using \/ pc[x] \in Using => pc'[x] \in Using /\ pc[x] \in Using
  BY <1>1, <1>2 DEF Using
<1>6. CASE UNCHANGED <<sess, trusted>> /\ (\E r \in BOOLEAN : res' = [res EXCEPT ![w] = Err(r)])
           /\ faults' \in {faults, faults + 1} /\ faults' \in 0 .. MaxFaults
  <2>1. Shape'
    <3>1. hostKey' \in [Target -> 1 .. faults' + 1]
      BY <1>1, <1>6 DEF PoolInv, Shape
    <3>2. res' \in [Worker -> Result]
      BY <1>6 DEF PoolInv, Shape, Err, Result
    <3>3. QED
      BY <1>1, <1>2, <1>6, <3>1, <3>2 DEF PoolInv, Shape
  <2>2. KeepsSessions /\ \A s \in DOMAIN sess : sess'[s].use = sess[s].use
    BY <1>6, SameSessions
  <2>3. HoldsOK'
    BY <1>1, <1>4, <2>1, <2>2, HoldsStep DEF PoolInv, HoldsOK
  <2>4. ResultsOK'
    <3>1. ~res'[w].ok /\ \A x \in Worker : x # w => res'[x] = res[x]
      BY <1>6 DEF PoolInv, Shape, Err
    <3>2. \A x \in Worker : res'[x].ok =>
               /\ pc'[x] \in {"finish", "publish", "woken"} => IsFor(res'[x].s, x)
               /\ pc'[x] \in {"finish", "publish"} => validateSessionTrust(res'[x].s, x)
               /\ pc'[x] = "refinish" => res'[x].s = mine'[x]
      BY <1>1, <1>2, <3>1 DEF PoolInv, ResultsOK, IsFor, validateSessionTrust
    <3>3. QED
      BY <2>1, <2>2, <3>2, ResultsStep DEF PoolInv
  <2>5. UsesAreCounted'
    BY <1>1, <1>5, <1>6, <2>2, UsesStep DEF PoolInv
  <2>6. SessionsOK'
    BY <1>1, <1>6 DEF PoolInv, SessionsOK
  <2>7. QED
    BY <1>3, <2>1, <2>3, <2>4, <2>5, <2>6 DEF PoolInv
<1>7. CASE /\ hostKeyCallback(k, want[w]) /\ TrustFingerprintAliases(k) /\ sess' = Append(sess, n)
           /\ res' = [res EXCEPT ![w] = Ok(Len(sess) + 1)] /\ UNCHANGED faults
  <2>1. n \in Session /\ n.key = k /\ n.fp = hostKey[k] /\ n.use = 0
    <3>1. hostKey[k] \in 1 .. MaxFaults + 1
      BY <1>1, PoolAssumption DEF PoolInv, Shape
    <3>2. QED
      BY <1>1, <3>1 DEF Session
  <2> HIDE DEF n
  <2>2. /\ sess' \in Seq(Session) /\ Len(sess') = Len(sess) + 1 /\ DOMAIN sess' = 1 .. Len(sess) + 1
        /\ sess'[Len(sess) + 1] = n /\ \A s \in DOMAIN sess : sess'[s] = sess[s]
    BY <1>1, <1>7, <2>1
  <2>3. Shape'
    <3>1. res' \in [Worker -> Result]
      BY <1>1, <1>7 DEF PoolInv, Shape, Ok, Result
    <3>2. DOMAIN trusted' = Target
      BY <1>7 DEF TrustFingerprintAliases, PoolInv, Shape
    <3>3. cached' \in [Target -> 0 .. Len(sess')] /\ mine' \in [Worker -> 0 .. Len(sess')]
      BY <1>1, <2>2 DEF PoolInv, Shape
    <3>4. QED
      BY <1>1, <1>2, <1>7, <2>2, <3>1, <3>2, <3>3 DEF PoolInv, Shape
  <2>4. KeepsSessions
    BY <1>1, <2>2 DEF KeepsSessions
  <2>5. HoldsOK'
    BY <1>1, <1>4, <2>3, <2>4, HoldsStep DEF PoolInv, HoldsOK
  <2>6. ResultsOK'
    <3>1. /\ res'[w].s = Len(sess) + 1 /\ \A x \in Worker : x # w => res'[x] = res[x]
      BY <1>7 DEF PoolInv, Shape, Ok
    <3>2. IsFor(res[w].s, w)' /\ validateSessionTrust(res[w].s, w)'
      BY <1>1, <1>7, <2>1, <2>2, <3>1 DEF IsFor, validateSessionTrust, hostKeyCallback
    <3>3. QED
      BY <1>1, <1>2, <2>2, <3>1, <3>2 DEF PoolInv, ResultsOK, IsFor, validateSessionTrust
  <2>7. SessionsOK'
    <3>1. \A s \in DOMAIN sess' : sess'[s].link = "up" => sess'[s].fp = hostKey'[sess'[s].key]
      BY <1>1, <2>1, <2>2 DEF PoolInv, SessionsOK
    <3>2. ASSUME NEW x \in Target, cached'[x] # 0 PROVE sess'[cached'[x]].key = x
      BY <1>1, <2>2, <3>2 DEF PoolInv, SessionsOK, Shape
    <3>3. QED
      BY <3>1, <3>2 DEF SessionsOK
  <2>8. UsesAreCounted'
    <3>1. ASSUME NEW s PROVE Users(s)' = Users(s)
      BY <1>1, <1>5 DEF Users
    <3>2. Users(Len(sess) + 1) = {}
      BY <1>1 DEF Users, PoolInv, Shape
    <3>3. \A s \in DOMAIN sess' : sess'[s].use = Cardinality(Users(s))
      <4>1. \A s \in DOMAIN sess : sess[s].use = Cardinality(Users(s))
        BY DEF PoolInv, UsesAreCounted, Users, Using
      <4>2. Cardinality(Users(Len(sess) + 1)) = 0
        BY <3>2, FS_EmptySet
      <4>3. QED
        BY <1>1, <2>1, <2>2, <4>1, <4>2
    <3>4. QED
      BY <3>1, <3>3 DEF UsesAreCounted, Users, Using
  <2>9. QED
    BY <1>3, <2>3, <2>5, <2>6, <2>7, <2>8 DEF PoolInv
<1>8. faults \in 0 .. MaxFaults /\ (Fault => faults' = faults + 1 /\ faults' \in 0 .. MaxFaults)
  BY PoolAssumption DEF PoolInv, Shape, Fault
<1>9. QED
  BY <1>6, <1>7, <1>8 DEF connectSession
\* An attempt that is over is not known to the pool any more.
LEMMA FlightEnds ==
    ASSUME NEW w \in Worker, PoolInv, pc[w] \in Dialling, pc'[w] \notin Dialling,
           \A x \in Worker : x # w /\ pc'[x] # pc[x] => pc[x] \notin Dialling /\ pc'[x] \notin Dialling,
           inflight' = [inflight EXCEPT ![target[w]] = None], target' = target
    PROVE  FlightsOK'
<1>1. /\ target[w] \in Target /\ inflight[target[w]] = w /\ inflight'[target[w]] = None
      /\ \A k \in Target : k # target[w] => inflight'[k] = inflight[k]
      /\ \A k \in Target : inflight[k] # None => inflight[k] \in Worker
  BY WorkerFacts DEF PoolInv, FlightsOK, Shape
<1>2. \A x \in Worker : target[x] \in Target
  BY WorkerFacts
<1>3. ASSUME NEW x \in Worker, pc'[x] \in Dialling PROVE inflight'[target[x]] = x
  <2>1. x # w /\ pc[x] \in Dialling /\ inflight[target[x]] = x
    BY <1>3 DEF PoolInv, FlightsOK
  <2>2. target[x] # target[w]
    BY <1>1, <2>1
  <2>3. QED
    BY <1>1, <1>2, <2>1, <2>2
<1>4. ASSUME NEW k \in Target, inflight'[k] # None
      PROVE  target[inflight'[k]] = k /\ pc'[inflight'[k]] \in Dialling
  <2>1. k # target[w] /\ inflight'[k] = inflight[k] /\ inflight[k] \in Worker
    BY <1>1, <1>4
  <2>2. target[inflight[k]] = k /\ pc[inflight[k]] \in Dialling
    BY <1>4, <2>1 DEF PoolInv, FlightsOK
  <2>3. QED
    BY <2>1, <2>2
<1>5. QED
  BY <1>3, <1>4 DEF FlightsOK

\* The session that was dialled is cached in place of an evicted one.
LEMMA finishConnectAttemptStep ==
    ASSUME NEW w \in Worker, PoolInv, finishConnectAttempt(w)
    PROVE  PoolInv'
<1>1. /\ pc[w] = "finish" /\ Goto(w, "publish") /\ target[w] \in Target
      /\ inflight' = [inflight EXCEPT ![target[w]] = None]
      /\ UNCHANGED <<sess, hostKey, trusted, target, want, mine, on, res, tries, faults>>
  BY WorkerFacts DEF finishConnectAttempt
<1>2. /\ pc'[w] = "publish" /\ \A x \in Worker : x # w => pc'[x] = pc[x]
      /\ pc' \in [Worker -> Place]
  BY <1>1 DEF Goto, PoolInv, Shape, Place
<1>3. res[w].ok => IsFor(res[w].s, w)
  BY <1>1 DEF PoolInv, ResultsOK
<1>4. /\ cached' \in [Target -> 0 .. Len(sess)]
      /\ \A k \in Target : cached'[k] \in {0, cached[k]} \/ (k = target[w] /\ res[w].ok /\ cached'[k] = res[w].s)
  <2>1. cached \in [Target -> 0 .. Len(sess)] /\ Len(sess) \in Nat
    BY WorkerFacts DEF PoolInv, Shape
  <2>2. CASE res[w].ok
    <3>1. PICK kept : /\ \E v : kept = [x \in Target |-> IF v # 0 /\ cached[x] = v THEN 0 ELSE cached[x]]
                      /\ cached' = [kept EXCEPT ![target[w]] = res[w].s]
      BY <2>2, ZenonT(40) DEF finishConnectAttempt
    <3>2. kept \in [Target -> 0 .. Len(sess)] /\ \A k \in Target : kept[k] \in {0, cached[k]}
      BY <2>1, <3>1
    <3>3. res[w].s \in 0 .. Len(sess)
      BY <1>3, <2>2, WorkerFacts DEF IsFor
    <3>4. QED
      BY <1>1, <2>2, <3>1, <3>2, <3>3
  <2>3. CASE ~res[w].ok
    BY <2>1, <2>3 DEF finishConnectAttempt
  <2>4. QED
    BY <2>2, <2>3
<1>5. Shape'
  <2>1. inflight' \in [Target -> Worker \cup {None}]
    BY <1>1 DEF PoolInv, Shape
  <2>2. QED
    BY <1>1, <1>2, <1>4, <2>1 DEF PoolInv, Shape
<1>6. KeepsSessions /\ \A s \in DOMAIN sess : sess'[s].use = sess[s].use
  BY <1>1, SameSessions
<1>7. SessionsOK'
  <2>1. \A s \in DOMAIN sess : sess'[s].link = "up" => sess'[s].fp = hostKey'[sess'[s].key]
    BY <1>1 DEF PoolInv, SessionsOK
  <2>2. \A k \in Target : cached'[k] # cached[k] /\ cached'[k] # 0 =>
               cached'[k] \in DOMAIN sess /\ sess[cached'[k]].key = k
    BY <1>3, <1>4 DEF IsFor
  <2>3. QED
    BY <1>1, <1>6, <2>1, <2>2, CachedStep DEF PoolInv
<1>8. HoldsOK'
  <2>1. \A x \in Worker : pc'[x] \in Holding => pc[x] \in Holding
    BY <1>2 DEF Holding
  <2>2. QED
    BY <1>1, <1>5, <1>6, <2>1, HoldsStep DEF PoolInv, HoldsOK
<1>9. FlightsOK'
  BY <1>1, <1>2, FlightEnds DEF Dialling
<1>10. WaitsOK'
  <2>1. \A x \in Worker : on[x] # None => on[x] \in Worker
    BY DEF PoolInv, Shape
  <2>2. \A x \in Worker : /\ pc'[x] \in Waiting <=> pc[x] \in Waiting
                          /\ pc[x] \in Attempting => pc'[x] \in Attempting
    BY <1>1, <1>2 DEF Waiting, Attempting
  <2>3. QED
    BY <1>1, <2>1, <2>2 DEF PoolInv, WaitsOK
<1>11. ResultsOK'
  <2>1. \A x \in Worker : res'[x].ok =>
               /\ pc'[x] \in {"finish", "publish", "woken"} => IsFor(res'[x].s, x)
               /\ pc'[x] \in {"finish", "publish"} => validateSessionTrust(res'[x].s, x)
               /\ pc'[x] = "refinish" => res'[x].s = mine'[x]
    BY <1>1, <1>2 DEF PoolInv, ResultsOK
  <2>2. QED
    BY <1>5, <1>6, <2>1, ResultsStep DEF PoolInv
<1>12. UsesAreCounted'
  <2>1. pc[w] \notin Using /\ pc'[w] \notin Using
    BY <1>1, <1>2 DEF Using
  <2>2. QED
    BY <1>1, <1>2, <1>6, <2>1, UsesStep DEF PoolInv
<1>13. QED
  BY <1>5, <1>7, <1>8, <1>9, <1>10, <1>11, <1>12 DEF PoolInv

\* Whoever waited for w is on its way again, with a session of its target if
\* w was successful; whoever waits for another still does.
LEMMA DeliverStep ==
    ASSUME NEW w \in Worker, NEW next \in {"got", "get", "done"}, PoolInv,
           pc[w] \in {"publish", "refinish"}, Deliver(w, res[w], next),
           mine' = [mine EXCEPT ![w] = mine'[w]],
           \/ mine'[w] = mine[w] /\ (next = "got" => mine[w] # 0)
           \/ mine'[w] = res[w].s /\ res[w].ok /\ pc[w] = "publish",
           \/ pc[w] = "publish" /\ inflight' = inflight
           \/ pc[w] = "refinish" /\ inflight' = [inflight EXCEPT ![target[w]] = None],
           sess' \in Seq(Session), Len(sess') = Len(sess), DOMAIN sess' = DOMAIN sess, KeepsSessions,
           \A s \in DOMAIN sess : sess'[s].use = sess[s].use,
           cached' \in [Target -> 0 .. Len(sess)], SessionsOK',
           UNCHANGED <<hostKey, trusted, target, want, tries, faults>>
    PROVE  PoolInv'
<1>1. /\ pc'[w] = next /\ on[w] = None /\ on'[w] = None /\ ~res'[w].ok /\ w # None
      /\ target[w] \in Target /\ res[w] \in Result /\ mine[w] \in 0 .. Len(sess)
      /\ DOMAIN sess = 1 .. Len(sess)
  <2>1. on[w] = None
    BY DEF PoolInv, WaitsOK, Waiting
  <2>2. w # None /\ target[w] \in Target /\ res[w] \in Result /\ mine[w] \in 0 .. Len(sess)
        /\ DOMAIN sess = 1 .. Len(sess)
    BY WorkerFacts
  <2>3. QED
    BY <2>1, <2>2 DEF Deliver, Err
<1>2. ASSUME NEW x \in Worker, x # w
      PROVE  \/ /\ on[x] = w /\ pc[x] = "wait" /\ pc'[x] = "woken" /\ res'[x] = res[w] /\ on'[x] = None
             \/ /\ on[x] = w /\ pc[x] = "rewait" /\ on'[x] = None /\ res'[x] = res[x]
                /\ pc'[x] \in {"got", "get"}
             \/ /\ on[x] # w /\ pc'[x] = pc[x] /\ res'[x] = res[x] /\ on'[x] = on[x]
  <2>1. on[x] = w => pc[x] \in {"wait", "rewait"}
    BY <1>1 DEF PoolInv, WaitsOK, Waiting
  <2>2. QED
    BY <1>2, <2>1 DEF Deliver
<1>3. \A x \in Worker : x # w => mine'[x] = mine[x]
  BY DEF PoolInv, Shape
<1>4. Shape'
  <2>1. pc \in [Worker -> Place] /\ on \in [Worker -> Worker \cup {None}] /\ res \in [Worker -> Result]
    BY DEF PoolInv, Shape
  <2>2. pc' \in [Worker -> Place]
    <3>1. \A x \in Worker : pc'[x] \in Place
      BY <1>1, <1>2, <2>1 DEF Place
    <3>2. QED
      BY <3>1 DEF Deliver
  <2>3. on' \in [Worker -> Worker \cup {None}]
    BY <2>1 DEF Deliver
  <2>4. Err(FALSE) \in Result
    BY DEF Err, Result
  <2>5. res' \in [Worker -> Result]
    BY <2>1, <2>4 DEF Deliver
  <2>6. mine' \in [Worker -> 0 .. Len(sess')]
    <3>1. mine'[w] \in 0 .. Len(sess)
      BY <1>1 DEF PoolInv, ResultsOK, IsFor
    <3>2. QED
      BY <3>1 DEF PoolInv, Shape
  <2>7. inflight' \in [Target -> Worker \cup {None}]
    BY DEF PoolInv, Shape
  <2>8. QED
    BY <2>2, <2>3, <2>5, <2>6, <2>7 DEF PoolInv, Shape
<1>5. HoldsOK'
  <2>1. ASSUME NEW x \in Worker
        PROVE  /\ pc'[x] \in Holding => mine'[x] # 0
               /\ mine'[x] # mine[x] /\ mine'[x] # 0 =>
                      IsFor(mine'[x], x) /\ validateSessionTrust(mine'[x], x)
    <3>1. CASE x = w
      BY <1>1, <3>1 DEF PoolInv, ResultsOK, IsFor, validateSessionTrust, Holding
    <3>2. CASE x # w
      BY <1>2, <1>3, <3>2 DEF PoolInv, HoldsOK, Holding
    <3>3. QED
      BY <3>1, <3>2
  <2>2. QED
    BY <1>4, <2>1, HoldsStep DEF PoolInv
<1>6. FlightsOK'
  <2>1. \A x \in Worker : x # w /\ pc'[x] # pc[x] => pc[x] \notin Dialling /\ pc'[x] \notin Dialling
    BY <1>2 DEF Dialling
  <2>2. pc'[w] \notin Dialling
    BY <1>1 DEF Dialling
  <2>3. CASE pc[w] = "refinish"
    BY <2>1, <2>2, <2>3, FlightEnds DEF Dialling
  <2>4. CASE pc[w] = "publish"
    <3>1. pc[w] \notin Dialling /\ inflight' = inflight
      BY <2>4 DEF Dialling
    <3>2. \A k \in Target : inflight[k] # None => inflight[k] \in Worker
      BY DEF PoolInv, Shape
    <3>3. QED
      BY <2>1, <2>2, <3>1, <3>2 DEF PoolInv, FlightsOK
  <2>5. QED
    BY <2>3, <2>4
<1>7. WaitsOK'
  <2>1. ASSUME NEW x \in Worker
        PROVE  /\ pc'[x] \in Waiting <=> on'[x] # None
               /\ on'[x] # None => target[on'[x]] = target[x] /\ pc'[on'[x]] \in Attempting
    <3>1. CASE x = w
      BY <1>1, <3>1 DEF Waiting
    <3>2. CASE x # w /\ on[x] = w
      BY <1>2, <3>2 DEF Waiting
    <3>3. CASE x # w /\ on[x] # w
      <4>1. pc'[x] = pc[x] /\ on'[x] = on[x]
        BY <1>2, <3>3
      <4>2. CASE on[x] = None
        BY <4>1, <4>2 DEF PoolInv, WaitsOK
      <4>3. CASE on[x] # None
        <5>1. on[x] \in Worker /\ pc[on[x]] \in Attempting /\ target[on[x]] = target[x]
          BY <4>3 DEF PoolInv, Shape, WaitsOK
        <5>2. pc'[on[x]] = pc[on[x]]
          BY <1>2, <3>3, <5>1 DEF Attempting, Dialling
        <5>3. QED
          BY <4>1, <4>3, <5>1, <5>2 DEF PoolInv, WaitsOK
      <4>4. QED
        BY <4>2, <4>3
    <3>4. QED
      BY <3>1, <3>2, <3>3
  <2>2. QED
    BY <2>1 DEF WaitsOK
<1>8. ResultsOK'
  <2>1. ASSUME NEW x \in Worker, res'[x].ok
        PROVE  /\ pc'[x] \in {"finish", "publish", "woken"} => IsFor(res'[x].s, x)
               /\ pc'[x] \in {"finish", "publish"} => validateSessionTrust(res'[x].s, x)
               /\ pc'[x] = "refinish" => res'[x].s = mine'[x]
    <3>1. x # w
      BY <1>1, <2>1
    <3>2. CASE on[x] = w /\ pc[x] = "wait"
      <4>1. pc'[x] = "woken" /\ res'[x] = res[w] /\ res[w].ok /\ target[x] = target[w]
        BY <1>1, <1>2, <2>1, <3>1, <3>2 DEF PoolInv, WaitsOK
      <4>2. IsFor(res[w].s, w)
        <5>1. CASE pc[w] = "publish"
          BY <4>1, <5>1 DEF PoolInv, ResultsOK
        <5>2. CASE pc[w] = "refinish"
          BY <4>1, <5>2 DEF PoolInv, ResultsOK, HoldsOK, Holding
        <5>3. QED
          BY <5>1, <5>2
      <4>3. QED
        BY <4>1, <4>2 DEF IsFor
    <3>3. CASE on[x] = w /\ pc[x] = "rewait"
      BY <1>2, <3>1, <3>3
    <3>4. CASE on[x] # w
      BY <1>2, <1>3, <2>1, <3>1, <3>4 DEF PoolInv, ResultsOK, IsFor, validateSessionTrust
    <3>5. QED
      BY <1>2, <3>1, <3>2, <3>3, <3>4
  <2>2. QED
    BY <1>4, <2>1, ResultsStep DEF PoolInv
<1>9. UsesAreCounted'
  <2>1. \A x \in Worker : pc'[x] \in Using \/ pc[x] \in Using =>
               pc'[x] \in Using /\ pc[x] \in Using /\ mine'[x] = mine[x]
    BY <1>1, <1>2, <1>3 DEF Using
  <2>2. QED
    BY <2>1, UsesStep DEF PoolInv
<1>10. QED
  BY <1>4, <1>5, <1>6, <1>7, <1>8, <1>9 DEF PoolInv
\* Changing the link of a session changes nothing else of it.
LEMMA LinkChange ==
    ASSUME NEW r \in Session, NEW l \in {"up", "down", "closed"}
    PROVE  /\ [r EXCEPT !.link = l] \in Session /\ [r EXCEPT !.link = l].link = l
           /\ [r EXCEPT !.link = l].key = r.key /\ [r EXCEPT !.link = l].fp = r.fp
           /\ [r EXCEPT !.link = l].use = r.use
BY DEF Session

\* Changing one session's link or use, whichever it is, keeps the sessions.
LEMMA InPlaceKeeps ==
    ASSUME sess \in Seq(Session), DOMAIN sess' = DOMAIN sess, sess' = [s \in DOMAIN sess |-> sess'[s]],
           \A s \in DOMAIN sess : sess'[s] \in Session /\ sess'[s].key = sess[s].key /\ sess'[s].fp = sess[s].fp
    PROVE  sess' \in Seq(Session) /\ Len(sess') = Len(sess) /\ KeepsSessions
<1>1. sess' \in [DOMAIN sess -> Session]
  OBVIOUS
<1>2. sess' \in Seq(Session) /\ Len(sess') = Len(sess)
  BY <1>1, InPlace
<1>3. QED
  BY <1>2 DEF KeepsSessions

\* The evicted session is closed, and the result is there for everybody.
LEMMA PublishStep ==
    ASSUME NEW w \in Worker, PoolInv, Publish(w)
    PROVE  PoolInv'
<1>1. /\ pc[w] = "publish" /\ sess \in Seq(Session)
      /\ UNCHANGED <<cached, inflight, hostKey, trusted, target, want, tries, faults>>
  BY WorkerFacts DEF Publish
<1>2. /\ DOMAIN sess' = DOMAIN sess /\ sess' = [s \in DOMAIN sess |-> sess'[s]]
      /\ \A s \in DOMAIN sess : sess'[s] = sess[s] \/ sess'[s] = [sess[s] EXCEPT !.link = "closed"]
  <2>1. CASE victim[w] # 0
    BY <1>1, <2>1 DEF Publish, closeSession
  <2>2. CASE victim[w] = 0
    BY <1>1, <2>2 DEF Publish
  <2>3. QED
    BY <2>1, <2>2
<1>3. \A s \in DOMAIN sess : /\ sess'[s] \in Session /\ sess'[s].key = sess[s].key
                             /\ sess'[s].fp = sess[s].fp /\ sess'[s].use = sess[s].use
                             /\ sess'[s].link = "up" => sess[s].link = "up"
  <2> SUFFICES ASSUME NEW s \in DOMAIN sess
               PROVE  /\ sess'[s] \in Session /\ sess'[s].key = sess[s].key
                      /\ sess'[s].fp = sess[s].fp /\ sess'[s].use = sess[s].use
                      /\ sess'[s].link = "up" => sess[s].link = "up"
    OBVIOUS
  <2>1. sess[s] \in Session
    BY <1>1
  <2> DEFINE closed == [sess[s] EXCEPT !.link = "closed"]
  <2>2. /\ closed \in Session /\ closed.link = "closed" /\ closed.key = sess[s].key
        /\ closed.fp = sess[s].fp /\ closed.use = sess[s].use
    BY <2>1, LinkChange
  <2>3. sess'[s] = sess[s] \/ sess'[s] = closed
    BY <1>2
  <2> HIDE DEF closed
  <2>4. QED
    BY <2>1, <2>2, <2>3
<1>4. sess' \in Seq(Session) /\ Len(sess') = Len(sess) /\ KeepsSessions
  BY <1>1, <1>2, <1>3, InPlaceKeeps
<1>5. SessionsOK'
  <2>1. \A s \in DOMAIN sess : sess'[s].link = "up" => sess'[s].fp = hostKey'[sess'[s].key]
    BY <1>1, <1>3 DEF PoolInv, SessionsOK
  <2>2. QED
    BY <1>1, <1>2, <1>4, <2>1, CachedStep DEF PoolInv
<1>6. cached' \in [Target -> 0 .. Len(sess)]
  BY <1>1 DEF PoolInv, Shape
<1>7. /\ mine' = [mine EXCEPT ![w] = mine'[w]]
      /\ \E next \in {"got", "get", "done"} :
           /\ Deliver(w, res[w], next)
           /\ \/ mine'[w] = mine[w] /\ (next = "got" => mine[w] # 0)
              \/ mine'[w] = res[w].s /\ res[w].ok
  <2>1. mine \in [Worker -> 0 .. Len(sess)]
    BY DEF PoolInv, Shape
  <2>2. QED
    BY <2>1 DEF Publish
<1>8. QED
  BY <1>1, <1>2, <1>3, <1>4, <1>5, <1>6, <1>7, DeliverStep

\* The result a worker waited for is a session of its target, or an error.
LEMMA WokenStep ==
    ASSUME NEW w \in Worker, PoolInv, Woken(w)
    PROVE  PoolInv'
<1>1. /\ pc[w] = "woken" /\ res' = [res EXCEPT ![w] = Err(FALSE)]
      /\ UNCHANGED <<sess, cached, inflight, hostKey, trusted, target, want, on, tries, faults>>
  BY DEF Woken
<1>2. res' = [res EXCEPT ![w] = res'[w]] /\ res'[w] \in Result
  BY <1>1 DEF Err, Result, PoolInv, Shape
<1>3. res[w].ok => IsFor(res[w].s, w)
  BY <1>1 DEF PoolInv, ResultsOK
<1>4. /\ pc' = [pc EXCEPT ![w] = pc'[w]] /\ pc'[w] \in {"get", "got", "done"}
      /\ mine' = [mine EXCEPT ![w] = mine'[w]]
      /\ \/ mine'[w] = mine[w] /\ (pc'[w] = "got" => mine[w] # 0)
         \/ mine'[w] = res[w].s /\ res[w].ok /\ validateSessionTrust(res[w].s, w)
  <2>1. pc \in [Worker -> Place] /\ mine \in [Worker -> 0 .. Len(sess)]
    BY DEF PoolInv, Shape
  <2>2. QED
    BY <2>1 DEF Woken, Take, GetFails, Goto
<1>5. IsFor(res[w].s, w) => res[w].s # 0
  BY WorkerFacts DEF IsFor
<1>6. \/ mine'[w] = mine[w] /\ (pc'[w] = "got" => mine[w] # 0)
      \/ mine'[w] # 0 /\ IsFor(mine'[w], w) /\ validateSessionTrust(mine'[w], w)
  BY <1>3, <1>4, <1>5 DEF IsFor, validateSessionTrust
<1>7. QED
  BY <1>1, <1>2, <1>4, <1>6, TakeStep

\* A worker that gives up its wait leaves the attempt to the others.
LEMMA CancelStep ==
    ASSUME NEW w \in Worker, PoolInv, Cancel(w)
    PROVE  PoolInv'
<1>1. /\ pc[w] = "wait" /\ Goto(w, "done") /\ on' = [on EXCEPT ![w] = None] /\ Fault
      /\ UNCHANGED <<sess, cached, inflight, hostKey, trusted, target, want, mine, res, tries>>
  BY DEF Cancel, poolVars
<1>2. /\ pc'[w] = "done" /\ \A x \in Worker : x # w => pc'[x] = pc[x] /\ on'[x] = on[x]
      /\ pc' \in [Worker -> Place] /\ on'[w] = None
  BY <1>1 DEF Goto, PoolInv, Shape, Place
<1>3. Shape'
  <2>1. on' \in [Worker -> Worker \cup {None}]
    BY <1>1 DEF PoolInv, Shape
  <2>2. faults' \in 0 .. MaxFaults /\ hostKey' \in [Target -> 1 .. faults' + 1]
    BY <1>1, PoolAssumption DEF PoolInv, Shape, Fault
  <2>3. QED
    BY <1>1, <1>2, <2>1, <2>2 DEF PoolInv, Shape
<1>4. KeepsSessions /\ \A s \in DOMAIN sess : sess'[s].use = sess[s].use
  BY <1>1, SameSessions
<1>5. SessionsOK'
  BY <1>1 DEF PoolInv, SessionsOK
<1>6. HoldsOK'
  <2>1. \A x \in Worker : pc'[x] \in Holding => pc[x] \in Holding
    BY <1>2 DEF Holding
  <2>2. QED
    BY <1>1, <1>3, <1>4, <2>1, HoldsStep DEF PoolInv, HoldsOK
<1>7. FlightsOK'
  <2>1. \A x \in Worker : pc'[x] \in Dialling <=> pc[x] \in Dialling
    BY <1>1, <1>2 DEF Dialling
  <2>2. \A k \in Target : inflight[k] # None => inflight[k] \in Worker
    BY DEF PoolInv, Shape
  <2>3. QED
    BY <1>1, <2>1, <2>2 DEF PoolInv, FlightsOK
<1>8. WaitsOK'
  <2>1. \A x \in Worker : pc[x] \in Attempting => pc'[x] \in Attempting
    BY <1>1, <1>2 DEF Attempting, Dialling
  <2>2. \A x \in Worker : on[x] # None => on[x] \in Worker
    BY DEF PoolInv, Shape
  <2>3. pc'[w] \notin Waiting
    BY <1>2 DEF Waiting
  <2>4. QED
    BY <1>1, <1>2, <2>1, <2>2, <2>3 DEF PoolInv, WaitsOK
<1>9. ResultsOK'
  <2>1. \A x \in Worker : res'[x].ok =>
               /\ pc'[x] \in {"finish", "publish", "woken"} => IsFor(res'[x].s, x)
               /\ pc'[x] \in {"finish", "publish"} => validateSessionTrust(res'[x].s, x)
               /\ pc'[x] = "refinish" => res'[x].s = mine'[x]
    BY <1>1, <1>2 DEF PoolInv, ResultsOK
  <2>2. QED
    BY <1>3, <1>4, <2>1, ResultsStep DEF PoolInv
<1>10. UsesAreCounted'
  <2>1. pc[w] \notin Using /\ pc'[w] \notin Using
    BY <1>1, <1>2 DEF Using
  <2>2. QED
    BY <1>1, <1>2, <1>4, <2>1, UsesStep DEF PoolInv
<1>11. QED
  BY <1>3, <1>5, <1>6, <1>7, <1>8, <1>9, <1>10 DEF PoolInv
-----------------------------------------------------------------------------
(* The use of a session. *)

\* A worker that goes from one call to the next keeps its session, or gives
\* it up when it is done.
LEMMA MoveStep ==
    ASSUME NEW w \in Worker, PoolInv,
           pc[w] \in {"got", "acquired", "call"}, pc'[w] \in {"acquired", "call", "reset", "done"},
           pc' = [pc EXCEPT ![w] = pc'[w]],
           mine' = [mine EXCEPT ![w] = mine'[w]],
           mine'[w] = mine[w] \/ (mine'[w] = 0 /\ pc'[w] = "done"),
           sess' \in Seq(Session), Len(sess') = Len(sess), DOMAIN sess' = DOMAIN sess, KeepsSessions,
           \A s \in DOMAIN sess : sess'[s].link = sess[s].link,
           tries' \in [Worker -> 0 .. MaxAttempts - 1], UsesAreCounted',
           UNCHANGED <<cached, inflight, hostKey, trusted, target, want, on, res, faults>>
    PROVE  PoolInv'
<1>1. /\ \A x \in Worker : x # w => pc'[x] = pc[x] /\ mine'[x] = mine[x]
      /\ Goto(w, pc'[w]) /\ mine[w] \in 0 .. Len(sess) /\ Len(sess) \in Nat
  BY WorkerFacts DEF PoolInv, Shape, Goto
<1>2. Shape'
  <2>1. pc' \in [Worker -> Place]
    BY DEF PoolInv, Shape, Place
  <2>2. mine' \in [Worker -> 0 .. Len(sess')]
    <3>1. mine'[w] \in 0 .. Len(sess) /\ mine \in [Worker -> 0 .. Len(sess)]
      BY <1>1 DEF PoolInv, Shape
    <3>2. QED
      BY <3>1
  <2>3. QED
    BY <2>1, <2>2 DEF PoolInv, Shape
<1>3. SessionsOK'
  <2>1. \A s \in DOMAIN sess : sess'[s].link = "up" => sess'[s].fp = hostKey'[sess'[s].key]
    BY DEF PoolInv, SessionsOK, KeepsSessions
  <2>2. QED
    BY <2>1, CachedStep DEF PoolInv
<1>4. HoldsOK'
  <2>1. pc[w] \in Holding /\ (pc'[w] \in Holding => pc'[w] # "done")
    BY DEF Holding
  <2>2. QED
    BY <1>1, <1>2, <2>1, HoldsStep DEF PoolInv, HoldsOK
<1>5. FlightsOK' /\ WaitsOK'
  <2>1. pc[w] \notin Attempting \cup Waiting \cup Dialling /\ pc'[w] \notin Waiting \cup Dialling
    BY DEF Attempting, Waiting, Dialling
  <2>2. QED
    BY <1>1, <2>1, FlightsStep DEF PoolInv
<1>6. ResultsOK'
  <2>1. \A x \in Worker : res'[x].ok =>
               /\ pc'[x] \in {"finish", "publish", "woken"} => IsFor(res'[x].s, x)
               /\ pc'[x] \in {"finish", "publish"} => validateSessionTrust(res'[x].s, x)
               /\ pc'[x] = "refinish" => res'[x].s = mine'[x]
    BY <1>1 DEF PoolInv, ResultsOK
  <2>2. QED
    BY <1>2, <2>1, ResultsStep DEF PoolInv
<1>7. QED
  BY <1>2, <1>3, <1>4, <1>5, <1>6 DEF PoolInv

\* Changing the use of a session changes nothing else of it.
LEMMA UseChange ==
    ASSUME sess \in Seq(Session), NEW s \in DOMAIN sess, NEW n \in Nat,
           sess' = [sess EXCEPT ![s].use = n]
    PROVE  /\ sess' \in Seq(Session) /\ Len(sess') = Len(sess) /\ DOMAIN sess' = DOMAIN sess
           /\ KeepsSessions /\ \A x \in DOMAIN sess : sess'[x].link = sess[x].link
           /\ sess'[s].use = n /\ \A x \in DOMAIN sess : x # s => sess'[x].use = sess[x].use
<1>1. /\ sess'[s] = [sess[s] EXCEPT !.use = n] /\ DOMAIN sess' = DOMAIN sess
      /\ \A x \in DOMAIN sess : x # s => sess'[x] = sess[x]
      /\ sess' = [x \in DOMAIN sess |-> sess'[x]]
  OBVIOUS
<1>2. /\ sess'[s] \in Session /\ sess'[s].key = sess[s].key /\ sess'[s].fp = sess[s].fp
      /\ sess'[s].link = sess[s].link /\ sess'[s].use = n
  <2>1. sess[s] \in Session
    OBVIOUS
  <2>2. QED
    BY <1>1, <2>1 DEF Session
<1>3. \A x \in DOMAIN sess : sess'[x] \in Session /\ sess'[x].key = sess[x].key /\ sess'[x].fp = sess[x].fp
  BY <1>1, <1>2
<1>4. QED
  BY <1>1, <1>2, <1>3, InPlaceKeeps

\* A worker that begins to use its session is counted.
LEMMA AcquireUseStep ==
    ASSUME NEW w \in Worker, PoolInv, AcquireUse(w)
    PROVE  PoolInv'
<1>0. PICK s : s = mine[w]
  OBVIOUS
<1>1. /\ pc[w] = "got" /\ pc' = [pc EXCEPT ![w] = "acquired"] /\ sess \in Seq(Session)
      /\ sess' = [sess EXCEPT ![s].use = @ + 1] /\ s \in DOMAIN sess
      /\ UNCHANGED <<cached, inflight, hostKey, trusted, target, want, mine, on, res, tries, faults>>
  BY <1>0, WorkerFacts DEF AcquireUse, Goto, workerVars, PoolInv, HoldsOK, Holding, IsFor
<1>2. IsFiniteSet(Users(s)) /\ sess[s].use = Cardinality(Users(s)) /\ Cardinality(Users(s)) \in Nat
  <2>1. Users(s) \in SUBSET Worker
    BY DEF Users
  <2>2. QED
    BY <1>1, <2>1, PoolAssumption, FS_Subset, FS_CardinalityType DEF PoolInv, UsesAreCounted, Users, Using
<1>3. Cardinality(Users(s)) + 1 \in Nat /\ sess' = [sess EXCEPT ![s].use = Cardinality(Users(s)) + 1]
  BY <1>1, <1>2
<1>4. /\ sess' \in Seq(Session) /\ Len(sess') = Len(sess) /\ DOMAIN sess' = DOMAIN sess
      /\ KeepsSessions /\ \A x \in DOMAIN sess : sess'[x].link = sess[x].link
      /\ sess'[s].use = Cardinality(Users(s)) + 1
      /\ \A x \in DOMAIN sess : x # s => sess'[x].use = sess[x].use
  BY <1>1, <1>3, UseChange
<1>5. /\ pc'[w] = "acquired" /\ pc' = [pc EXCEPT ![w] = pc'[w]]
      /\ \A x \in Worker : x # w => pc'[x] = pc[x]
      /\ mine' = [mine EXCEPT ![w] = mine'[w]] /\ mine'[w] = mine[w]
      /\ tries' \in [Worker -> 0 .. MaxAttempts - 1]
  BY <1>1 DEF PoolInv, Shape
<1>6. UsesAreCounted'
  <2>1. Users(s)' = Users(s) \cup {w} /\ w \notin Users(s)
    BY <1>0, <1>1, <1>5 DEF Users, Using
  <2>2. Cardinality(Users(s)') = Cardinality(Users(s)) + 1
    BY <1>2, <2>1, FS_AddElement
  <2>3. \A x \in DOMAIN sess : x # s => Users(x)' = Users(x)
    BY <1>0, <1>1, <1>5 DEF Users
  <2>4. \A x \in DOMAIN sess : sess[x].use = Cardinality(Users(x))
    BY DEF PoolInv, UsesAreCounted, Users, Using
  <2>5. \A x \in DOMAIN sess' : sess'[x].use = Cardinality(Users(x)')
    BY <1>4, <2>2, <2>3, <2>4
  <2>6. QED
    BY <2>5 DEF UsesAreCounted, Users, Using
<1>7. QED
  BY <1>1, <1>4, <1>5, <1>6, MoveStep

\* The call begins: nothing changes but the place.
LEMMA BeginCallStep ==
    ASSUME NEW w \in Worker, PoolInv, Begin(w)
    PROVE  PoolInv'
<1>1. /\ pc[w] = "acquired" /\ pc' = [pc EXCEPT ![w] = "call"] /\ sess \in Seq(Session)
      /\ UNCHANGED <<sess, cached, inflight, hostKey, trusted, target, want, mine, on, res, tries, faults>>
  BY WorkerFacts DEF Begin, Goto, workerVars, poolVars
<1>2. /\ pc'[w] = "call" /\ pc' = [pc EXCEPT ![w] = pc'[w]]
      /\ \A x \in Worker : x # w => pc'[x] = pc[x]
      /\ mine' = [mine EXCEPT ![w] = mine'[w]] /\ mine'[w] = mine[w]
      /\ tries' \in [Worker -> 0 .. MaxAttempts - 1]
  BY <1>1 DEF PoolInv, Shape
<1>3. KeepsSessions /\ UsesAreCounted'
  BY <1>1, <1>2, SameSessions, UsesStep DEF PoolInv, Using
<1>4. QED
  BY <1>1, <1>2, <1>3, MoveStep

\* A worker whose call is over is not counted any more.
LEMMA CallStep ==
    ASSUME NEW w \in Worker, PoolInv, Call(w)
    PROVE  PoolInv'
<1>0. PICK s : s = mine[w]
  OBVIOUS
<1>1. /\ pc[w] = "call" /\ pc' = [pc EXCEPT ![w] = pc'[w]] /\ pc'[w] \in {"done", "reset"}
      /\ sess \in Seq(Session) /\ s \in DOMAIN sess /\ sess' = [sess EXCEPT ![s].use = @ - 1]
      /\ mine' = [mine EXCEPT ![w] = mine'[w]]
      /\ mine'[w] = mine[w] \/ (mine'[w] = 0 /\ pc'[w] = "done")
      /\ UNCHANGED <<cached, inflight, hostKey, trusted, target, want, on, res, faults>>
  <2>1. pc \in [Worker -> Place] /\ mine \in [Worker -> 0 .. Len(sess)] /\ sess \in Seq(Session)
    BY DEF PoolInv, Shape
  <2>2. s \in DOMAIN sess
    BY <1>0 DEF Call, PoolInv, HoldsOK, Holding, IsFor
  <2>3. QED
    BY <1>0, <2>1, <2>2 DEF Call, Goto, ReleaseUse
<1>2. tries' \in [Worker -> 0 .. MaxAttempts - 1]
  <2>1. tries \in [Worker -> 0 .. MaxAttempts - 1] /\ MaxAttempts \in Nat \ {0}
    BY PoolAssumption DEF PoolInv, Shape
  <2>2. CASE tries' = [tries EXCEPT ![w] = 0]
    BY <2>1, <2>2
  <2>3. CASE tries' = [tries EXCEPT ![w] = @ + 1] /\ ~LastAttempt(w)
    <3>1. tries[w] + 1 \in 0 .. MaxAttempts - 1
      BY <2>1, <2>3 DEF LastAttempt
    <3>2. QED
      BY <2>1, <2>3, <3>1
  <2>4. QED
    BY <2>2, <2>3 DEF Call
<1>3. w \in Users(s) /\ IsFiniteSet(Users(s)) /\ sess[s].use = Cardinality(Users(s))
  <2>1. Users(s) \in SUBSET Worker
    BY DEF Users
  <2>2. QED
    BY <1>0, <1>1, <2>1, PoolAssumption, FS_Subset DEF PoolInv, UsesAreCounted, Users, Using
<1>4. /\ IsFiniteSet(Users(s) \ {w}) /\ Cardinality(Users(s) \ {w}) = Cardinality(Users(s)) - 1
      /\ Cardinality(Users(s) \ {w}) \in Nat
  BY <1>3, FS_RemoveElement, FS_CardinalityType
<1>5. sess' = [sess EXCEPT ![s].use = Cardinality(Users(s) \ {w})]
  BY <1>1, <1>3, <1>4
<1>6. /\ sess' \in Seq(Session) /\ Len(sess') = Len(sess) /\ DOMAIN sess' = DOMAIN sess
      /\ KeepsSessions /\ \A x \in DOMAIN sess : sess'[x].link = sess[x].link
      /\ sess'[s].use = Cardinality(Users(s) \ {w})
      /\ \A x \in DOMAIN sess : x # s => sess'[x].use = sess[x].use
  BY <1>1, <1>4, <1>5, UseChange
<1>7. \A x \in Worker : x # w => pc'[x] = pc[x] /\ mine'[x] = mine[x]
  BY <1>1 DEF PoolInv, Shape
<1>8. UsesAreCounted'
  <2>1. Users(s)' = Users(s) \ {w}
    BY <1>0, <1>1, <1>7 DEF Users, Using
  <2>2. \A x \in DOMAIN sess : x # s => Users(x)' = Users(x)
    BY <1>0, <1>1, <1>7 DEF Users, Using
  <2>3. \A x \in DOMAIN sess : sess[x].use = Cardinality(Users(x))
    BY DEF PoolInv, UsesAreCounted, Users, Using
  <2>4. \A x \in DOMAIN sess' : sess'[x].use = Cardinality(Users(x)')
    BY <1>6, <2>1, <2>2, <2>3
  <2>5. QED
    BY <2>4 DEF UsesAreCounted, Users, Using
<1>9. QED
  BY <1>1, <1>2, <1>6, <1>8, MoveStep
-----------------------------------------------------------------------------
(* Reconnects. *)

\* A reconnect waits for the attempt that is under way, or begins one.
LEMMA ReconnectWithReasonStep ==
    ASSUME NEW w \in Worker, PoolInv, ReconnectWithReason(w)
    PROVE  PoolInv'
<1>1. /\ pc[w] = "reset"
      /\ UNCHANGED <<sess, cached, hostKey, trusted, target, want, mine, res, tries, faults>>
  BY DEF ReconnectWithReason, CanReset
<1>2. /\ pc' = [pc EXCEPT ![w] = pc'[w]]
      /\ \/ /\ Busy(target[w]) /\ on' = [on EXCEPT ![w] = inflight[target[w]]]
            /\ pc'[w] = "rewait" /\ UNCHANGED inflight
         \/ /\ ~Busy(target[w]) /\ inflight' = [inflight EXCEPT ![target[w]] = w]
            /\ pc'[w] = "redial" /\ UNCHANGED on
  <2>1. pc \in [Worker -> Place]
    BY DEF PoolInv, Shape
  <2>2. QED
    BY <2>1 DEF ReconnectWithReason, CanReset, Goto
<1>3. QED
  BY <1>1, <1>2, BeginStep

\* The session's own key is expected of the host, so that a reconnect leaves
\* it the key it has.
LEMMA SameKey ==
    ASSUME NEW w \in Worker, PoolInv, pc[w] = "redial", hostKeyCallback(target[w], sess[mine[w]].fp)
    PROVE  /\ mine[w] \in DOMAIN sess /\ sess[mine[w]] \in Session
           /\ sess[mine[w]].key = target[w] /\ sess[mine[w]].fp = hostKey[target[w]]
<1>1. mine[w] \in DOMAIN sess /\ sess[mine[w]].key = target[w]
  BY DEF PoolInv, HoldsOK, Holding, IsFor
<1>2. sess[mine[w]] \in Session
  BY <1>1, WorkerFacts
<1>3. sess[mine[w]].fp # 0
  BY <1>2, PoolAssumption DEF Session
<1>4. QED
  BY <1>1, <1>2, <1>3 DEF hostKeyCallback

\* The result of a reconnect: the session is up again, or as it was.
LEMMA reconnectSessionStep ==
    ASSUME NEW w \in Worker, PoolInv, reconnectSession(w)
    PROVE  PoolInv'
<1>1. /\ pc[w] = "redial" /\ Goto(w, "refinish") /\ sess \in Seq(Session)
      /\ target[w] \in Target /\ mine[w] \in 0 .. Len(sess) /\ Len(sess) \in Nat
      /\ UNCHANGED <<cached, inflight, hostKey, target, want, mine, on, tries>>
  BY WorkerFacts DEF reconnectSession
<1>2. /\ pc'[w] = "refinish" /\ \A x \in Worker : x # w => pc'[x] = pc[x]
      /\ pc' \in [Worker -> Place]
  BY <1>1 DEF Goto, PoolInv, Shape, Place
<1>3. /\ DOMAIN sess' = DOMAIN sess /\ sess' \in Seq(Session) /\ Len(sess') = Len(sess) /\ KeepsSessions
      /\ \A x \in DOMAIN sess : /\ sess'[x].use = sess[x].use
                               /\ \/ sess'[x].link = sess[x].link
                                  \/ sess[x].fp = hostKey[sess[x].key]
      /\ DOMAIN trusted' = Target
      /\ res' = [res EXCEPT ![w] = res'[w]] /\ res'[w] \in Result
      /\ res'[w].ok => res'[w].s = mine[w]
      /\ faults' \in 0 .. MaxFaults /\ hostKey \in [Target -> 1 .. faults' + 1]
  <2>0. /\ DOMAIN trusted = Target /\ res \in [Worker -> Result] /\ faults \in 0 .. MaxFaults
        /\ hostKey \in [Target -> 1 .. faults + 1]
    BY DEF PoolInv, Shape
  <2>1. CASE /\ hostKeyCallback(target[w], sess[mine[w]].fp) /\ TrustFingerprintAliases(target[w])
             /\ sess' = [sess EXCEPT ![mine[w]].link = "up", ![mine[w]].fp = hostKey[target[w]]]
             /\ res' = [res EXCEPT ![w] = Ok(mine[w])] /\ UNCHANGED faults
    <3>1. /\ mine[w] \in DOMAIN sess /\ sess[mine[w]] \in Session
          /\ sess[mine[w]].key = target[w] /\ sess[mine[w]].fp = hostKey[target[w]]
      BY <1>1, <2>1, SameKey
    <3> DEFINE up == [sess[mine[w]] EXCEPT !.link = "up"]
    <3>2. /\ up \in Session /\ up.key = sess[mine[w]].key /\ up.fp = sess[mine[w]].fp
          /\ up.use = sess[mine[w]].use
      BY <3>1, LinkChange
    <3>3. [sess[mine[w]] EXCEPT !.link = "up", !.fp = hostKey[target[w]]] = up
      BY <3>1 DEF Session
    <3>4. sess'[mine[w]] = up
      <4>1. sess'[mine[w]] = [sess[mine[w]] EXCEPT !.link = "up", !.fp = hostKey[target[w]]]
        BY <2>1, <3>1
      <4>2. QED
        BY <3>3, <4>1
    <3> HIDE DEF up
    <3>5. /\ DOMAIN sess' = DOMAIN sess /\ sess' = [x \in DOMAIN sess |-> sess'[x]]
          /\ \A x \in DOMAIN sess : x # mine[w] => sess'[x] = sess[x]
      BY <2>1
    <3>6. \A x \in DOMAIN sess : /\ sess'[x] \in Session /\ sess'[x].key = sess[x].key
                                 /\ sess'[x].fp = sess[x].fp /\ sess'[x].use = sess[x].use
      BY <1>1, <3>2, <3>4, <3>5
    <3>7. sess' \in Seq(Session) /\ Len(sess') = Len(sess) /\ KeepsSessions
      BY <1>1, <3>5, <3>6, InPlaceKeeps
    <3>8. \A x \in DOMAIN sess : sess'[x].link = sess[x].link \/ sess[x].fp = hostKey[sess[x].key]
      BY <3>1, <3>5
    <3>9. DOMAIN trusted' = Target
      BY <2>0, <2>1 DEF TrustFingerprintAliases
    <3>10. res' = [res EXCEPT ![w] = res'[w]] /\ res'[w] \in Result /\ res'[w].s = mine[w]
      BY <1>1, <2>0, <2>1 DEF Ok, Result
    <3>11. QED
      BY <2>0, <2>1, <3>5, <3>6, <3>7, <3>8, <3>9, <3>10
  <2>2. CASE /\ UNCHANGED faults \/ Fault
             /\ \E retry \in BOOLEAN : res' = [res EXCEPT ![w] = Err(retry)]
             /\ UNCHANGED <<sess, trusted>>
    <3>1. faults' \in 0 .. MaxFaults /\ hostKey \in [Target -> 1 .. faults' + 1]
      BY <2>0, <2>2, PoolAssumption DEF Fault
    <3>2. res' = [res EXCEPT ![w] = res'[w]] /\ res'[w] \in Result /\ ~res'[w].ok
      BY <2>0, <2>2 DEF Err, Result
    <3>3. QED
      BY <1>1, <2>0, <2>2, <3>1, <3>2, SameSessions
  <2>3. QED
    BY <2>1, <2>2 DEF reconnectSession
<1>4. Shape'
  <2>1. res' \in [Worker -> Result]
    BY <1>3 DEF PoolInv, Shape
  <2>2. QED
    BY <1>1, <1>2, <1>3, <2>1 DEF PoolInv, Shape
<1>5. SessionsOK'
  <2>1. \A s \in DOMAIN sess : sess'[s].link = "up" => sess'[s].fp = hostKey'[sess'[s].key]
    BY <1>1, <1>3 DEF PoolInv, SessionsOK, KeepsSessions
  <2>2. QED
    BY <1>1, <1>3, <2>1, CachedStep DEF PoolInv
<1>6. HoldsOK'
  <2>1. \A x \in Worker : pc'[x] \in Holding => pc[x] \in Holding
    BY <1>1, <1>2 DEF Holding
  <2>2. QED
    BY <1>1, <1>3, <1>4, <2>1, HoldsStep DEF PoolInv, HoldsOK
<1>7. FlightsOK' /\ WaitsOK'
  BY <1>1, FlightsStep DEF PoolInv, Dialling, Attempting, Waiting
<1>8. ResultsOK'
  <2>1. \A x \in Worker : x # w => res'[x] = res[x]
    BY <1>3 DEF PoolInv, Shape
  <2>2. \A x \in Worker : res'[x].ok =>
               /\ pc'[x] \in {"finish", "publish", "woken"} => IsFor(res'[x].s, x)
               /\ pc'[x] \in {"finish", "publish"} => validateSessionTrust(res'[x].s, x)
               /\ pc'[x] = "refinish" => res'[x].s = mine'[x]
    BY <1>1, <1>2, <1>3, <2>1, SMTT(30) DEF PoolInv, ResultsOK, IsFor, validateSessionTrust
  <2>3. QED
    BY <1>3, <1>4, <2>2, ResultsStep DEF PoolInv
<1>9. UsesAreCounted'
  <2>1. pc[w] \notin Using /\ pc'[w] \notin Using
    BY <1>1, <1>2 DEF Using
  <2>2. QED
    BY <1>1, <1>2, <1>3, <2>1, UsesStep DEF PoolInv
<1>10. QED
  BY <1>4, <1>5, <1>6, <1>7, <1>8, <1>9 DEF PoolInv

\* The reconnected session is the cached one, and those who wait go on.
LEMMA finishReconnectAttemptStep ==
    ASSUME NEW w \in Worker, PoolInv, finishReconnectAttempt(w)
    PROVE  PoolInv'
<1>1. /\ pc[w] = "refinish" /\ sess \in Seq(Session) /\ target[w] \in Target
      /\ inflight' = [inflight EXCEPT ![target[w]] = None]
      /\ cached' = [cached EXCEPT ![target[w]] = IF res[w].ok THEN mine[w] ELSE 0]
      /\ UNCHANGED <<sess, hostKey, trusted, target, want, mine, tries, faults>>
  BY WorkerFacts DEF finishReconnectAttempt
<1>2. mine[w] # 0 /\ IsFor(mine[w], w) /\ mine[w] \in 0 .. Len(sess)
  BY <1>1, WorkerFacts DEF PoolInv, HoldsOK, Holding
<1>3. KeepsSessions /\ \A s \in DOMAIN sess : sess'[s].use = sess[s].use
  BY <1>1, SameSessions
<1>4. /\ cached' \in [Target -> 0 .. Len(sess)]
      /\ \A k \in Target : cached'[k] \in {0, cached[k]} \/ (k = target[w] /\ cached'[k] = mine[w])
  <2>1. cached \in [Target -> 0 .. Len(sess)] /\ Len(sess) \in Nat
    BY WorkerFacts DEF PoolInv, Shape
  <2>2. QED
    BY <1>1, <1>2, <2>1
<1>5. SessionsOK'
  <2>1. \A s \in DOMAIN sess : sess'[s].link = "up" => sess'[s].fp = hostKey'[sess'[s].key]
    BY <1>1 DEF PoolInv, SessionsOK
  <2>2. \A k \in Target : cached'[k] # cached[k] /\ cached'[k] # 0 =>
               cached'[k] \in DOMAIN sess /\ sess[cached'[k]].key = k
    BY <1>2, <1>4 DEF IsFor
  <2>3. QED
    BY <1>1, <1>3, <2>1, <2>2, CachedStep DEF PoolInv
<1>6. PICK next \in {"got", "get", "done"} : Deliver(w, res[w], next)
  BY DEF finishReconnectAttempt
<1>7. mine' = [mine EXCEPT ![w] = mine'[w]] /\ mine'[w] = mine[w]
  BY <1>1 DEF PoolInv, Shape
<1>8. QED
  BY <1>1, <1>2, <1>3, <1>4, <1>5, <1>6, <1>7, DeliverStep, ZenonT(40)
-----------------------------------------------------------------------------
(* Removals and faults: no worker moves. *)

\* Sessions that lose their link are still who they were.
LEMMA QuietStep ==
    ASSUME PoolInv, sess' \in Seq(Session), Len(sess') = Len(sess), DOMAIN sess' = DOMAIN sess,
           KeepsSessions, \A s \in DOMAIN sess : sess'[s].use = sess[s].use,
           cached' \in [Target -> 0 .. Len(sess)],
           faults' \in 0 .. MaxFaults, hostKey' \in [Target -> 1 .. faults' + 1], SessionsOK',
           UNCHANGED <<inflight, trusted, pc, target, want, mine, on, res, tries>>
    PROVE  PoolInv'
<1>1. Shape'
  BY DEF PoolInv, Shape
<1>2. HoldsOK'
  BY <1>1, HoldsStep DEF PoolInv, HoldsOK
<1>3. FlightsOK' /\ WaitsOK'
  BY DEF PoolInv, FlightsOK, WaitsOK
<1>4. ResultsOK'
  BY <1>1, ResultsStep DEF PoolInv, ResultsOK
<1>5. UsesAreCounted'
  BY UsesStep DEF PoolInv
<1>6. QED
  BY <1>1, <1>2, <1>3, <1>4, <1>5 DEF PoolInv

\* Remove and Close close sessions, in use or not, and forget them.
LEMMA RemoveStep ==
    ASSUME NEW ks, PoolInv, Remove(ks)
    PROVE  PoolInv'
<1>1. /\ sess \in Seq(Session) /\ cached \in [Target -> 0 .. Len(sess)] /\ Len(sess) \in Nat
      /\ faults \in 0 .. MaxFaults /\ hostKey \in [Target -> 1 .. faults + 1]
      /\ UNCHANGED <<inflight, hostKey, trusted, pc, target, want, mine, on, res, tries, faults>>
  BY DEF Remove, workerVars, PoolInv, Shape
<1>2. PICK gone : sess' = [s \in DOMAIN sess |-> IF s \in gone THEN [sess[s] EXCEPT !.link = "closed"] ELSE sess[s]]
  BY DEF Remove
<1>3. \A s \in DOMAIN sess : /\ sess'[s] \in Session /\ sess'[s].key = sess[s].key
                             /\ sess'[s].fp = sess[s].fp /\ sess'[s].use = sess[s].use
                             /\ sess'[s].link = "up" => sess[s].link = "up"
  <2> SUFFICES ASSUME NEW s \in DOMAIN sess
               PROVE  /\ sess'[s] \in Session /\ sess'[s].key = sess[s].key
                      /\ sess'[s].fp = sess[s].fp /\ sess'[s].use = sess[s].use
                      /\ sess'[s].link = "up" => sess[s].link = "up"
    OBVIOUS
  <2>1. sess[s] \in Session
    BY <1>1
  <2> DEFINE closed == [sess[s] EXCEPT !.link = "closed"]
  <2>2. /\ closed \in Session /\ closed.link = "closed" /\ closed.key = sess[s].key
        /\ closed.fp = sess[s].fp /\ closed.use = sess[s].use
    BY <2>1, LinkChange
  <2>3. sess'[s] = sess[s] \/ sess'[s] = closed
    BY <1>2
  <2> HIDE DEF closed
  <2>4. QED
    BY <2>1, <2>2, <2>3
<1>4. DOMAIN sess' = DOMAIN sess /\ sess' = [s \in DOMAIN sess |-> sess'[s]]
  BY <1>2
<1>5. sess' \in Seq(Session) /\ Len(sess') = Len(sess) /\ KeepsSessions
  BY <1>1, <1>3, <1>4, InPlaceKeeps
<1>6. cached' \in [Target -> 0 .. Len(sess)] /\ \A k \in Target : cached'[k] \in {0, cached[k]}
  BY <1>1 DEF Remove
<1>7. SessionsOK'
  <2>1. \A s \in DOMAIN sess : sess'[s].link = "up" => sess'[s].fp = hostKey'[sess'[s].key]
    BY <1>1, <1>3 DEF PoolInv, SessionsOK
  <2>2. QED
    BY <1>4, <1>5, <1>6, <2>1, CachedStep DEF PoolInv
<1>8. QED
  BY <1>1, <1>3, <1>4, <1>5, <1>6, <1>7, QuietStep

\* A rebuilt host has no session that is up.
LEMMA LoseLinkStep ==
    ASSUME NEW k \in Target, PoolInv, LoseLink(k)
    PROVE  PoolInv'
<1>1. /\ sess \in Seq(Session) /\ cached \in [Target -> 0 .. Len(sess)]
      /\ UNCHANGED <<cached, inflight, trusted, pc, target, want, mine, on, res, tries>>
  BY DEF LoseLink, workerVars, PoolInv, Shape
<1>2. /\ faults' \in 0 .. MaxFaults /\ hostKey' \in [Target -> 1 .. faults' + 1]
      /\ \A x \in Target : x # k => hostKey'[x] = hostKey[x]
  <2>1. faults \in 0 .. MaxFaults /\ hostKey \in [Target -> 1 .. faults + 1] /\ MaxFaults \in Nat
    BY PoolAssumption DEF PoolInv, Shape
  <2>2. faults' = faults + 1 /\ faults' \in 0 .. MaxFaults
    BY <2>1 DEF LoseLink, Fault
  <2>3. CASE hostKey' = hostKey
    BY <2>1, <2>2, <2>3
  <2>4. CASE hostKey' = [hostKey EXCEPT ![k] = @ + 1]
    <3>1. hostKey[k] + 1 \in 1 .. faults' + 1
      BY <2>1, <2>2
    <3>2. QED
      BY <2>1, <2>2, <2>4, <3>1
  <2>5. QED
    BY <2>3, <2>4 DEF LoseLink
<1>3. ASSUME NEW s \in DOMAIN sess
      PROVE  /\ sess'[s] \in Session /\ sess'[s].key = sess[s].key
             /\ sess'[s].fp = sess[s].fp /\ sess'[s].use = sess[s].use
             /\ sess'[s].link = "up" => sess[s].link = "up" /\ sess[s].key # k
  <2>1. sess[s] \in Session
    BY <1>1
  <2> DEFINE l == IF sess[s].link = "up" THEN "down" ELSE sess[s].link
             down == [sess[s] EXCEPT !.link = l]
  <2>2. l \in {"up", "down", "closed"} /\ l # "up"
    BY <2>1 DEF Session
  <2> HIDE DEF l
  <2>3. /\ down \in Session /\ down.link = l /\ down.key = sess[s].key
        /\ down.fp = sess[s].fp /\ down.use = sess[s].use
    BY <2>1, <2>2, LinkChange
  <2>4. sess'[s] = IF sess[s].key = k THEN down ELSE sess[s]
    BY DEF LoseLink, Down, l
  <2> HIDE DEF down
  <2>5. QED
    BY <2>1, <2>2, <2>3, <2>4
<1>4. DOMAIN sess' = DOMAIN sess /\ sess' = [s \in DOMAIN sess |-> sess'[s]]
  BY DEF LoseLink
<1>5. sess' \in Seq(Session) /\ Len(sess') = Len(sess) /\ KeepsSessions
  BY <1>1, <1>3, <1>4, InPlaceKeeps
<1>6. SessionsOK'
  <2>1. ASSUME NEW s \in DOMAIN sess, sess'[s].link = "up" PROVE sess'[s].fp = hostKey'[sess'[s].key]
    <3>1. sess[s].key \in Target /\ sess[s].key # k /\ sess[s].link = "up"
      BY <1>1, <1>3, <2>1 DEF Session
    <3>2. QED
      BY <1>2, <1>3, <3>1 DEF PoolInv, SessionsOK
  <2>2. QED
    BY <1>1, <1>4, <1>5, <2>1, CachedStep DEF PoolInv
<1>7. QED
  BY <1>1, <1>2, <1>3, <1>4, <1>5, <1>6, QuietStep

-----------------------------------------------------------------------------
(* The invariant holds in every behaviour. *)

\* Every step of the pool preserves the invariant.
LEMMA NextPoolInv == PoolInv /\ [Next]_vars => PoolInv'
<1> SUFFICES ASSUME PoolInv, [Next]_vars PROVE PoolInv'
  OBVIOUS
<1>1. CASE UNCHANGED vars
  <2>1. UNCHANGED <<sess, cached, inflight, hostKey, trusted, pc, target, want, mine, on, res, tries, faults>>
    BY <1>1 DEF vars, poolVars, workerVars
  <2>2. SessionsOK'
    BY <2>1 DEF PoolInv, SessionsOK
  <2>3. /\ sess' \in Seq(Session) /\ cached' \in [Target -> 0 .. Len(sess)]
        /\ faults' \in 0 .. MaxFaults /\ hostKey' \in [Target -> 1 .. faults' + 1]
    BY <2>1 DEF PoolInv, Shape
  <2>4. QED
    BY <2>1, <2>2, <2>3, SameSessions, QuietStep
<1>2. ASSUME NEW w \in Worker, Step(w) PROVE PoolInv'
  BY <1>2, GetOrCreateStep, connectSessionStep, finishConnectAttemptStep, PublishStep, WokenStep,
     AcquireUseStep, BeginCallStep, CallStep, ReconnectWithReasonStep, reconnectSessionStep,
     finishReconnectAttemptStep DEF Step
<1>3. ASSUME NEW w \in Worker, Cancel(w) PROVE PoolInv'
  BY <1>3, CancelStep
<1>4. ASSUME NEW ks, Remove(ks) PROVE PoolInv'
  BY <1>4, RemoveStep
<1>5. ASSUME NEW k \in Target, LoseLink(k) PROVE PoolInv'
  BY <1>5, LoseLinkStep
<1>6. QED
  BY <1>1, <1>2, <1>3, <1>4, <1>5 DEF Next, AllDone

\* The invariant that carries the theorems below: sessions keep the host key
\* they were made with, workers hold sessions of their target and of the host
\* they expect, and the pool knows of exactly the attempts that are under way.
THEOREM PoolInvariant == Spec => []PoolInv
BY InitPoolInv, NextPoolInv, PTL DEF Spec

\* Every behaviour of the pool keeps its types: no cached, held or delivered
\* session is one that was never made, and no operation makes more attempts
\* than its policy allows.
THEOREM PoolTypes == Spec => []PoolTypeOK
<1>1. PoolInv => PoolTypeOK
  <2> SUFFICES ASSUME PoolInv PROVE PoolTypeOK
    OBVIOUS
  <2>1. ASSUME NEW s \in DOMAIN sess
        PROVE  /\ sess[s].key \in Target /\ sess[s].link \in {"up", "down", "closed"}
               /\ sess[s].fp \in 1 .. MaxFaults + 1 /\ sess[s].use \in 0 .. Cardinality(Worker)
    <3>1. sess[s] \in Session
      BY DEF PoolInv, Shape
    <3>2. Users(s) \in SUBSET Worker /\ sess[s].use = Cardinality(Users(s))
      BY DEF Users, Using, PoolInv, UsesAreCounted
    <3>3. Cardinality(Users(s)) <= Cardinality(Worker) /\ Cardinality(Worker) \in Nat
      BY <3>2, PoolAssumption, FS_Subset, FS_CardinalityType
    <3>4. QED
      BY <3>1, <3>2, <3>3 DEF Session
  <2>2. \A k \in Target : cached[k] # 0 => cached[k] \in DOMAIN sess /\ sess[cached[k]].key = k
    BY DEF PoolInv, Shape, SessionsOK
  <2>3. hostKey \in [Target -> 1 .. MaxFaults + 1]
    BY PoolAssumption DEF PoolInv, Shape
  <2>4. QED
    BY <2>1, <2>2, <2>3 DEF PoolTypeOK, PoolInv, Shape, Place
<1>2. QED
  BY <1>1, PoolInvariant, PTL

\* For any number of workers and targets, and whatever dials fail, links are
\* lost, waits are cancelled and sessions are removed: two workers never
\* connect to one target at a time, and nobody waits for an attempt that is
\* over (GetOrCreate, ReconnectWithReason).
THEOREM PoolSingleFlight == Spec => []SingleFlight
<1>1. PoolInv => SingleFlight
  <2> SUFFICES ASSUME PoolInv PROVE SingleFlight
    OBVIOUS
  <2>1. ASSUME NEW k \in Target
        PROVE  Cardinality({w \in Worker : target[w] = k /\ pc[w] \in Dialling}) <= 1
    <3>1. {w \in Worker : target[w] = k /\ pc[w] \in Dialling} \in SUBSET {inflight[k]}
      BY DEF PoolInv, FlightsOK
    <3>2. IsFiniteSet({inflight[k]}) /\ Cardinality({inflight[k]}) = 1
      BY FS_Singleton
    <3>3. QED
      BY <3>1, <3>2, FS_Subset
  <2>2. QED
    BY <2>1 DEF SingleFlight, PoolInv, WaitsOK, Dialling, Waiting, Attempting
<1>2. QED
  BY <1>1, PoolInvariant, PTL

\* Likewise, through every reconnect, by whichever worker, and every rebuild
\* of the host: a call runs over a session with the host key its operation
\* expects, and over a link that is up it reaches the host with that key.
THEOREM PoolCallsKnownHost == Spec => []CallsKnownHost
<1>1. PoolInv => CallsKnownHost
  <2> SUFFICES ASSUME PoolInv, NEW w \in Worker, pc[w] = "call"
               PROVE  /\ want[w] \in {0, sess[mine[w]].fp}
                      /\ sess[mine[w]].link = "up" => sess[mine[w]].fp = hostKey[target[w]]
    BY DEF CallsKnownHost
  <2>1. IsFor(mine[w], w) /\ validateSessionTrust(mine[w], w)
    BY DEF PoolInv, HoldsOK, Holding
  <2>2. QED
    BY <2>1 DEF PoolInv, SessionsOK, IsFor, validateSessionTrust
<1>2. QED
  BY <1>1, PoolInvariant, PTL

\* Likewise, however sessions are reconnected, replaced and evicted: the use
\* count of a session is the number of workers that use it, so that the pool
\* never evicts one that is in use (AcquireUse, ReleaseUse).
THEOREM PoolUsesAreCounted == Spec => []UsesAreCounted
<1>1. PoolInv => UsesAreCounted
  BY DEF PoolInv
<1>2. QED
  BY <1>1, PoolInvariant, PTL
=============================================================================
