-------------------------- MODULE OperationProofs --------------------------
(***************************************************************************)
(* TLAPS proofs about OperationJournal and OperationLease, for any number of *)
(* executors, workspaces, requests, handlers, operations and boots.        *)
(* The journal: its locks, and its three kinds of file, which agree because an *)
(* operation has one owner for good, the one it was created with, that all *)
(* copies of its entry, on disk and in the handlers, name.                 *)
(* The providers: they take only steps the journal allows, so that its theorems *)
(* hold under them.  And where no executor is lost in the middle of a mutation, *)
(* a request that was granted its lease has its locks claimed on the host until *)
(* its mutation has ended: mutations that conflict never overlap, and the  *)
(* protocol is the abstract lease service.                                 *)
(***************************************************************************)
EXTENDS OperationLease, TLAPS

-----------------------------------------------------------------------------
(* The journal. *)

\* Where a handler stands while it holds the admission lock.
Critical == {"sweep", "drop", "purge", "lookup", "createIndex", "conflicts",
             "runFile", "runIndex", "claim", "finalFile"}

\* Past the conflict check, with locks still to claim.
Activating == {"runFile", "runIndex", "claim"}

\* A handler works on the copy of an entry.
HasEntry == {"createIndex", "check", "conflicts", "runFile", "runIndex",
             "claim", "finalize", "finalFile"}

\* What a handler knows where it stands.
HandlerOK(x) ==
    /\ x.pc # "idle" => x.pid \in Pid
    /\ x.pc = "find" \/ x.section = "find" => x.req \in Request
    /\ x.pc \in HasEntry \/ x.section = "activate" => x.ent \in Entry /\ x.op \in Op
    /\ x.pc = "read" => x.op \in Op
    /\ x.pc \in {"drop", "purge"} => x.cur \in Op
    /\ x.pc \in {"sweep", "purge"} => x.section \in {"find", "activate"}
    /\ x.pc = "drop" => x.section \in {"find", "activate", "finalize"}
    /\ x.pc = "finalFile" => x.section = "finalize"
    /\ x.pc \in {"lookup", "createIndex"} => x.section = "find"
    /\ x.pc \in {"conflicts", "runFile", "runIndex", "claim"} => x.section = "activate"
    /\ x.pc \in Activating => x.todo \subseteq LockSet(x.ent.req)

\* The admission lock excludes: a handler in a critical section holds it.
Mutex == \A t \in Thread : h[t].pc \in Critical => admission = t

\* Between the conflict check and the last claim, no other operation has a
\* claim against the locks that are being claimed.
Cleared ==
    \A t \in Thread : h[t].pc \in Activating =>
        \A c \in claims : c.op # h[t].op =>
            \A l \in LockSet(h[t].ent.req) : ~locksConflict(c.lock, l)

HandlersOK == \A t \in Thread : HandlerOK(h[t])

\* On the way to creating an entry.
Searching == {"sweep", "drop", "purge", "lookup"}

\* The handler that may create an entry has an operation id left for it.
IdLeft ==
    \A t \in Thread :
        h[t].section = "find" /\ h[t].pc \in Searching => nextOp \in Op

LockInv == TypeOK /\ HandlersOK /\ IdLeft /\ Mutex /\ Cleared /\ ClaimsNeverConflict

\* Conflict does not depend on which of the two locks was there first.
LEMMA ConflictSymmetric ==
    ASSUME NEW a, NEW b, locksConflict(a, b)
    PROVE  locksConflict(b, a)
BY DEF locksConflict

\* The lock set of an entry consists of locks with a key and a mode.
LEMMA LockSetType ==
    ASSUME NEW r \in Request
    PROVE  LockSet(r) \subseteq Lock
<1>1. LockSetOf[r] \subseteq RawLock
  BY JournalAssumption
<1>2. ASSUME NEW l \in RawLock
      PROVE  [key |-> l.key, mode |-> IF l.mode = "" THEN "exclusive" ELSE l.mode] \in Lock
  BY DEF RawLock, Lock, LockMode
<1>3. QED
  BY <1>1, <1>2 DEF LockSet, normalizeLockSet

\* An empty journal satisfies the invariant.
LEMMA InitLockInv == Init => LockInv
<1>1. Idle \in Handler
  BY DEF Idle, Handler
<1>2. ASSUME Init PROVE TypeOK
  BY <1>1, <1>2, JournalAssumption DEF Init, TypeOK, Boot
<1>3. ASSUME Init PROVE HandlersOK
  BY <1>3 DEF Init, HandlersOK, HandlerOK, Idle, HasEntry, Activating
<1>4. ASSUME Init PROVE IdLeft /\ Mutex /\ Cleared /\ ClaimsNeverConflict
  BY <1>4 DEF Init, IdLeft, Mutex, Cleared, ClaimsNeverConflict, Idle, Critical, Activating, Searching
<1>5. QED
  BY <1>2, <1>3, <1>4 DEF LockInv

-----------------------------------------------------------------------------
(* Most steps move one handler and write no claim.  QuietStep says what    *)
(* such a step must respect.                                               *)

\* The admission lock stays where it is, is taken, or is given up by t.
LockMove(t) ==
    \/ admission' = admission /\ (h'[t].pc \in Critical => admission = t)
    \/ admission = None /\ admission' = t
    \/ admission = t /\ admission' = None /\ h'[t].pc \notin Critical

\* A step of handler t that writes no claim and creates no operation, lets
\* t move only to a place it is fit for, and enters the activation only
\* with the claims cleared, preserves the invariant.
LEMMA QuietStep ==
    ASSUME NEW t \in Thread, LockInv,
           h' = [h EXCEPT ![t] = h'[t]], h'[t] \in Handler, HandlerOK(h'[t]),
           UNCHANGED <<boot, procs, nextOp>>,
           files' \in [Op -> Entry \cup {None}],
           index' \in [Op -> Entry \cup {None}],
           claims' \subseteq claims,
           LockMove(t),
           h'[t].section = "find" /\ h'[t].pc \in Searching => nextOp \in Op,
           h'[t].pc \in Activating =>
               \A c \in claims' : c.op # h'[t].op =>
                   \A l \in LockSet(h'[t].ent.req) : ~locksConflict(c.lock, l)
    PROVE  LockInv'
<1> USE DEF LockInv
<1>1. \A u \in Thread : u # t => h'[u] = h[u]
  BY DEF TypeOK
<1>2. TypeOK'
  BY DEF TypeOK, LockMove
<1>3. HandlersOK'
  BY <1>1 DEF HandlersOK
<1>4. IdLeft'
  BY <1>1 DEF IdLeft
<1>5. Mutex'
  BY <1>1, JournalAssumption DEF Mutex, LockMove
<1>6. Cleared'
  BY <1>1 DEF Cleared
<1>7. ClaimsNeverConflict'
  BY DEF ClaimsNeverConflict
<1>8. QED
  BY <1>2, <1>3, <1>4, <1>5, <1>6, <1>7

\* A handler that goes to a place outside the critical sections, taking its
\* pid along, has nothing else to be fit for.
LEMMA AnswerStep ==
    ASSUME NEW t \in Thread, NEW res \in {"granted", "queued", "released", "error"},
           LockInv, h[t].pc # "idle", Answer(t, res)
    PROVE  /\ h' = [h EXCEPT ![t] = h'[t]] /\ h'[t] \in Handler
           /\ HandlerOK(h'[t]) /\ h'[t].pc = "reply" /\ h'[t].section = "none"
<1>1. h[t] \in Handler /\ h[t].pid \in Pid
  BY DEF LockInv, TypeOK, HandlersOK, HandlerOK
<1>2. h'[t] = [Idle EXCEPT !.pc = "reply", !.pid = h[t].pid, !.req = h[t].req,
                           !.op = h[t].op, !.res = res]
  BY DEF Answer, LockInv, TypeOK
<1>3. h' = [h EXCEPT ![t] = h'[t]]
  BY <1>2 DEF Answer
<1>4. h'[t] \in Handler
  BY <1>1, <1>2, ZenonT(40) DEF Idle, Handler
<1>5. h'[t].pc = "reply" /\ h'[t].section = "none" /\ h'[t].pid = h[t].pid
  BY <1>2 DEF Idle
<1>6. HandlerOK(h'[t])
  BY <1>1, <1>5 DEF HandlerOK, HasEntry, Activating
<1>7. QED
  BY <1>3, <1>4, <1>5, <1>6

-----------------------------------------------------------------------------
(* The critical section of findOrCreateOperation. *)

\* A handler starts an Acquire: it holds nothing yet.
LEMMA AcquireStep ==
    ASSUME NEW t \in Thread, NEW p \in Pid, NEW r \in Request, LockInv, Acquire(t, p, r)
    PROVE  LockInv'
<1>1. h[t] \in Handler /\ h[t].pc = "idle" /\ HandlerOK(h[t])
  BY DEF Acquire, LockInv, TypeOK, HandlersOK
<1>2. h'[t] = [h[t] EXCEPT !.pc = "find", !.pid = p, !.req = r] /\ h' = [h EXCEPT ![t] = h'[t]]
  BY DEF Acquire, LockInv, TypeOK
<1>3. h'[t] \in Handler
  BY <1>1, <1>2 DEF Handler
<1>4. HandlerOK(h'[t])
  BY <1>1, <1>2 DEF Handler, HandlerOK, HasEntry, Activating
<1>5. h'[t].pc \notin Critical \cup Activating \cup Searching
  BY <1>1, <1>2 DEF Handler, Critical, Activating, Searching
<1>6. QED
  BY <1>2, <1>3, <1>4, <1>5, QuietStep
     DEF Acquire, host, disk, LockMove, LockInv, TypeOK

\* It takes the admission lock, free until now, with an operation id left.
LEMMA FindLockStep ==
    ASSUME NEW t \in Thread, LockInv, FindLock(t)
    PROVE  LockInv'
<1>1. h[t] \in Handler /\ h[t].pc = "find" /\ HandlerOK(h[t])
  BY DEF FindLock, LockInv, TypeOK, HandlersOK
<1>2. /\ h'[t] = [h[t] EXCEPT !.pc = "sweep", !.section = "find", !.left = readHostOperationIndexes]
      /\ h' = [h EXCEPT ![t] = h'[t]]
  BY DEF FindLock, EnterSection, LockInv, TypeOK
<1>3. h'[t] \in Handler
  BY <1>1, <1>2, ZenonT(40) DEF Handler, readHostOperationIndexes
<1>4. HandlerOK(h'[t])
  BY <1>1, <1>2 DEF Handler, HandlerOK, HasEntry, Activating
<1>5. h'[t].pc \notin Activating
  BY <1>1, <1>2 DEF Handler, Activating
<1>6. nextOp \in Op
  BY DEF FindLock, LockInv, TypeOK, Op
<1>7. QED
  BY <1>2, <1>3, <1>4, <1>5, <1>6, QuietStep
     DEF FindLock, EnterSection, host, disk, LockMove, LockInv, TypeOK

\* The copy of an entry found is an entry, and the admission lock is free again.
LEMMA LookupHitStep ==
    ASSUME NEW t \in Thread, LockInv, LookupHit(t)
    PROVE  LockInv'
<1>1. h[t] \in Handler /\ h[t].pc = "lookup" /\ HandlerOK(h[t]) /\ admission = t
  BY DEF LookupHit, LockInv, TypeOK, HandlersOK, Mutex, Critical
<1>2. PICK o \in Op :
        /\ files[o] # None
        /\ h' = [h EXCEPT ![t].pc = "check", ![t].section = "none",
                          ![t].op = o, ![t].ent = files[o]]
  BY DEF LookupHit, readHostOperationIndexes, readOperation
<1>3. files[o] \in Entry
  BY <1>2 DEF LockInv, TypeOK
<1>4. /\ h'[t] = [h[t] EXCEPT !.pc = "check", !.section = "none", !.op = o, !.ent = files[o]]
      /\ h' = [h EXCEPT ![t] = h'[t]]
  BY <1>2 DEF LockInv, TypeOK
<1>5. h'[t] \in Handler
  BY <1>1, <1>3, <1>4 DEF Handler
<1>6. HandlerOK(h'[t])
  BY <1>1, <1>3, <1>4 DEF Handler, HandlerOK, HasEntry, Activating
<1>7. h'[t].pc \notin Critical \cup Activating /\ h'[t].section = "none"
  BY <1>1, <1>4 DEF Handler, Critical, Activating
<1>8. QED
  BY <1>1, <1>4, <1>5, <1>6, <1>7, QuietStep
     DEF LookupHit, host, disk, LockMove, LockInv, TypeOK

\* A new entry takes a fresh operation id; nobody else is searching meanwhile.
LEMMA CreateFileStep ==
    ASSUME NEW t \in Thread, LockInv, CreateFile(t)
    PROVE  LockInv'
<1> DEFINE e == [req |-> h[t].req, pid |-> h[t].pid, boot |-> boot, status |-> "queued"]
<1>1. /\ h[t] \in Handler /\ h[t].pc = "lookup" /\ h[t].section = "find" /\ HandlerOK(h[t])
      /\ h[t].pid \in Pid /\ h[t].req \in Request /\ nextOp \in Op /\ admission = t
  BY DEF CreateFile, LockInv, TypeOK, HandlersOK, HandlerOK, IdLeft, Mutex, Critical, Searching
<1>2. e \in Entry
  BY <1>1 DEF LockInv, TypeOK, Entry, Status
<1>3. /\ h'[t] = [h[t] EXCEPT !.pc = "createIndex", !.op = nextOp, !.ent = e]
      /\ h' = [h EXCEPT ![t] = h'[t]]
      /\ \A u \in Thread : u # t => h'[u] = h[u]
      /\ files' = [files EXCEPT ![nextOp] = e]
  BY DEF CreateFile, LockInv, TypeOK
<1> HIDE DEF e
<1>4. h'[t] \in Handler
  BY <1>1, <1>2, <1>3 DEF Handler
<1>5. HandlerOK(h'[t])
  BY <1>1, <1>2, <1>3 DEF Handler, HandlerOK, HasEntry, Activating
<1>6. TypeOK'
  <2>1. index' \in [Op -> Entry \cup {None}]
    BY DEF CreateFile, ForgetRequest, LockInv, TypeOK
  <2>2. QED
    BY <1>1, <1>2, <1>3, <1>4, <2>1, JournalAssumption
       DEF CreateFile, LockInv, TypeOK, host, Op
<1>7. HandlersOK'
  BY <1>3, <1>5 DEF LockInv, HandlersOK
\* No other handler is in the find section: t holds the admission lock.
<1>8. IdLeft'
  <2>1. h'[t].pc \notin Searching
    BY <1>1, <1>3 DEF Handler, Searching
  <2>2. ASSUME NEW u \in Thread, u # t PROVE h'[u].pc \notin Searching
    BY <1>1, <1>3, <2>2 DEF LockInv, Mutex, Critical, Searching
  <2>3. QED
    BY <2>1, <2>2 DEF IdLeft
<1>9. Mutex'
  BY <1>1, <1>3 DEF CreateFile, LockInv, Mutex
<1>10. Cleared' /\ ClaimsNeverConflict'
  <2>1. claims' = claims
    BY DEF CreateFile
  <2>2. \A u \in Thread : h'[u].pc \in Activating => u # t /\ h'[u] = h[u]
    BY <1>1, <1>3 DEF Activating, Handler
  <2>3. QED
    BY <2>1, <2>2 DEF LockInv, Cleared, ClaimsNeverConflict
<1>11. QED
  BY <1>6, <1>7, <1>8, <1>9, <1>10 DEF LockInv

\* The index of a new entry is a copy of it.
LEMMA CreateIndexStep ==
    ASSUME NEW t \in Thread, LockInv, CreateIndex(t)
    PROVE  LockInv'
<1>1. /\ h[t] \in Handler /\ h[t].pc = "createIndex" /\ HandlerOK(h[t]) /\ admission = t
      /\ h[t].ent \in Entry /\ h[t].op \in Op
  BY DEF CreateIndex, LockInv, TypeOK, HandlersOK, HandlerOK, HasEntry, Mutex, Critical
<1>2. h'[t] = [h[t] EXCEPT !.pc = "check", !.section = "none"] /\ h' = [h EXCEPT ![t] = h'[t]]
  BY DEF CreateIndex, LockInv, TypeOK
<1>3. h'[t] \in Handler
  BY <1>1, <1>2 DEF Handler
<1>4. HandlerOK(h'[t])
  BY <1>1, <1>2 DEF Handler, HandlerOK, HasEntry, Activating
<1>5. h'[t].pc \notin Critical \cup Activating \cup Searching
  BY <1>1, <1>2 DEF Handler, Critical, Activating, Searching
<1>6. index' \in [Op -> Entry \cup {None}]
  BY <1>1 DEF CreateIndex, LockInv, TypeOK
<1>7. QED
  BY <1>1, <1>2, <1>3, <1>4, <1>5, <1>6, QuietStep
     DEF CreateIndex, host, LockMove, LockInv, TypeOK

-----------------------------------------------------------------------------
(* The sweep. *)

\* Passing over an index changes the handler only.
LEMMA SweepSkipStep ==
    ASSUME NEW t \in Thread, LockInv, SweepSkip(t)
    PROVE  LockInv'
<1>1. /\ h[t] \in Handler /\ h[t].pc = "sweep" /\ HandlerOK(h[t]) /\ admission = t
      /\ h[t].section = "find" => nextOp \in Op
  BY DEF SweepSkip, LockInv, TypeOK, HandlersOK, Mutex, Critical, IdLeft, Searching
<1>2. PICK o \in h[t].left : h' = [h EXCEPT ![t].left = @ \ {o}]
  BY DEF SweepSkip
<1>3. h'[t] = [h[t] EXCEPT !.left = @ \ {o}] /\ h' = [h EXCEPT ![t] = h'[t]]
  BY <1>2 DEF LockInv, TypeOK
<1>4. h'[t] \in Handler
  BY <1>1, <1>3 DEF Handler
<1>5. HandlerOK(h'[t]) /\ h'[t].pc = "sweep" /\ h'[t].section = h[t].section
  BY <1>1, <1>3 DEF Handler, HandlerOK, HasEntry, Activating
<1>6. QED
  BY <1>1, <1>3, <1>4, <1>5, QuietStep
     DEF SweepSkip, host, disk, LockMove, LockInv, TypeOK, Activating

\* Marking an entry abandoned keeps its shape.
LEMMA AbandonFileStep ==
    ASSUME NEW t \in Thread, LockInv, AbandonFile(t)
    PROVE  LockInv'
<1>1. /\ h[t] \in Handler /\ h[t].pc = "sweep" /\ HandlerOK(h[t]) /\ admission = t
      /\ h[t].section = "find" => nextOp \in Op
  BY DEF AbandonFile, LockInv, TypeOK, HandlersOK, Mutex, Critical, IdLeft, Searching
<1>2. PICK o \in h[t].left :
        /\ files' = IF readOperation(h[t].pid, o)
                      THEN [files EXCEPT ![o].status = "abandoned"] ELSE files
        /\ h' = [h EXCEPT ![t].pc = "drop", ![t].cur = o, ![t].left = @ \ {o}]
  BY DEF AbandonFile
<1>3. o \in Op
  BY <1>1, <1>2 DEF Handler
<1>4. /\ h'[t] = [h[t] EXCEPT !.pc = "drop", !.cur = o, !.left = @ \ {o}]
      /\ h' = [h EXCEPT ![t] = h'[t]]
  BY <1>2 DEF LockInv, TypeOK
<1>5. h'[t] \in Handler
  BY <1>1, <1>3, <1>4 DEF Handler
<1>6. HandlerOK(h'[t]) /\ h'[t].pc = "drop" /\ h'[t].section = h[t].section
  BY <1>1, <1>3, <1>4 DEF Handler, HandlerOK, HasEntry, Activating
<1>7. files' \in [Op -> Entry \cup {None}]
  <2>1. CASE readOperation(h[t].pid, o)
    <3>1. files[o] \in Entry
      BY <1>3, <2>1 DEF readOperation, LockInv, TypeOK
    <3>2. [files[o] EXCEPT !.status = "abandoned"] \in Entry
      BY <3>1 DEF Entry, Status
    <3>3. QED
      BY <1>2, <1>3, <2>1, <3>2 DEF LockInv, TypeOK
  <2>2. CASE ~readOperation(h[t].pid, o)
    BY <1>2, <2>2 DEF LockInv, TypeOK
  <2>3. QED
    BY <2>1, <2>2
<1>8. QED
  BY <1>1, <1>4, <1>5, <1>6, <1>7, QuietStep
     DEF AbandonFile, host, LockMove, LockInv, TypeOK, Activating

\* Deleting a claim cannot create a conflict.
LEMMA DropClaimStep ==
    ASSUME NEW t \in Thread, LockInv, DropClaim(t)
    PROVE  LockInv'
<1>1. h[t] \in Handler /\ h[t].pc = "drop" /\ HandlerOK(h[t]) /\ admission = t
  BY DEF DropClaim, LockInv, TypeOK, HandlersOK, Mutex, Critical
<1>2. claims' \subseteq claims /\ h' = h /\ h' = [h EXCEPT ![t] = h'[t]]
  BY DEF DropClaim, LockInv, TypeOK
<1>3. h[t].section = "find" => nextOp \in Op
  BY <1>1 DEF LockInv, IdLeft, Searching
<1>4. QED
  BY <1>1, <1>2, <1>3, QuietStep
     DEF DropClaim, host, LockMove, LockInv, TypeOK, Activating

\* Deleting an index leaves the claims alone.
LEMMA DropIndexStep ==
    ASSUME NEW t \in Thread, LockInv, DropIndex(t)
    PROVE  LockInv'
<1>1. /\ h[t] \in Handler /\ h[t].pc = "drop" /\ HandlerOK(h[t]) /\ admission = t
      /\ h[t].section # "finalize" /\ h[t].cur \in Op
      /\ h[t].section = "find" => nextOp \in Op
  BY DEF DropIndex, LockInv, TypeOK, HandlersOK, HandlerOK, Mutex, Critical, IdLeft, Searching
<1>2. /\ \/ h'[t] = [h[t] EXCEPT !.pc = "sweep", !.cur = 0]
         \/ h'[t] = [h[t] EXCEPT !.pc = "purge"]
      /\ h' = [h EXCEPT ![t] = h'[t]]
  BY DEF DropIndex, LockInv, TypeOK
<1>3. h'[t] \in Handler
  <2>1. CASE h'[t] = [h[t] EXCEPT !.pc = "sweep", !.cur = 0]
    BY <1>1, <2>1 DEF Handler
  <2>2. CASE h'[t] = [h[t] EXCEPT !.pc = "purge"]
    BY <1>1, <2>2 DEF Handler
  <2>3. QED
    BY <1>2, <2>1, <2>2
<1>4. HandlerOK(h'[t]) /\ h'[t].pc \in {"sweep", "purge"} /\ h'[t].section = h[t].section
  BY <1>1, <1>2, ZenonT(40) DEF Handler, HandlerOK, HasEntry, Activating
<1>5. index' \in [Op -> Entry \cup {None}]
  BY <1>1 DEF DropIndex, LockInv, TypeOK
<1>6. QED
  BY <1>1, <1>2, <1>3, <1>4, <1>5, QuietStep
     DEF DropIndex, host, LockMove, LockInv, TypeOK, Activating

\* Deleting an unreadable entry leaves the claims alone.
LEMMA PurgeFileStep ==
    ASSUME NEW t \in Thread, LockInv, PurgeFile(t)
    PROVE  LockInv'
<1>1. /\ h[t] \in Handler /\ h[t].pc = "purge" /\ HandlerOK(h[t]) /\ admission = t
      /\ h[t].section = "find" => nextOp \in Op
  BY DEF PurgeFile, LockInv, TypeOK, HandlersOK, Mutex, Critical, IdLeft, Searching
<1>2. h'[t] = [h[t] EXCEPT !.pc = "sweep", !.cur = 0] /\ h' = [h EXCEPT ![t] = h'[t]]
  BY DEF PurgeFile, LockInv, TypeOK
<1>3. h'[t] \in Handler
  BY <1>1, <1>2 DEF Handler
<1>4. HandlerOK(h'[t]) /\ h'[t].pc = "sweep" /\ h'[t].section = h[t].section
  BY <1>1, <1>2 DEF Handler, HandlerOK, HasEntry, Activating
<1>5. files' \in [Op -> Entry \cup {None}]
  BY <1>1 DEF PurgeFile, LockInv, TypeOK
<1>6. QED
  BY <1>1, <1>2, <1>3, <1>4, <1>5, QuietStep
     DEF PurgeFile, host, LockMove, LockInv, TypeOK, Activating

\* After the sweep the handler goes on in the section it opened.
LEMMA SweepDoneStep ==
    ASSUME NEW t \in Thread, LockInv, SweepDone(t)
    PROVE  LockInv'
<1>1. /\ h[t] \in Handler /\ h[t].pc = "sweep" /\ HandlerOK(h[t]) /\ admission = t
      /\ h[t].section = "find" => nextOp \in Op
  BY DEF SweepDone, LockInv, TypeOK, HandlersOK, Mutex, Critical, IdLeft, Searching
<1>2. /\ h'[t] = [h[t] EXCEPT !.pc = IF h[t].section = "find" THEN "lookup" ELSE "conflicts"]
      /\ h' = [h EXCEPT ![t] = h'[t]]
  BY DEF SweepDone, LockInv, TypeOK
<1>3. h'[t] \in Handler
  BY <1>1, <1>2 DEF Handler
<1>4. HandlerOK(h'[t]) /\ h'[t].pc \in {"lookup", "conflicts"} /\ h'[t].section = h[t].section
  BY <1>1, <1>2 DEF Handler, HandlerOK, HasEntry, Activating
<1>5. QED
  BY <1>1, <1>2, <1>3, <1>4, QuietStep
     DEF SweepDone, host, disk, LockMove, LockInv, TypeOK, Activating

-----------------------------------------------------------------------------
(* Between the sections, and the activation. *)

\* A grant without a further check writes nothing.
LEMMA GrantRunningStep ==
    ASSUME NEW t \in Thread, LockInv, GrantRunning(t)
    PROVE  LockInv'
<1>1. h[t].pc # "idle" /\ Answer(t, "granted")
  BY DEF GrantRunning
<1>2. QED
  BY <1>1, AnswerStep, QuietStep
     DEF GrantRunning, host, disk, LockMove, LockInv, TypeOK, Critical, Activating, Searching

\* An Acquire that gives up goes on to finalize its entry.
LEMMA CancelAcquireStep ==
    ASSUME NEW t \in Thread, LockInv, CancelAcquire(t)
    PROVE  LockInv'
<1>1. h[t] \in Handler /\ h[t].pc = "check" /\ HandlerOK(h[t]) /\ h[t].op \in Op
  BY DEF CancelAcquire, LockInv, TypeOK, HandlersOK, HandlerOK, HasEntry
<1>2. h'[t] = [h[t] EXCEPT !.pc = "read", !.section = "none", !.ent = None] /\ h' = [h EXCEPT ![t] = h'[t]]
  BY DEF CancelAcquire, LockInv, TypeOK
<1>3. h'[t] \in Handler
  BY <1>1, <1>2 DEF Handler
<1>4. HandlerOK(h'[t]) /\ h'[t].pc = "read"
  BY <1>1, <1>2 DEF Handler, HandlerOK, HasEntry, Activating
<1>5. QED
  BY <1>2, <1>3, <1>4, QuietStep
     DEF CancelAcquire, host, disk, LockMove, LockInv, TypeOK, Critical, Activating, Searching

\* The second section takes the admission lock, free until now.
LEMMA ActivateLockStep ==
    ASSUME NEW t \in Thread, LockInv, ActivateLock(t)
    PROVE  LockInv'
<1>1. /\ h[t] \in Handler /\ h[t].pc = "check" /\ HandlerOK(h[t])
      /\ h[t].ent \in Entry /\ h[t].op \in Op
  BY DEF ActivateLock, LockInv, TypeOK, HandlersOK, HandlerOK, HasEntry
<1>2. /\ h'[t] = [h[t] EXCEPT !.pc = "sweep", !.section = "activate", !.left = readHostOperationIndexes]
      /\ h' = [h EXCEPT ![t] = h'[t]]
  BY DEF ActivateLock, EnterSection, LockInv, TypeOK
<1>3. h'[t] \in Handler
  BY <1>1, <1>2 DEF Handler, readHostOperationIndexes
<1>4. HandlerOK(h'[t]) /\ h'[t].pc = "sweep" /\ h'[t].section = "activate"
  BY <1>1, <1>2 DEF Handler, HandlerOK, HasEntry, Activating
<1>5. QED
  BY <1>2, <1>3, <1>4, QuietStep
     DEF ActivateLock, EnterSection, host, disk, LockMove, LockInv, TypeOK, Activating

\* The check is what makes the claims safe: past it, every claim left on disk
\* is the operation's own or compatible with all the locks to be claimed.
LEMMA ConflictsStep ==
    ASSUME NEW t \in Thread, LockInv, CheckConflicts(t)
    PROVE  LockInv'
<1>1. /\ h[t] \in Handler /\ h[t].pc = "conflicts" /\ HandlerOK(h[t]) /\ admission = t
      /\ h[t].ent \in Entry /\ h[t].op \in Op /\ h[t].section = "activate"
  BY DEF CheckConflicts, LockInv, TypeOK, HandlersOK, HandlerOK, HasEntry, Mutex, Critical
<1>2. claims' = liveClaims /\ claims' \subseteq claims
  BY DEF CheckConflicts, liveClaims
<1>3. UNCHANGED <<boot, procs, nextOp, files, index>>
  BY DEF CheckConflicts, host
<1>4. CASE conflictsLocked(t)
  <2>1. admission' = None /\ Answer(t, "queued")
    BY <1>4 DEF CheckConflicts
  <2>2. QED
    BY <1>1, <1>2, <1>3, <2>1, AnswerStep, QuietStep
       DEF LockMove, LockInv, TypeOK, Critical, Activating, Searching
<1>5. CASE ~conflictsLocked(t)
  <2>1. /\ admission' = admission
        /\ h' = [h EXCEPT ![t].pc = "runFile", ![t].ent.status = "running",
                          ![t].todo = LockSet(h[t].ent.req)]
    BY <1>5 DEF CheckConflicts
  <2>2. /\ h'[t] = [h[t] EXCEPT !.pc = "runFile", !.ent = [h[t].ent EXCEPT !.status = "running"],
                                !.todo = LockSet(h[t].ent.req)]
        /\ h' = [h EXCEPT ![t] = h'[t]]
    BY <1>1, <2>1 DEF LockInv, TypeOK, Handler
  <2>3. /\ [h[t].ent EXCEPT !.status = "running"] \in Entry
        /\ [h[t].ent EXCEPT !.status = "running"].req = h[t].ent.req
        /\ LockSet(h[t].ent.req) \subseteq Lock
    BY <1>1, LockSetType DEF Entry, Status
  <2>4. h'[t] \in Handler
    BY <1>1, <2>2, <2>3 DEF Handler
  <2>5. /\ h'[t].pc = "runFile" /\ h'[t].op = h[t].op /\ h'[t].section = "activate"
        /\ h'[t].ent \in Entry /\ h'[t].ent.req = h[t].ent.req
        /\ h'[t].todo = LockSet(h[t].ent.req) /\ h'[t].pid \in Pid
    BY <1>1, <2>2, <2>3 DEF Handler, HandlerOK
  <2>6. HandlerOK(h'[t])
    BY <1>1, <2>5 DEF HandlerOK
  <2>7. \A c \in claims' : c.op # h'[t].op =>
          \A l \in LockSet(h'[t].ent.req) : ~locksConflict(c.lock, l)
    BY <1>2, <1>5, <2>5 DEF conflictsLocked
  <2>8. QED
    BY <1>1, <1>2, <1>3, <2>1, <2>2, <2>4, <2>5, <2>6, <2>7, QuietStep
       DEF LockMove, LockInv, TypeOK
<1>6. QED
  BY <1>4, <1>5

\* Writing the running entry leaves the claims alone.
LEMMA RunFileStep ==
    ASSUME NEW t \in Thread, LockInv, RunFile(t)
    PROVE  LockInv'
<1>1. /\ h[t] \in Handler /\ h[t].pc = "runFile" /\ HandlerOK(h[t]) /\ admission = t
      /\ h[t].ent \in Entry /\ h[t].op \in Op /\ h[t].section = "activate"
  BY DEF RunFile, LockInv, TypeOK, HandlersOK, HandlerOK, HasEntry, Mutex, Critical
<1>2. h'[t] = [h[t] EXCEPT !.pc = "runIndex"] /\ h' = [h EXCEPT ![t] = h'[t]]
  BY DEF RunFile, LockInv, TypeOK
<1>3. h'[t] \in Handler
  BY <1>1, <1>2 DEF Handler
<1>4. /\ HandlerOK(h'[t]) /\ h'[t].pc = "runIndex" /\ h'[t].section = "activate"
      /\ h'[t].op = h[t].op /\ h'[t].ent = h[t].ent
  BY <1>1, <1>2 DEF Handler, HandlerOK, HasEntry, Activating
<1>5. \A c \in claims : c.op # h[t].op =>
        \A l \in LockSet(h[t].ent.req) : ~locksConflict(c.lock, l)
  BY <1>1 DEF LockInv, Cleared, Activating
<1>6. files' \in [Op -> Entry \cup {None}]
  BY <1>1 DEF RunFile, LockInv, TypeOK
<1>7. QED
  BY <1>1, <1>2, <1>3, <1>4, <1>5, <1>6, QuietStep
     DEF RunFile, host, LockMove, LockInv, TypeOK

\* Writing the running index leaves the claims alone.
LEMMA RunIndexStep ==
    ASSUME NEW t \in Thread, LockInv, RunIndex(t)
    PROVE  LockInv'
<1>1. /\ h[t] \in Handler /\ h[t].pc = "runIndex" /\ HandlerOK(h[t]) /\ admission = t
      /\ h[t].ent \in Entry /\ h[t].op \in Op /\ h[t].section = "activate"
  BY DEF RunIndex, LockInv, TypeOK, HandlersOK, HandlerOK, HasEntry, Mutex, Critical
<1>2. h'[t] = [h[t] EXCEPT !.pc = "claim"] /\ h' = [h EXCEPT ![t] = h'[t]]
  BY DEF RunIndex, LockInv, TypeOK
<1>3. h'[t] \in Handler
  BY <1>1, <1>2 DEF Handler
<1>4. /\ HandlerOK(h'[t]) /\ h'[t].pc = "claim" /\ h'[t].section = "activate"
      /\ h'[t].op = h[t].op /\ h'[t].ent = h[t].ent
  BY <1>1, <1>2 DEF Handler, HandlerOK, HasEntry, Activating
<1>5. \A c \in claims : c.op # h[t].op =>
        \A l \in LockSet(h[t].ent.req) : ~locksConflict(c.lock, l)
  BY <1>1 DEF LockInv, Cleared, Activating
<1>6. index' \in [Op -> Entry \cup {None}]
  BY <1>1 DEF RunIndex, LockInv, TypeOK
<1>7. QED
  BY <1>1, <1>2, <1>3, <1>4, <1>5, <1>6, QuietStep
     DEF RunIndex, host, LockMove, LockInv, TypeOK

\* A claim is written only past the conflict check, so it is compatible with
\* the claims of the other operations.
LEMMA WriteClaimStep ==
    ASSUME NEW t \in Thread, LockInv, WriteClaim(t)
    PROVE  LockInv'
<1>1. /\ h[t] \in Handler /\ h[t].pc = "claim" /\ HandlerOK(h[t]) /\ admission = t
      /\ h[t].ent \in Entry /\ h[t].op \in Op /\ h[t].todo \subseteq LockSet(h[t].ent.req)
  BY DEF WriteClaim, LockInv, TypeOK, HandlersOK, HandlerOK, HasEntry, Activating, Mutex, Critical
<1>2. PICK l \in h[t].todo :
        /\ claims' = claims \cup {[op |-> h[t].op, pid |-> h[t].ent.pid,
                                   boot |-> h[t].ent.boot, lock |-> l]}
        /\ h' = [h EXCEPT ![t].todo = @ \ {l}]
  BY DEF WriteClaim
<1> DEFINE d == [op |-> h[t].op, pid |-> h[t].ent.pid, boot |-> h[t].ent.boot, lock |-> l]
<1>3. d \in Claim /\ d.op = h[t].op /\ d.lock = l /\ claims' = claims \cup {d}
  BY <1>1, <1>2 DEF Handler, Entry, Claim
<1> HIDE DEF d
<1>4. /\ h'[t] = [h[t] EXCEPT !.todo = @ \ {l}]
      /\ h' = [h EXCEPT ![t] = h'[t]]
      /\ \A u \in Thread : u # t => h'[u] = h[u]
  BY <1>2 DEF LockInv, TypeOK
<1>5. h'[t] \in Handler
  BY <1>1, <1>4 DEF Handler
<1>6. /\ HandlerOK(h'[t]) /\ h'[t].pc = "claim"
      /\ h'[t].op = h[t].op /\ h'[t].ent = h[t].ent /\ h'[t].section = h[t].section
  BY <1>1, <1>4 DEF Handler, HandlerOK, HasEntry, Activating
<1>7. \A c \in claims : c.op # h[t].op =>
        \A k \in LockSet(h[t].ent.req) : ~locksConflict(c.lock, k)
  BY <1>1 DEF LockInv, Cleared, Activating
<1>8. TypeOK'
  BY <1>3, <1>4, <1>5 DEF WriteClaim, LockInv, TypeOK, host
<1>9. HandlersOK'
  BY <1>4, <1>6 DEF LockInv, HandlersOK
<1>10. IdLeft'
  BY <1>1, <1>4, <1>6 DEF WriteClaim, LockInv, IdLeft, Searching
<1>11. Mutex'
  BY <1>1, <1>4, <1>6 DEF WriteClaim, LockInv, Mutex
<1>12. Cleared'
  <2>1. ASSUME NEW u \in Thread, u # t PROVE h'[u].pc \notin Activating
    BY <1>1, <1>4, <2>1 DEF LockInv, Mutex, Critical, Activating
  <2>2. QED
    BY <1>3, <1>6, <1>7, <2>1 DEF Cleared
<1>13. ClaimsNeverConflict'
  <2>1. \A c \in claims : c.op # d.op => ~locksConflict(c.lock, d.lock)
    BY <1>1, <1>2, <1>3, <1>7
  <2>2. \A c \in claims : c.op # d.op => ~locksConflict(d.lock, c.lock)
    BY <2>1, ConflictSymmetric
  <2>3. QED
    BY <1>3, <2>1, <2>2 DEF LockInv, ClaimsNeverConflict
<1>14. QED
  BY <1>8, <1>9, <1>10, <1>11, <1>12, <1>13 DEF LockInv

\* The grant gives the admission lock back.
LEMMA GrantActivatedStep ==
    ASSUME NEW t \in Thread, LockInv, GrantActivated(t)
    PROVE  LockInv'
<1>1. h[t].pc # "idle" /\ Answer(t, "granted") /\ admission = t
  BY DEF GrantActivated, LockInv, Mutex, Critical
<1>2. QED
  BY <1>1, AnswerStep, QuietStep
     DEF GrantActivated, host, disk, LockMove, LockInv, TypeOK, Critical, Activating, Searching

-----------------------------------------------------------------------------
(* finalize, failures and the life of processes. *)

\* A handler starts a Release: it holds nothing yet.
LEMMA ReleaseStep ==
    ASSUME NEW t \in Thread, NEW p \in Pid, NEW o \in Op, LockInv, Release(t, p, o)
    PROVE  LockInv'
<1>1. h[t] \in Handler /\ h[t].pc = "idle" /\ HandlerOK(h[t])
  BY DEF Release, LockInv, TypeOK, HandlersOK
<1>2. h'[t] = [h[t] EXCEPT !.pc = "read", !.pid = p, !.op = o] /\ h' = [h EXCEPT ![t] = h'[t]]
  BY DEF Release, LockInv, TypeOK
<1>3. h'[t] \in Handler
  BY <1>1, <1>2 DEF Handler
<1>4. HandlerOK(h'[t]) /\ h'[t].pc = "read"
  BY <1>1, <1>2 DEF Handler, HandlerOK, HasEntry, Activating
<1>5. QED
  BY <1>2, <1>3, <1>4, QuietStep
     DEF Release, host, disk, LockMove, LockInv, TypeOK, Critical, Activating, Searching

\* finalize reads the entry outside the admission lock.
LEMMA FinalReadStep ==
    ASSUME NEW t \in Thread, LockInv, FinalRead(t)
    PROVE  LockInv'
<1>1. h[t] \in Handler /\ h[t].pc = "read" /\ HandlerOK(h[t]) /\ h[t].op \in Op
  BY DEF FinalRead, LockInv, TypeOK, HandlersOK, HandlerOK
<1>2. CASE readOperation(h[t].pid, h[t].op)
  <2>1. files[h[t].op] \in Entry
    BY <1>1, <1>2 DEF readOperation, LockInv, TypeOK
  <2>2. /\ h'[t] = [h[t] EXCEPT !.pc = "finalize", !.ent = files[h[t].op]]
        /\ h' = [h EXCEPT ![t] = h'[t]]
    BY <1>2 DEF FinalRead, LockInv, TypeOK
  <2>3. h'[t] \in Handler
    BY <1>1, <2>1, <2>2 DEF Handler
  <2>4. HandlerOK(h'[t]) /\ h'[t].pc = "finalize"
    BY <1>1, <2>1, <2>2 DEF Handler, HandlerOK, HasEntry, Activating
  <2>5. QED
    BY <2>2, <2>3, <2>4, QuietStep
       DEF FinalRead, host, disk, LockMove, LockInv, TypeOK, Critical, Activating, Searching
<1>3. CASE ~readOperation(h[t].pid, h[t].op)
  <2>1. Answer(t, "error") /\ h[t].pc # "idle"
    BY <1>1, <1>3 DEF FinalRead
  <2>2. QED
    BY <2>1, AnswerStep, QuietStep
       DEF FinalRead, host, disk, LockMove, LockInv, TypeOK, Critical, Activating, Searching
<1>4. QED
  BY <1>2, <1>3

\* finalize takes the admission lock, free until now.
LEMMA FinalLockStep ==
    ASSUME NEW t \in Thread, LockInv, FinalLock(t)
    PROVE  LockInv'
<1>1. /\ h[t] \in Handler /\ h[t].pc = "finalize" /\ HandlerOK(h[t])
      /\ h[t].ent \in Entry /\ h[t].op \in Op
  BY DEF FinalLock, LockInv, TypeOK, HandlersOK, HandlerOK, HasEntry
<1>2. /\ h'[t] = [h[t] EXCEPT !.pc = "finalFile", !.section = "finalize", !.left = {}]
      /\ h' = [h EXCEPT ![t] = h'[t]]
  BY DEF FinalLock, EnterSection, LockInv, TypeOK
<1>3. h'[t] \in Handler
  BY <1>1, <1>2 DEF Handler
<1>4. HandlerOK(h'[t]) /\ h'[t].pc = "finalFile"
  BY <1>1, <1>2 DEF Handler, HandlerOK, HasEntry, Activating
<1>5. QED
  BY <1>2, <1>3, <1>4, QuietStep
     DEF FinalLock, EnterSection, host, disk, LockMove, LockInv, TypeOK, Activating, Searching

\* Writing the finished entry leaves the claims alone.
LEMMA FinalFileStep ==
    ASSUME NEW t \in Thread, LockInv, FinalFile(t)
    PROVE  LockInv'
<1>1. /\ h[t] \in Handler /\ h[t].pc = "finalFile" /\ HandlerOK(h[t]) /\ admission = t
      /\ h[t].ent \in Entry /\ h[t].op \in Op /\ h[t].section = "finalize"
  BY DEF FinalFile, LockInv, TypeOK, HandlersOK, HandlerOK, HasEntry, Mutex, Critical
<1>2. h'[t] = [h[t] EXCEPT !.pc = "drop", !.cur = h[t].op] /\ h' = [h EXCEPT ![t] = h'[t]]
  BY DEF FinalFile, LockInv, TypeOK
<1>3. h'[t] \in Handler
  BY <1>1, <1>2 DEF Handler
<1>4. HandlerOK(h'[t]) /\ h'[t].pc = "drop" /\ h'[t].section = "finalize"
  BY <1>1, <1>2 DEF Handler, HandlerOK, HasEntry, Activating
<1>5. files' \in [Op -> Entry \cup {None}]
  <2>1. [h[t].ent EXCEPT !.status = "finished"] \in Entry
    BY <1>1 DEF Entry, Status
  <2>2. QED
    BY <1>1, <2>1 DEF FinalFile, LockInv, TypeOK
<1>6. QED
  BY <1>1, <1>2, <1>3, <1>4, <1>5, QuietStep
     DEF FinalFile, host, LockMove, LockInv, TypeOK, Activating

\* finalize ends with the index gone and the admission lock back.
LEMMA FinalIndexStep ==
    ASSUME NEW t \in Thread, LockInv, FinalIndex(t)
    PROVE  LockInv'
<1>1. h[t].pc # "idle" /\ admission = t /\ h[t].cur \in Op
  BY DEF FinalIndex, LockInv, Mutex, Critical, HandlersOK, HandlerOK
<1>2. PICK res \in {"released", "error"} : Answer(t, res)
  BY DEF FinalIndex, FinalAnswer
<1>3. index' \in [Op -> Entry \cup {None}]
  BY <1>1 DEF FinalIndex, LockInv, TypeOK
<1>4. QED
  BY <1>1, <1>2, <1>3, AnswerStep, QuietStep
     DEF FinalIndex, host, LockMove, LockInv, TypeOK, Critical, Activating, Searching

\* A failed write ends the section; claims already written stay.
LEMMA IOErrorStep ==
    ASSUME NEW t \in Thread, LockInv, IOError(t)
    PROVE  LockInv'
<1>1. /\ h[t] \in Handler /\ HandlerOK(h[t]) /\ h[t].pc # "idle"
      /\ h[t].pc \in Critical /\ admission = t
  BY DEF IOError, LockInv, TypeOK, HandlersOK, Mutex, Critical
<1>2. CASE h[t].section = "activate"
  <2>1. /\ h'[t] = [h[t] EXCEPT !.pc = "read", !.section = "none", !.ent = None,
                                !.left = {}, !.todo = {}]
        /\ h' = [h EXCEPT ![t] = h'[t]]
    BY <1>2 DEF IOError, LockInv, TypeOK
  <2>2. h'[t] \in Handler
    BY <1>1, <2>1, ZenonT(40) DEF Handler
  <2>3. HandlerOK(h'[t]) /\ h'[t].pc = "read"
    BY <1>1, <1>2, <2>1 DEF Handler, HandlerOK, HasEntry, Activating
  <2>4. QED
    BY <1>1, <2>1, <2>2, <2>3, QuietStep
       DEF IOError, host, disk, LockMove, LockInv, TypeOK, Critical, Activating, Searching
<1>3. CASE h[t].section # "activate"
  <2>1. Answer(t, "error")
    BY <1>3 DEF IOError
  <2>2. QED
    BY <1>1, <2>1, AnswerStep, QuietStep
       DEF IOError, host, disk, LockMove, LockInv, TypeOK, Critical, Activating, Searching
<1>4. QED
  BY <1>2, <1>3

\* A free slot is a handler, and it is fit for nothing.
LEMMA IdleOK ==
    /\ Idle \in Handler /\ HandlerOK(Idle)
    /\ Idle.pc \notin Critical \cup Activating \cup Searching
<1>1. Idle \in Handler
  BY DEF Idle, Handler
<1>2. Idle.pc = "idle" /\ Idle.section = "none"
  BY DEF Idle
<1>3. QED
  BY <1>1, <1>2 DEF HandlerOK, HasEntry, Critical, Activating, Searching

\* The slot of an answered call is free.
LEMMA ReplyStep ==
    ASSUME NEW t \in Thread, LockInv, Reply(t)
    PROVE  LockInv'
<1>1. h'[t] = Idle /\ h' = [h EXCEPT ![t] = h'[t]]
  BY DEF Reply, LockInv, TypeOK
<1>2. QED
  BY <1>1, IdleOK, QuietStep DEF Reply, host, disk, LockMove, LockInv, TypeOK

\* A process that starts changes no file.
LEMMA StartStep ==
    ASSUME NEW p \in Pid, NEW w \in Workspace, LockInv, Start(p, w)
    PROVE  LockInv'
<1>1. TypeOK'
  BY DEF Start, disk, LockInv, TypeOK
<1>2. QED
  BY <1>1 DEF Start, disk, LockInv, HandlersOK, IdLeft, Mutex, Cleared, ClaimsNeverConflict

\* Processes die with their handlers and with the lock one of them may hold;
\* nothing on disk changes.
LEMMA KillStep ==
    ASSUME NEW dead \in SUBSET Pid, LockInv, KillHandlers(dead), UNCHANGED disk,
           boot' \in Boot, procs' \in [Pid -> Workspace \cup {None}]
    PROVE  LockInv'
<1>1. \A t \in Thread : h'[t] = Idle \/ (h'[t] = h[t] /\ h[t].pid \notin dead)
  BY DEF KillHandlers
<1>2. h' \in [Thread -> Handler]
  BY IdleOK DEF KillHandlers, LockInv, TypeOK
<1>3. TypeOK'
  BY <1>2 DEF KillHandlers, disk, LockInv, TypeOK
<1>4. HandlersOK'
  BY <1>1, IdleOK DEF LockInv, HandlersOK
<1>5. IdLeft'
  BY <1>1, IdleOK DEF disk, LockInv, IdLeft
<1>6. Mutex'
  BY <1>1, IdleOK DEF KillHandlers, LockInv, Mutex
<1>7. Cleared' /\ ClaimsNeverConflict'
  BY <1>1, IdleOK DEF disk, LockInv, Cleared, ClaimsNeverConflict
<1>8. QED
  BY <1>3, <1>4, <1>5, <1>6, <1>7 DEF LockInv

\* A crash kills the handlers of one process.
LEMMA CrashStep ==
    ASSUME NEW p \in Pid, LockInv, Crash(p)
    PROVE  LockInv'
BY KillStep DEF Crash, LockInv, TypeOK

\* A reboot kills all handlers and changes the boot id.
LEMMA RebootStep ==
    ASSUME LockInv, Reboot
    PROVE  LockInv'
<1>1. boot' \in Boot
  BY JournalAssumption DEF Reboot, LockInv, TypeOK, Boot
<1>2. QED
  BY <1>1, KillStep DEF Reboot, LockInv, TypeOK

-----------------------------------------------------------------------------
(* The invariant holds in every behaviour. *)

\* Every step of the journal preserves the invariant.
LEMMA NextLockInv == LockInv /\ [Next]_vars => LockInv'
<1> SUFFICES ASSUME LockInv, [Next]_vars PROVE LockInv'
  OBVIOUS
<1>1. CASE UNCHANGED vars
  BY <1>1 DEF vars, LockInv, TypeOK, HandlersOK, IdLeft, Mutex, Cleared, ClaimsNeverConflict
<1>2. ASSUME NEW t \in Thread, NEW p \in Pid, NEW r \in Request, Acquire(t, p, r) PROVE LockInv'
  BY <1>2, AcquireStep
<1>3. ASSUME NEW t \in Thread, NEW p \in Pid, NEW o \in Op, Release(t, p, o) PROVE LockInv'
  BY <1>3, ReleaseStep
<1>4. ASSUME NEW t \in Thread, Step(t) PROVE LockInv'
  BY <1>4, FindLockStep, LookupHitStep, CreateFileStep, CreateIndexStep, SweepSkipStep,
     AbandonFileStep, DropClaimStep, DropIndexStep, PurgeFileStep, SweepDoneStep,
     GrantRunningStep, ActivateLockStep, ConflictsStep, RunFileStep, RunIndexStep,
     WriteClaimStep, GrantActivatedStep, FinalReadStep, FinalLockStep, FinalFileStep,
     FinalIndexStep DEF Step
<1>5. ASSUME NEW t \in Thread, CancelAcquire(t) \/ IOError(t) \/ Reply(t) PROVE LockInv'
  BY <1>5, CancelAcquireStep, IOErrorStep, ReplyStep
<1>6. ASSUME NEW p \in Pid, NEW w \in Workspace, Start(p, w) PROVE LockInv'
  BY <1>6, StartStep
<1>7. ASSUME NEW p \in Pid, Crash(p) PROVE LockInv'
  BY <1>7, CrashStep
<1>8. CASE Reboot
  BY <1>8, RebootStep
<1>9. QED
  BY <1>1, <1>2, <1>3, <1>4, <1>5, <1>6, <1>7, <1>8 DEF Next

\* The invariant that carries the theorems below: the admission lock excludes,
\* and between the conflict check and the last claim nothing of another
\* operation conflicts with the locks being claimed (tryActivate).
THEOREM JournalLockInv == Spec => []LockInv
BY InitLockInv, NextLockInv, PTL DEF Spec

\* Every behaviour of the journal keeps its types: no handler ever works on
\* an entry it did not read or on an operation id it was not given.
THEOREM JournalTypeOK == Spec => []TypeOK
<1>1. LockInv => TypeOK
  BY DEF LockInv
<1>2. QED
  BY <1>1, JournalLockInv, PTL

\* For any executors, workspaces and lock sets, and whatever crashes, write
\* errors, reboots and reused pids occur: conflicting claims are never on the
\* host's disk together.
THEOREM JournalClaimsNeverConflict == Spec => []ClaimsNeverConflict
<1>1. LockInv => ClaimsNeverConflict
  BY DEF LockInv
<1>2. QED
  BY <1>1, JournalLockInv, PTL

-----------------------------------------------------------------------------
(* The owner of an operation. *)

\* The owner of an operation: the request it serves, the process that created
\* its entry and the boot the process ran in.
Owner == [req : Request, pid : Pid, boot : Boot]
Owners == [Op -> Owner \cup {None}]

\* A copy of an entry names owner w.
Names(e, w) == e.req = w.req /\ e.pid = w.pid /\ e.boot = w.boot

\* The handler works on the copy of an entry.
Knows(x) == x.pc \in HasEntry \/ x.section = "activate"

\* Everything on disk agrees on the owner of an operation, an index has its
\* file, a claim its index, and ids from nextOp on are unused.
DiskOwned(own) ==
    /\ \A o \in Op : files[o] # None => o < nextOp /\ Names(files[o], own[o])
    /\ \A o \in Op : index[o] # None => files[o] # None /\ Names(index[o], own[o])
    /\ \A c \in claims : /\ index[c.op] # None
                         /\ c.pid = own[c.op].pid
                         /\ c.boot = own[c.op].boot

\* A free slot knows nothing.  The copy a handler x works on agrees too, x
\* serves the workspace of its request, and the files it relies on under the
\* admission lock are there.
HandlerOwned(x, own) ==
    /\ x.pc = "idle" => x.section = "none"
    /\ Knows(x) => x.op < nextOp /\ Names(x.ent, own[x.op])
    /\ x.pc = "find" \/ (x.section = "find" /\ x.pc \in Searching)
         => procs[x.pid] = WorkspaceOf[x.req]
    /\ x.pc \in {"createIndex", "runIndex"} => files[x.op] # None
    /\ x.pc = "claim" => index[x.op] # None
    /\ x.pc = "purge" => index[x.cur] = None

OwnedBy(own) == DiskOwned(own) /\ \A t \in Thread : HandlerOwned(h[t], own)

OwnerInv == \E own \in Owners : OwnedBy(own)

\* An empty journal has no owners to disagree on.
LEMMA InitOwner == Init => \A own : OwnedBy(own)
<1> SUFFICES ASSUME Init, NEW own PROVE OwnedBy(own)
  OBVIOUS
<1>1. DiskOwned(own)
  BY DEF Init, DiskOwned
<1>2. \A t \in Thread : h[t].pc = "idle" /\ h[t].section = "none"
  BY DEF Init, Idle
<1>3. QED
  BY <1>1, <1>2 DEF OwnedBy, HandlerOwned, Knows, HasEntry, Searching

\* A step of one handler need only be looked at for the disk and for that
\* handler: it changes the disk only under the admission lock, and what the
\* others rely on they rely on under the same lock.
LEMMA OwnerStep ==
    ASSUME NEW t \in Thread, NEW own, LockInv, OwnedBy(own),
           \A u \in Thread : u # t => h'[u] = h[u],
           UNCHANGED <<procs, nextOp>>,
           h[t].pc \in Critical \/ UNCHANGED <<files, index, claims>>,
           DiskOwned(own)', HandlerOwned(h[t], own)'
    PROVE  OwnedBy(own)'
<1>1. ASSUME NEW u \in Thread, u # t PROVE HandlerOwned(h[u], own)'
  <2>1. HandlerOwned(h[u], own) /\ h'[u] = h[u]
    BY <1>1 DEF OwnedBy
  <2>2. CASE UNCHANGED <<files, index, claims>>
    BY <2>1, <2>2 DEF HandlerOwned
  <2>3. CASE h[t].pc \in Critical
    <3>1. h[u].pc \notin {"createIndex", "runIndex", "claim", "purge"}
      BY <1>1, <2>3 DEF LockInv, Mutex, Critical
    <3>2. QED
      BY <2>1, <3>1 DEF HandlerOwned
  <2>4. QED
    BY <2>2, <2>3
<1>2. QED
  BY <1>1 DEF OwnedBy

\* A handler that answers knows no entry any more.
LEMMA OwnerAnswer ==
    ASSUME NEW t \in Thread, NEW own, NEW res, h \in [Thread -> Handler], Answer(t, res)
    PROVE  HandlerOwned(h[t], own)' /\ \A u \in Thread : u # t => h'[u] = h[u]
<1>1. h'[t].pc = "reply" /\ h'[t].section = "none"
  BY DEF Answer, Idle
<1>2. QED
  BY <1>1 DEF Answer, HandlerOwned, Knows, HasEntry, Searching

\* What the invariants say of a handler that takes a step.
LEMMA OwnerFacts ==
    ASSUME NEW t \in Thread, NEW own, LockInv, OwnedBy(own)
    PROVE  /\ h[t] \in Handler /\ HandlerOK(h[t]) /\ HandlerOwned(h[t], own)
           /\ h \in [Thread -> Handler] /\ DiskOwned(own)
BY DEF LockInv, TypeOK, HandlersOK, OwnedBy

-----------------------------------------------------------------------------
(* Steps that change no file. *)

\* The handler's own moves: what it knows it keeps or forgets.
LEMMA OwnerMoves ==
    ASSUME NEW t \in Thread, NEW own, LockInv, OwnedBy(own),
           FindLock(t) \/ SweepSkip(t) \/ SweepDone(t) \/ GrantRunning(t)
             \/ ActivateLock(t) \/ GrantActivated(t) \/ FinalLock(t)
             \/ CancelAcquire(t) \/ IOError(t) \/ Reply(t)
    PROVE  OwnedBy(own)'
<1>0. /\ h[t] \in Handler /\ HandlerOK(h[t]) /\ HandlerOwned(h[t], own)
      /\ h \in [Thread -> Handler] /\ DiskOwned(own)
  BY OwnerFacts
<1>1. UNCHANGED <<procs, nextOp, files, index, claims>>
  BY DEF FindLock, SweepSkip, SweepDone, GrantRunning, ActivateLock, GrantActivated,
         FinalLock, CancelAcquire, IOError, Reply, host, disk
<1>2. DiskOwned(own)'
  BY <1>0, <1>1 DEF DiskOwned
<1>3. SUFFICES HandlerOwned(h[t], own)' /\ \A u \in Thread : u # t => h'[u] = h[u]
  BY <1>1, <1>2, OwnerStep
<1>4. CASE FindLock(t)
  <2>1. /\ h'[t] = [h[t] EXCEPT !.pc = "sweep", !.section = "find", !.left = readHostOperationIndexes]
        /\ \A u \in Thread : u # t => h'[u] = h[u]
    BY <1>0, <1>4 DEF FindLock, EnterSection
  <2>2. QED
    BY <1>0, <1>1, <1>4, <2>1 DEF FindLock, Handler, HandlerOwned, Knows, HasEntry, Searching
<1>5. CASE SweepSkip(t)
  <2>1. /\ \E o \in h[t].left : h'[t] = [h[t] EXCEPT !.left = @ \ {o}]
        /\ \A u \in Thread : u # t => h'[u] = h[u]
    BY <1>0, <1>5 DEF SweepSkip
  <2>2. QED
    BY <1>0, <1>1, <2>1 DEF Handler, HandlerOwned, Knows
<1>6. CASE SweepDone(t)
  <2>1. /\ h'[t] = [h[t] EXCEPT !.pc = IF h[t].section = "find" THEN "lookup" ELSE "conflicts"]
        /\ \A u \in Thread : u # t => h'[u] = h[u]
        /\ h[t].pc = "sweep" /\ h[t].section \in {"find", "activate"}
    BY <1>0, <1>6 DEF SweepDone, HandlerOK
  <2>2. QED
    BY <1>0, <1>1, <2>1 DEF Handler, HandlerOwned, Knows, HasEntry, Searching
<1>7. CASE ActivateLock(t)
  <2>1. /\ h'[t] = [h[t] EXCEPT !.pc = "sweep", !.section = "activate", !.left = readHostOperationIndexes]
        /\ \A u \in Thread : u # t => h'[u] = h[u]
    BY <1>0, <1>7 DEF ActivateLock, EnterSection
  <2>2. QED
    BY <1>0, <1>1, <1>7, <2>1 DEF ActivateLock, Handler, HandlerOwned, Knows, HasEntry, Searching
<1>8. CASE FinalLock(t)
  <2>1. /\ h'[t] = [h[t] EXCEPT !.pc = "finalFile", !.section = "finalize", !.left = {}]
        /\ \A u \in Thread : u # t => h'[u] = h[u]
    BY <1>0, <1>8 DEF FinalLock, EnterSection
  <2>2. QED
    BY <1>0, <1>1, <1>8, <2>1 DEF FinalLock, Handler, HandlerOwned, Knows, HasEntry, Searching
<1>9. CASE CancelAcquire(t)
  <2>1. /\ h'[t] = [h[t] EXCEPT !.pc = "read", !.section = "none", !.ent = None]
        /\ \A u \in Thread : u # t => h'[u] = h[u]
    BY <1>0, <1>9 DEF CancelAcquire
  <2>2. QED
    BY <1>0, <1>1, <2>1 DEF Handler, HandlerOwned, Knows, HasEntry, Searching
<1>10. CASE IOError(t) /\ h[t].section = "activate"
  <2>1. /\ h'[t] = [h[t] EXCEPT !.pc = "read", !.section = "none", !.ent = None,
                                !.left = {}, !.todo = {}]
        /\ \A u \in Thread : u # t => h'[u] = h[u]
    BY <1>0, <1>10 DEF IOError
  <2>2. QED
    BY <1>0, <1>1, <2>1 DEF Handler, HandlerOwned, Knows, HasEntry, Searching
<1>11. CASE Reply(t)
  <2>1. h'[t].pc = "idle" /\ h'[t].section = "none" /\ \A u \in Thread : u # t => h'[u] = h[u]
    BY <1>0, <1>11 DEF Reply, Idle
  <2>2. QED
    BY <2>1 DEF HandlerOwned, Knows, HasEntry, Searching
<1>12. CASE GrantRunning(t) \/ GrantActivated(t) \/ (IOError(t) /\ h[t].section # "activate")
  <2>1. PICK res : Answer(t, res)
    BY <1>12 DEF GrantRunning, GrantActivated, IOError
  <2>2. QED
    BY <1>0, <2>1, OwnerAnswer
<1>13. QED
  BY <1>4, <1>5, <1>6, <1>7, <1>8, <1>9, <1>10, <1>11, <1>12

\* A call starts with no entry, for a process of the request's workspace.
LEMMA OwnerCalls ==
    ASSUME NEW t \in Thread, NEW own, LockInv, OwnedBy(own), NEW p \in Pid,
           (\E r \in Request : Acquire(t, p, r)) \/ (\E o \in Op : Release(t, p, o))
    PROVE  OwnedBy(own)'
<1>0. /\ h[t] \in Handler /\ HandlerOK(h[t]) /\ HandlerOwned(h[t], own)
      /\ h \in [Thread -> Handler] /\ DiskOwned(own)
  BY OwnerFacts
<1>1. UNCHANGED <<procs, nextOp, files, index, claims>>
  BY DEF Acquire, Release, host, disk
<1>2. DiskOwned(own)'
  BY <1>0, <1>1 DEF DiskOwned
<1>3. SUFFICES HandlerOwned(h[t], own)' /\ \A u \in Thread : u # t => h'[u] = h[u]
  BY <1>1, <1>2, OwnerStep
<1>4. ASSUME NEW r \in Request, Acquire(t, p, r)
      PROVE  HandlerOwned(h[t], own)' /\ \A u \in Thread : u # t => h'[u] = h[u]
  <2>1. /\ h'[t] = [h[t] EXCEPT !.pc = "find", !.pid = p, !.req = r]
        /\ \A u \in Thread : u # t => h'[u] = h[u]
    BY <1>0, <1>4 DEF Acquire
  <2>2. QED
    BY <1>0, <1>1, <1>4, <2>1 DEF Acquire, Handler, HandlerOwned, Knows, HasEntry, Searching
<1>5. ASSUME NEW o \in Op, Release(t, p, o)
      PROVE  HandlerOwned(h[t], own)' /\ \A u \in Thread : u # t => h'[u] = h[u]
  <2>1. /\ h'[t] = [h[t] EXCEPT !.pc = "read", !.pid = p, !.op = o]
        /\ \A u \in Thread : u # t => h'[u] = h[u]
    BY <1>0, <1>5 DEF Release
  <2>2. QED
    BY <1>0, <1>1, <1>5, <2>1 DEF Release, Handler, HandlerOwned, Knows, HasEntry, Searching
<1>6. QED
  BY <1>4, <1>5

-----------------------------------------------------------------------------
(* Steps that read or write files. *)

\* The copies that Acquire and Release read are those of the file.
LEMMA OwnerReads ==
    ASSUME NEW t \in Thread, NEW own, LockInv, OwnedBy(own), LookupHit(t) \/ FinalRead(t)
    PROVE  OwnedBy(own)'
<1>0. /\ h[t] \in Handler /\ HandlerOK(h[t]) /\ HandlerOwned(h[t], own)
      /\ h \in [Thread -> Handler] /\ DiskOwned(own)
  BY OwnerFacts
<1>1. UNCHANGED <<procs, nextOp, files, index, claims>>
  BY DEF LookupHit, FinalRead, host, disk
<1>2. DiskOwned(own)'
  BY <1>0, <1>1 DEF DiskOwned
<1>3. SUFFICES HandlerOwned(h[t], own)' /\ \A u \in Thread : u # t => h'[u] = h[u]
  BY <1>1, <1>2, OwnerStep
<1>4. CASE LookupHit(t)
  <2>1. PICK o \in Op : /\ files[o] # None
                        /\ h' = [h EXCEPT ![t].pc = "check", ![t].section = "none",
                                          ![t].op = o, ![t].ent = files[o]]
    BY <1>4 DEF LookupHit, readHostOperationIndexes, readOperation
  <2>2. h'[t] = [h[t] EXCEPT !.pc = "check", !.section = "none", !.op = o, !.ent = files[o]]
    BY <1>0, <2>1
  <2>3. o < nextOp /\ Names(files[o], own[o])
    BY <1>0, <2>1 DEF DiskOwned
  <2>4. QED
    BY <1>0, <1>1, <2>1, <2>2, <2>3 DEF Handler, HandlerOwned, Searching
<1>5. CASE FinalRead(t) /\ readOperation(h[t].pid, h[t].op)
  <2>1. /\ h' = [h EXCEPT ![t].pc = "finalize", ![t].ent = files[h[t].op]]
        /\ h'[t] = [h[t] EXCEPT !.pc = "finalize", !.ent = files[h[t].op]]
        /\ h[t].op \in Op
    BY <1>0, <1>5 DEF FinalRead, HandlerOK
  <2>2. h[t].op < nextOp /\ Names(files[h[t].op], own[h[t].op])
    BY <1>0, <1>5, <2>1 DEF DiskOwned, readOperation
  <2>3. QED
    BY <1>0, <1>1, <2>1, <2>2 DEF Handler, HandlerOwned, Searching
<1>6. CASE FinalRead(t) /\ ~readOperation(h[t].pid, h[t].op)
  BY <1>0, <1>6, OwnerAnswer DEF FinalRead
<1>7. QED
  BY <1>4, <1>5, <1>6

\* The lookup that precedes a creation forgets no index: every index of the
\* request has an entry, and the process that serves the request can read it.
LEMMA NothingForgotten ==
    ASSUME NEW t \in Thread, NEW own, LockInv, OwnedBy(own), CreateFile(t)
    PROVE  index' = index
<1>0. /\ h[t] \in Handler /\ HandlerOK(h[t]) /\ HandlerOwned(h[t], own)
      /\ h \in [Thread -> Handler] /\ DiskOwned(own)
  BY OwnerFacts
<1>1. h[t].pc = "lookup" /\ procs[h[t].pid] = WorkspaceOf[h[t].req]
  BY <1>0 DEF CreateFile, HandlerOK, HandlerOwned, Searching
<1>2. ASSUME NEW o \in Op, index[o] # None, index[o].req = h[t].req PROVE FALSE
  <2>1. files[o] # None /\ files[o].req = h[t].req
    BY <1>0, <1>2 DEF DiskOwned, Names
  <2>2. readOperation(h[t].pid, o)
    BY <1>1, <2>1 DEF readOperation, unmarshalEncryptedJSON
  <2>3. QED
    BY <1>2, <2>2 DEF CreateFile, readHostOperationIndexes
<1>3. ForgetRequest(h[t].req) = [o \in Op |-> index[o]]
  BY <1>2 DEF ForgetRequest, readHostOperationIndexes
<1>4. QED
  BY <1>3 DEF CreateFile, LockInv, TypeOK

\* A new operation gets its owner; every older one keeps its own.
LEMMA OwnerCreateFile ==
    ASSUME NEW t \in Thread, NEW own \in Owners, LockInv, OwnedBy(own), CreateFile(t)
    PROVE  \E new \in Owners :
               /\ OwnedBy(new)'
               /\ new[nextOp] = [req |-> h[t].req, pid |-> h[t].pid, boot |-> boot]
               /\ \A o \in Op : o # nextOp => new[o] = own[o]
<1>0. /\ h[t] \in Handler /\ HandlerOK(h[t]) /\ HandlerOwned(h[t], own)
      /\ h \in [Thread -> Handler] /\ DiskOwned(own)
  BY OwnerFacts
<1> DEFINE e == [req |-> h[t].req, pid |-> h[t].pid, boot |-> boot, status |-> "queued"]
           w == [req |-> h[t].req, pid |-> h[t].pid, boot |-> boot]
<1>1. PICK new : new = [own EXCEPT ![nextOp] = w]
  OBVIOUS
<1>2. /\ h[t].pc = "lookup" /\ h[t].section = "find" /\ h[t].pid \in Pid
      /\ h[t].req \in Request /\ nextOp \in Op /\ admission = t
  BY <1>0 DEF CreateFile, HandlerOK, LockInv, IdLeft, Searching, Mutex, Critical
<1>3. new \in Owners /\ new[nextOp] = w /\ \A o \in Op : o # nextOp => new[o] = own[o]
  <2>1. w \in Owner
    BY <1>2 DEF LockInv, TypeOK, Owner
  <2>2. QED
    BY <1>1, <1>2, <2>1 DEF Owners
<1>4. /\ Names(e, w) /\ nextOp < nextOp' /\ nextOp \in Nat
      /\ \A o \in Op : o < nextOp => o # nextOp /\ o < nextOp'
  BY <1>2 DEF CreateFile, Names, Op
<1>5. /\ files' = [files EXCEPT ![nextOp] = e] /\ index' = index
      /\ claims' = claims /\ procs' = procs
      /\ h'[t] = [h[t] EXCEPT !.pc = "createIndex", !.op = nextOp, !.ent = e]
      /\ \A u \in Thread : u # t => h'[u] = h[u]
  BY <1>0, NothingForgotten DEF CreateFile, host
<1>6. e # None
  <2>1. e \in Entry
    BY <1>2 DEF LockInv, TypeOK, Entry, Status
  <2>2. QED
    BY <2>1, NoneAssumption
<1> HIDE DEF e, w
<1>7. files[nextOp] = None /\ index[nextOp] = None
  BY <1>0, <1>2, <1>4 DEF DiskOwned
<1>8. DiskOwned(new)'
  <2>1. files' \in [Op -> Entry \cup {None}] /\ claims \subseteq Claim
    BY <1>2, <1>5, CreateFileStep DEF LockInv, TypeOK
  <2>2. ASSUME NEW o \in Op, files'[o] # None PROVE o < nextOp' /\ Names(files'[o], new[o])
    <3>1. CASE o = nextOp
      BY <1>2, <1>3, <1>4, <1>5, <3>1 DEF LockInv, TypeOK
    <3>2. CASE o # nextOp
      <4>1. files'[o] = files[o]
        BY <1>5, <3>2 DEF LockInv, TypeOK
      <4>2. QED
        BY <1>0, <1>3, <1>4, <2>2, <3>2, <4>1 DEF DiskOwned
    <3>3. QED
      BY <3>1, <3>2
  <2>3. ASSUME NEW o \in Op, index'[o] # None PROVE files'[o] # None /\ Names(index'[o], new[o])
    <3>1. index[o] # None /\ o # nextOp /\ files'[o] = files[o]
      BY <1>5, <1>7, <2>3 DEF LockInv, TypeOK
    <3>2. QED
      BY <1>0, <1>3, <1>5, <3>1 DEF DiskOwned
  <2>4. ASSUME NEW c \in claims
        PROVE  index'[c.op] # None /\ c.pid = new[c.op].pid /\ c.boot = new[c.op].boot
    <3>1. c.op \in Op /\ index[c.op] # None
      BY <1>0, <2>1 DEF DiskOwned, Claim
    <3>2. QED
      BY <1>0, <1>3, <1>5, <1>7, <3>1 DEF DiskOwned
  <2>5. QED
    BY <1>5, <2>2, <2>3, <2>4 DEF DiskOwned
<1>9. HandlerOwned(h[t], new)'
  BY <1>0, <1>2, <1>3, <1>4, <1>5, <1>6 DEF Handler, HandlerOwned, Searching, LockInv, TypeOK
<1>10. ASSUME NEW u \in Thread, u # t PROVE HandlerOwned(h[u], new)'
  <2>1. h'[u] = h[u] /\ HandlerOwned(h[u], own) /\ h[u] \in Handler /\ HandlerOK(h[u])
    BY <1>5, <1>10, OwnerFacts
  <2>2. h[u].pc \notin {"createIndex", "runIndex", "claim", "purge"}
    BY <1>2, <1>10 DEF LockInv, Mutex, Critical
  <2>3. Knows(h[u]) => h[u].op \in Op
    BY <2>1 DEF HandlerOK, Knows
  <2>4. Knows(h[u]) => h[u].op < nextOp' /\ Names(h[u].ent, new[h[u].op])
    BY <1>3, <1>4, <2>1, <2>3 DEF HandlerOwned
  <2>5. QED
    BY <1>5, <2>1, <2>2, <2>4 DEF HandlerOwned
<1>11. QED
  BY <1>3, <1>8, <1>9, <1>10 DEF OwnedBy, w
\* Writing the entry of an operation keeps its owner: what is written is the
\* file itself or a copy that names the same owner.
LEMMA OwnerWritesFile ==
    ASSUME NEW t \in Thread, NEW own, LockInv, OwnedBy(own),
           NEW o \in Op, NEW e \in Entry, o < nextOp, Names(e, own[o]),
           files' = [files EXCEPT ![o] = e], UNCHANGED <<nextOp, index, claims>>
    PROVE  DiskOwned(own)'
<1>1. DiskOwned(own) /\ files \in [Op -> Entry \cup {None}] /\ e # None
  BY NoneAssumption DEF LockInv, TypeOK, OwnedBy
<1>2. files'[o] = e /\ \A x \in Op : x # o => files'[x] = files[x]
  BY <1>1
<1>3. QED
  BY <1>1, <1>2 DEF DiskOwned

\* A sweep marks a stale entry; activation and finalize write their copy back.
LEMMA OwnerFileSteps ==
    ASSUME NEW t \in Thread, NEW own, LockInv, OwnedBy(own),
           AbandonFile(t) \/ RunFile(t) \/ FinalFile(t)
    PROVE  OwnedBy(own)'
<1>0. /\ h[t] \in Handler /\ HandlerOK(h[t]) /\ HandlerOwned(h[t], own)
      /\ h \in [Thread -> Handler] /\ DiskOwned(own)
  BY OwnerFacts
<1>1. UNCHANGED <<procs, nextOp, index, claims>> /\ h[t].pc \in Critical
  BY DEF AbandonFile, RunFile, FinalFile, host, Critical
<1>2. CASE AbandonFile(t)
  <2>1. PICK o \in h[t].left :
          /\ files' = IF readOperation(h[t].pid, o)
                        THEN [files EXCEPT ![o].status = "abandoned"] ELSE files
          /\ h' = [h EXCEPT ![t].pc = "drop", ![t].cur = o, ![t].left = @ \ {o}]
    BY <1>2 DEF AbandonFile
  <2>2. /\ o \in Op /\ h[t].pc = "sweep"
        /\ h'[t] = [h[t] EXCEPT !.pc = "drop", !.cur = o, !.left = @ \ {o}]
        /\ \A u \in Thread : u # t => h'[u] = h[u]
    BY <1>0, <1>2, <2>1 DEF AbandonFile, Handler
  <2>3. DiskOwned(own)'
    <3>1. CASE readOperation(h[t].pid, o)
      <4>1. files[o] \in Entry /\ o < nextOp /\ Names(files[o], own[o])
        BY <1>0, <2>2, <3>1 DEF readOperation, LockInv, TypeOK, DiskOwned
      <4>2. /\ [files[o] EXCEPT !.status = "abandoned"] \in Entry
            /\ Names([files[o] EXCEPT !.status = "abandoned"], own[o])
        BY <4>1 DEF Entry, Status, Names
      <4>3. files' = [files EXCEPT ![o] = [files[o] EXCEPT !.status = "abandoned"]]
        BY <2>1, <3>1
      <4>4. QED
        BY <1>1, <2>2, <4>1, <4>2, <4>3, OwnerWritesFile
    <3>2. CASE ~readOperation(h[t].pid, o)
      BY <1>0, <1>1, <2>1, <3>2 DEF DiskOwned
    <3>3. QED
      BY <3>1, <3>2
  <2>4. HandlerOwned(h[t], own)'
    BY <1>0, <1>1, <2>2 DEF Handler, HandlerOwned, Knows, HasEntry, Searching
  <2>5. QED
    BY <1>1, <2>2, <2>3, <2>4, OwnerStep
<1>3. CASE RunFile(t)
  <2>1. /\ h[t].pc = "runFile" /\ h[t].op \in Op /\ h[t].ent \in Entry
        /\ h[t].op < nextOp /\ Names(h[t].ent, own[h[t].op])
    BY <1>0, <1>3 DEF RunFile, HandlerOK, HandlerOwned, Knows, HasEntry
  <2>2. /\ h'[t] = [h[t] EXCEPT !.pc = "runIndex"]
        /\ \A u \in Thread : u # t => h'[u] = h[u]
        /\ files' = [files EXCEPT ![h[t].op] = h[t].ent]
    BY <1>0, <1>3 DEF RunFile
  <2>3. DiskOwned(own)'
    BY <1>1, <2>1, <2>2, OwnerWritesFile
  <2>4. files'[h[t].op] # None
    BY <2>1, <2>2, NoneAssumption DEF LockInv, TypeOK
  <2>5. HandlerOwned(h[t], own)'
    BY <1>0, <1>1, <2>1, <2>2, <2>4 DEF Handler, HandlerOwned, Searching
  <2>6. QED
    BY <1>1, <2>2, <2>3, <2>5, OwnerStep
<1>4. CASE FinalFile(t)
  <2>1. /\ h[t].pc = "finalFile" /\ h[t].op \in Op /\ h[t].ent \in Entry
        /\ h[t].op < nextOp /\ Names(h[t].ent, own[h[t].op]) /\ h[t].section = "finalize"
    BY <1>0, <1>4 DEF FinalFile, HandlerOK, HandlerOwned, Knows, HasEntry
  <2>2. /\ h'[t] = [h[t] EXCEPT !.pc = "drop", !.cur = h[t].op]
        /\ \A u \in Thread : u # t => h'[u] = h[u]
        /\ files' = [files EXCEPT ![h[t].op] = [h[t].ent EXCEPT !.status = "finished"]]
    BY <1>0, <1>4 DEF FinalFile
  <2>3. /\ [h[t].ent EXCEPT !.status = "finished"] \in Entry
        /\ Names([h[t].ent EXCEPT !.status = "finished"], own[h[t].op])
    BY <2>1 DEF Entry, Status, Names
  <2>4. DiskOwned(own)'
    BY <1>1, <2>1, <2>2, <2>3, OwnerWritesFile
  <2>5. HandlerOwned(h[t], own)'
    BY <1>0, <2>1, <2>2 DEF Handler, HandlerOwned, Knows, HasEntry, Searching
  <2>6. QED
    BY <1>1, <2>2, <2>4, <2>5, OwnerStep
<1>5. QED
  BY <1>2, <1>3, <1>4

\* An index is written after its file, from the copy the file was written from.
LEMMA OwnerIndexSteps ==
    ASSUME NEW t \in Thread, NEW own, LockInv, OwnedBy(own), CreateIndex(t) \/ RunIndex(t)
    PROVE  OwnedBy(own)'
<1>0. /\ h[t] \in Handler /\ HandlerOK(h[t]) /\ HandlerOwned(h[t], own)
      /\ h \in [Thread -> Handler] /\ DiskOwned(own)
  BY OwnerFacts
<1>1. /\ UNCHANGED <<procs, nextOp, files, claims>> /\ h[t].pc \in Critical
      /\ index' = [index EXCEPT ![h[t].op] = h[t].ent]
  BY DEF CreateIndex, RunIndex, host, Critical
<1>2. /\ h[t].op \in Op /\ h[t].ent \in Entry /\ h[t].ent # None /\ files[h[t].op] # None
      /\ h[t].op < nextOp /\ Names(h[t].ent, own[h[t].op])
  BY <1>0, NoneAssumption
     DEF CreateIndex, RunIndex, HandlerOK, HandlerOwned, Knows, HasEntry
<1>3. index'[h[t].op] = h[t].ent /\ \A o \in Op : o # h[t].op => index'[o] = index[o]
  BY <1>1, <1>2 DEF LockInv, TypeOK
<1>4. DiskOwned(own)'
  <2>1. \A c \in claims : c.op \in Op
    BY DEF LockInv, TypeOK, Claim
  <2>2. QED
    BY <1>0, <1>1, <1>2, <1>3, <2>1 DEF DiskOwned
<1>5. \A u \in Thread : u # t => h'[u] = h[u]
  BY <1>0 DEF CreateIndex, RunIndex
<1>6. CASE CreateIndex(t)
  <2>1. h'[t] = [h[t] EXCEPT !.pc = "check", !.section = "none"]
    BY <1>0, <1>6 DEF CreateIndex
  <2>2. HandlerOwned(h[t], own)'
    BY <1>0, <1>1, <1>2, <2>1 DEF Handler, HandlerOwned, Searching
  <2>3. QED
    BY <1>1, <1>4, <1>5, <2>2, OwnerStep
<1>7. CASE RunIndex(t)
  <2>1. h'[t] = [h[t] EXCEPT !.pc = "claim"]
    BY <1>0, <1>7 DEF RunIndex
  <2>2. HandlerOwned(h[t], own)'
    BY <1>0, <1>1, <1>2, <1>3, <2>1 DEF Handler, HandlerOwned, Searching
  <2>3. QED
    BY <1>1, <1>4, <1>5, <2>2, OwnerStep
<1>8. QED
  BY <1>6, <1>7

\* An index goes when no claim of its operation is left.
LEMMA OwnerDropSteps ==
    ASSUME NEW t \in Thread, NEW own, LockInv, OwnedBy(own), DropIndex(t) \/ FinalIndex(t)
    PROVE  OwnedBy(own)'
<1>0. /\ h[t] \in Handler /\ HandlerOK(h[t]) /\ HandlerOwned(h[t], own)
      /\ h \in [Thread -> Handler] /\ DiskOwned(own)
  BY OwnerFacts
<1>1. /\ UNCHANGED <<procs, nextOp, files, claims>> /\ h[t].pc \in Critical
      /\ index' = [index EXCEPT ![h[t].cur] = None]
      /\ h[t].pc = "drop" /\ \A c \in claims : c.op # h[t].cur
  BY DEF DropIndex, FinalIndex, host, Critical
<1>2. h[t].cur \in Op
  BY <1>0, <1>1 DEF HandlerOK
<1>3. index'[h[t].cur] = None /\ \A o \in Op : o # h[t].cur => index'[o] = index[o]
  BY <1>1, <1>2 DEF LockInv, TypeOK
<1>4. DiskOwned(own)'
  <2>1. \A c \in claims : c.op \in Op
    BY DEF LockInv, TypeOK, Claim
  <2>2. QED
    BY <1>0, <1>1, <1>2, <1>3, <2>1 DEF DiskOwned
<1>5. CASE DropIndex(t) /\ readOperation(h[t].pid, h[t].cur)
  <2>1. /\ h'[t] = [h[t] EXCEPT !.pc = "sweep", !.cur = 0]
        /\ \A u \in Thread : u # t => h'[u] = h[u]
    BY <1>0, <1>5 DEF DropIndex
  <2>2. HandlerOwned(h[t], own)'
    BY <1>0, <1>1, <2>1 DEF Handler, HandlerOwned, Knows, HasEntry, Searching
  <2>3. QED
    BY <1>1, <1>4, <2>1, <2>2, OwnerStep
<1>6. CASE DropIndex(t) /\ ~readOperation(h[t].pid, h[t].cur)
  <2>1. /\ h'[t] = [h[t] EXCEPT !.pc = "purge"]
        /\ \A u \in Thread : u # t => h'[u] = h[u]
    BY <1>0, <1>6 DEF DropIndex
  <2>2. HandlerOwned(h[t], own)'
    BY <1>0, <1>1, <1>3, <2>1 DEF Handler, HandlerOwned, Knows, HasEntry, Searching
  <2>3. QED
    BY <1>1, <1>4, <2>1, <2>2, OwnerStep
<1>7. CASE FinalIndex(t)
  BY <1>0, <1>1, <1>4, <1>7, OwnerAnswer, OwnerStep DEF FinalIndex
<1>8. QED
  BY <1>5, <1>6, <1>7

\* The file of an operation goes after its index.
LEMMA OwnerPurge ==
    ASSUME NEW t \in Thread, NEW own, LockInv, OwnedBy(own), PurgeFile(t)
    PROVE  OwnedBy(own)'
<1>0. /\ h[t] \in Handler /\ HandlerOK(h[t]) /\ HandlerOwned(h[t], own)
      /\ h \in [Thread -> Handler] /\ DiskOwned(own)
  BY OwnerFacts
<1>1. /\ UNCHANGED <<procs, nextOp, index, claims>> /\ h[t].pc \in Critical
      /\ files' = [files EXCEPT ![h[t].cur] = None] /\ h[t].pc = "purge"
      /\ h'[t] = [h[t] EXCEPT !.pc = "sweep", !.cur = 0]
      /\ \A u \in Thread : u # t => h'[u] = h[u]
  BY <1>0 DEF PurgeFile, host, Critical
<1>2. h[t].cur \in Op /\ index[h[t].cur] = None
  BY <1>0, <1>1 DEF HandlerOK, HandlerOwned
<1>3. files'[h[t].cur] = None /\ \A o \in Op : o # h[t].cur => files'[o] = files[o]
  BY <1>1, <1>2 DEF LockInv, TypeOK
<1>4. DiskOwned(own)'
  BY <1>0, <1>1, <1>2, <1>3 DEF DiskOwned
<1>5. HandlerOwned(h[t], own)'
  BY <1>0, <1>1 DEF Handler, HandlerOwned, Knows, HasEntry, Searching
<1>6. QED
  BY <1>1, <1>4, <1>5, OwnerStep
\* Claims are deleted at any time, and written under an index of their owner.
LEMMA OwnerClaimSteps ==
    ASSUME NEW t \in Thread, NEW own, LockInv, OwnedBy(own),
           DropClaim(t) \/ CheckConflicts(t) \/ WriteClaim(t)
    PROVE  OwnedBy(own)'
<1>0. /\ h[t] \in Handler /\ HandlerOK(h[t]) /\ HandlerOwned(h[t], own)
      /\ h \in [Thread -> Handler] /\ DiskOwned(own)
  BY OwnerFacts
<1>1. UNCHANGED <<procs, nextOp, files, index>> /\ h[t].pc \in Critical
  BY DEF DropClaim, CheckConflicts, WriteClaim, host, Critical
<1>2. claims' \subseteq claims => DiskOwned(own)'
  BY <1>0, <1>1 DEF DiskOwned
<1>3. CASE DropClaim(t)
  <2>1. claims' \subseteq claims /\ h' = h
    BY <1>3 DEF DropClaim
  <2>2. HandlerOwned(h[t], own)'
    BY <1>0, <1>1, <2>1 DEF HandlerOwned
  <2>3. QED
    BY <1>1, <1>2, <2>1, <2>2, OwnerStep
<1>4. CASE CheckConflicts(t)
  <2>1. claims' \subseteq claims
    BY <1>4 DEF CheckConflicts, liveClaims
  <2>2. CASE conflictsLocked(t)
    <3>1. Answer(t, "queued")
      BY <1>4, <2>2 DEF CheckConflicts
    <3>2. QED
      BY <1>0, <1>1, <1>2, <2>1, <3>1, OwnerAnswer, OwnerStep
  <2>3. CASE ~conflictsLocked(t)
    <3>1. /\ h'[t] = [h[t] EXCEPT !.pc = "runFile", !.ent.status = "running",
                                  !.todo = LockSet(h[t].ent.req)]
          /\ \A u \in Thread : u # t => h'[u] = h[u]
          /\ h[t].pc = "conflicts" /\ h[t].ent \in Entry
      BY <1>0, <1>4, <2>3 DEF CheckConflicts, HandlerOK, HasEntry
    <3>2. h'[t].pc = "runFile" /\ h'[t].op = h[t].op /\ h'[t].section = h[t].section
      BY <1>0, <3>1 DEF Handler
    <3>3. Names(h[t].ent, own[h[t].op]) => Names(h'[t].ent, own[h[t].op])
      <4>1. h'[t].ent = [h[t].ent EXCEPT !.status = "running"]
        BY <1>0, <3>1 DEF Handler
      <4>2. QED
        BY <3>1, <4>1 DEF Entry, Names
    <3>4. HandlerOwned(h[t], own)'
      BY <1>0, <1>1, <3>1, <3>2, <3>3 DEF HandlerOwned, Knows, HasEntry, Searching
    <3>5. QED
      BY <1>1, <1>2, <2>1, <3>1, <3>4, OwnerStep
  <2>4. QED
    BY <2>2, <2>3
<1>5. CASE WriteClaim(t)
  <2>1. PICK l \in h[t].todo :
          /\ claims' = claims \cup {[op |-> h[t].op, pid |-> h[t].ent.pid,
                                     boot |-> h[t].ent.boot, lock |-> l]}
          /\ h' = [h EXCEPT ![t].todo = @ \ {l}]
    BY <1>5 DEF WriteClaim
  <2>2. /\ h'[t] = [h[t] EXCEPT !.todo = @ \ {l}] /\ h[t].pc = "claim"
        /\ \A u \in Thread : u # t => h'[u] = h[u]
    BY <1>0, <1>5, <2>1 DEF WriteClaim
  <2>3. index[h[t].op] # None /\ Names(h[t].ent, own[h[t].op])
    BY <1>0, <2>2 DEF HandlerOwned, Knows, HasEntry
  <2>4. DiskOwned(own)'
    BY <1>0, <1>1, <2>1, <2>3 DEF DiskOwned, Names
  <2>5. HandlerOwned(h[t], own)'
    BY <1>0, <1>1, <2>2 DEF Handler, HandlerOwned, Knows
  <2>6. QED
    BY <1>1, <2>2, <2>4, <2>5, OwnerStep
<1>6. QED
  BY <1>3, <1>4, <1>5

-----------------------------------------------------------------------------
(* The life of processes. *)

\* No handler serves a process that has not started.
LEMMA OwnerStart ==
    ASSUME NEW own, LockInv, OwnedBy(own), NEW p \in Pid, NEW w \in Workspace, Start(p, w)
    PROVE  OwnedBy(own)'
<1>1. UNCHANGED <<nextOp, files, index, claims, h>> /\ procs[p] = None
      /\ \A q \in Pid : q # p => procs'[q] = procs[q]
  BY DEF Start, disk, LockInv, TypeOK
<1>2. DiskOwned(own)'
  BY <1>1 DEF OwnedBy, DiskOwned
<1>3. ASSUME NEW t \in Thread PROVE HandlerOwned(h[t], own)'
  <2>1. h[t] \in Handler /\ HandlerOK(h[t]) /\ HandlerOwned(h[t], own)
    BY OwnerFacts
  <2>2. CASE h[t].pc = "find" \/ (h[t].section = "find" /\ h[t].pc \in Searching)
    <3>1. h[t].pid \in Pid /\ h[t].req \in Request /\ procs[h[t].pid] = WorkspaceOf[h[t].req]
      BY <2>1, <2>2 DEF HandlerOK, HandlerOwned, Searching
    <3>2. h[t].pid # p
      BY <1>1, <3>1, JournalAssumption
    <3>3. QED
      BY <1>1, <2>1, <3>1, <3>2 DEF HandlerOwned
  <2>3. CASE ~(h[t].pc = "find" \/ (h[t].section = "find" /\ h[t].pc \in Searching))
    BY <1>1, <2>1, <2>3 DEF HandlerOwned
  <2>4. QED
    BY <2>2, <2>3
<1>4. QED
  BY <1>2, <1>3 DEF OwnedBy

\* The handlers of a dead process vanish; the processes of the others live on.
LEMMA OwnerKill ==
    ASSUME NEW own, LockInv, OwnedBy(own), NEW dead \in SUBSET Pid,
           KillHandlers(dead), UNCHANGED disk,
           \A p \in Pid \ dead : procs'[p] = procs[p]
    PROVE  OwnedBy(own)'
<1>1. UNCHANGED <<nextOp, files, index, claims>>
  BY DEF disk
<1>2. DiskOwned(own)'
  BY <1>1 DEF OwnedBy, DiskOwned
<1>3. ASSUME NEW t \in Thread PROVE HandlerOwned(h[t], own)'
  <2>1. h[t] \in Handler /\ HandlerOK(h[t]) /\ HandlerOwned(h[t], own)
    BY OwnerFacts
  <2>2. CASE h'[t] = Idle
    BY <2>2 DEF Idle, HandlerOwned, Knows, HasEntry, Searching
  <2>3. CASE h'[t] # Idle
    <3>1. h'[t] = h[t] /\ h[t].pid \notin dead
      BY <2>3 DEF KillHandlers
    <3>2. h[t].pc # "idle" => procs'[h[t].pid] = procs[h[t].pid]
      BY <2>1, <3>1 DEF HandlerOK
    <3>3. QED
      BY <1>1, <2>1, <3>1, <3>2 DEF HandlerOwned, Searching
  <2>4. QED
    BY <2>2, <2>3
<1>4. QED
  BY <1>2, <1>3 DEF OwnedBy

-----------------------------------------------------------------------------
(* The invariant holds in every behaviour. *)

\* Every step that creates no operation keeps the owners.
LEMMA OwnerKept ==
    ASSUME NEW own, LockInv, OwnedBy(own), [Next]_vars,
           \A t \in Thread : ~CreateFile(t)
    PROVE  OwnedBy(own)'
<1>1. CASE UNCHANGED vars
  BY <1>1 DEF vars, OwnedBy, DiskOwned, HandlerOwned
<1>2. ASSUME NEW t \in Thread, NEW p \in Pid,
             (\E r \in Request : Acquire(t, p, r)) \/ (\E o \in Op : Release(t, p, o))
      PROVE  OwnedBy(own)'
  BY <1>2, OwnerCalls
<1>3. ASSUME NEW t \in Thread, Step(t) \/ CancelAcquire(t) \/ IOError(t) \/ Reply(t)
      PROVE  OwnedBy(own)'
  BY <1>3, OwnerMoves, OwnerReads, OwnerFileSteps, OwnerIndexSteps,
     OwnerDropSteps, OwnerPurge, OwnerClaimSteps DEF Step
<1>4. ASSUME NEW p \in Pid, NEW w \in Workspace, Start(p, w) PROVE OwnedBy(own)'
  BY <1>4, OwnerStart
<1>5. ASSUME NEW p \in Pid, Crash(p) PROVE OwnedBy(own)'
  <2>1. \A q \in Pid \ {p} : procs'[q] = procs[q]
    BY <1>5 DEF Crash, LockInv, TypeOK
  <2>2. QED
    BY <1>5, <2>1, OwnerKill DEF Crash
<1>6. CASE Reboot
  BY <1>6, OwnerKill DEF Reboot
<1>7. QED
  BY <1>1, <1>2, <1>3, <1>4, <1>5, <1>6 DEF Next

\* Every step keeps the owners, but for the new one of a new operation.
LEMMA NextOwnerInv == LockInv /\ OwnerInv /\ [Next]_vars => OwnerInv'
<1> SUFFICES ASSUME LockInv, OwnerInv, [Next]_vars PROVE OwnerInv'
  OBVIOUS
<1>1. PICK own \in Owners : OwnedBy(own)
  BY DEF OwnerInv
<1>2. CASE \A t \in Thread : ~CreateFile(t)
  BY <1>1, <1>2, OwnerKept DEF OwnerInv
<1>3. ASSUME NEW t \in Thread, CreateFile(t) PROVE OwnerInv'
  BY <1>1, <1>3, OwnerCreateFile DEF OwnerInv
<1>4. QED
  BY <1>2, <1>3

\* The invariant that carries the theorems below: an operation has one owner
\* for good, and every copy of its entry, in a file or in a handler, however
\* stale, names that owner.
THEOREM JournalOwnerInv == Spec => []OwnerInv
<1>1. Init => OwnerInv
  <2>1. [o \in Op |-> None] \in Owners
    BY DEF Owners
  <2>2. QED
    BY <2>1, InitOwner DEF OwnerInv
<1>2. QED
  BY <1>1, NextOwnerInv, JournalLockInv, PTL DEF Spec

\* For any executors, workspaces and lock sets, and whatever crashes, write
\* errors, reboots and reused pids occur: a claim is never on the host's disk
\* without an index that names its operation and the same owner, so that the
\* next sweep or finalize finds it.
THEOREM JournalClaimsAreIndexed == Spec => []ClaimsAreIndexed
<1>1. LockInv /\ OwnerInv => ClaimsAreIndexed
  <2> SUFFICES ASSUME LockInv, OwnerInv PROVE ClaimsAreIndexed
    OBVIOUS
  <2>1. PICK own \in Owners : OwnedBy(own)
    BY DEF OwnerInv
  <2>2. \A c \in claims : c.op \in Op
    BY DEF LockInv, TypeOK, Claim
  <2>3. QED
    BY <2>1, <2>2 DEF OwnedBy, DiskOwned, Names, ClaimsAreIndexed
<1>2. QED
  BY <1>1, JournalLockInv, JournalOwnerInv, PTL

\* Likewise an index is never on the disk without the entry it stands for, and
\* the two name one request and one owner.
THEOREM JournalIndexMatchesFile == Spec => []IndexMatchesFile
<1>1. OwnerInv => IndexMatchesFile
  BY DEF OwnerInv, OwnedBy, DiskOwned, Names, IndexMatchesFile
<1>2. QED
  BY <1>1, JournalOwnerInv, PTL

-----------------------------------------------------------------------------
(* The providers. *)

ClientRecord ==
    [phase : Phase, pos : {"ready", "calling", "failed"},
     call : Thread \cup {None}, op : Op \cup {0}, tries : Nat]

\* A request that was granted or that releases knows an operation id.
Told == \A r \in Request : cl[r].phase \in {"mutate", "release"} => cl[r].op \in Op

\* So does an answer that sends it there.
Telling(x) == x.pc = "reply" /\ x.res \in {"granted", "queued"} => x.op \in Op

ProviderInv == LockInv /\ LeaseTypeOK /\ Told /\ \A t \in Thread : Telling(h[t])

-----------------------------------------------------------------------------
(* What the moves of a request do to its record. *)

\* One record changes, and only in the fields named.
LEMMA CallingFields ==
    ASSUME NEW r \in Request, NEW t \in Thread \cup {None},
           cl \in [Request -> ClientRecord], Calling(r, t)
    PROVE  /\ cl' \in [Request -> ClientRecord]
           /\ cl'[r].phase = cl[r].phase /\ cl'[r].pos = "calling" /\ cl'[r].call = t
           /\ cl'[r].op = cl[r].op /\ cl'[r].tries = cl[r].tries
           /\ \A s \in Request : s # r => cl'[s] = cl[s]
<1> DEFINE c == [cl[r] EXCEPT !.pos = "calling", !.call = t]
<1>1. cl[r] \in ClientRecord
  OBVIOUS
<1>2. /\ c \in ClientRecord /\ c.phase = cl[r].phase /\ c.pos = "calling" /\ c.call = t
      /\ c.op = cl[r].op /\ c.tries = cl[r].tries
  BY <1>1 DEF ClientRecord
<1>3. cl' = [cl EXCEPT ![r] = c]
  BY DEF Calling
<1> HIDE DEF c
<1>4. QED
  BY <1>2, <1>3

\* A failed attempt waits for nobody.
LEMMA FailedFields ==
    ASSUME NEW r \in Request, cl \in [Request -> ClientRecord], Failed(r)
    PROVE  /\ cl' \in [Request -> ClientRecord]
           /\ cl'[r].phase = cl[r].phase /\ cl'[r].pos = "failed" /\ cl'[r].call = None
           /\ cl'[r].op = cl[r].op /\ cl'[r].tries = cl[r].tries
           /\ \A s \in Request : s # r => cl'[s] = cl[s]
<1> DEFINE c == [cl[r] EXCEPT !.pos = "failed", !.call = None]
<1>1. cl[r] \in ClientRecord
  OBVIOUS
<1>2. /\ c \in ClientRecord /\ c.phase = cl[r].phase /\ c.pos = "failed" /\ c.call = None
      /\ c.op = cl[r].op /\ c.tries = cl[r].tries
  BY <1>1 DEF ClientRecord
<1>3. cl' = [cl EXCEPT ![r] = c]
  BY DEF Failed
<1> HIDE DEF c
<1>4. QED
  BY <1>2, <1>3

\* A retry counts.
LEMMA RetryFields ==
    ASSUME NEW r \in Request, cl \in [Request -> ClientRecord], Retry(r)
    PROVE  /\ cl' \in [Request -> ClientRecord]
           /\ cl'[r].phase = cl[r].phase /\ cl'[r].pos = "ready" /\ cl'[r].call = cl[r].call
           /\ cl'[r].op = cl[r].op /\ cl'[r].tries = cl[r].tries + 1
           /\ \A s \in Request : s # r => cl'[s] = cl[s]
<1> DEFINE n == cl[r].tries + 1
           c == [cl[r] EXCEPT !.pos = "ready", !.tries = n]
<1>1. cl[r] \in ClientRecord /\ n \in Nat
  BY DEF ClientRecord
<1>2. cl' = [cl EXCEPT ![r] = c]
  BY DEF Retry
<1> HIDE DEF n
<1>3. /\ c \in ClientRecord /\ c.phase = cl[r].phase /\ c.pos = "ready" /\ c.call = cl[r].call
      /\ c.op = cl[r].op /\ c.tries = n
  BY <1>1 DEF ClientRecord
<1> HIDE DEF c
<1>4. QED
  BY <1>2, <1>3 DEF n

\* A new phase starts ready, with no attempts counted.
LEMMA EnterFields ==
    ASSUME NEW r \in Request, NEW phase \in Phase, NEW op \in Op \cup {0},
           cl \in [Request -> ClientRecord], Enter(r, phase, op)
    PROVE  /\ cl' \in [Request -> ClientRecord]
           /\ cl'[r].phase = phase /\ cl'[r].pos = "ready" /\ cl'[r].call = None
           /\ cl'[r].op = op /\ cl'[r].tries = 0
           /\ \A s \in Request : s # r => cl'[s] = cl[s]
<1> DEFINE c == [NewClient EXCEPT !.phase = phase, !.op = op]
<1>1. /\ c \in ClientRecord /\ c.phase = phase /\ c.pos = "ready" /\ c.call = None
      /\ c.op = op /\ c.tries = 0
  BY DEF ClientRecord, NewClient
<1>2. cl' = [cl EXCEPT ![r] = c]
  BY DEF Enter
<1> HIDE DEF c
<1>3. QED
  BY <1>1, <1>2

\* The calls of a workspace whose executor died fail; nothing else moves.
LEMMA DyingFields ==
    ASSUME NEW w \in Workspace, cl \in [Request -> ClientRecord], ExecutorDies(w),
           NEW r \in Request
    PROVE  /\ cl'[r] \in ClientRecord
           /\ cl'[r].phase = cl[r].phase /\ cl'[r].op = cl[r].op /\ cl'[r].tries = cl[r].tries
           /\ IF WorkspaceOf[r] = w /\ cl[r].pos = "calling"
                THEN cl'[r].pos = "failed" /\ cl'[r].call = None
                ELSE cl'[r] = cl[r]
<1>1. cl[r] \in ClientRecord
  OBVIOUS
<1>2. CASE WorkspaceOf[r] = w /\ cl[r].pos = "calling"
  <2>1. cl'[r] = [cl[r] EXCEPT !.pos = "failed", !.call = None]
    BY <1>2 DEF ExecutorDies, Requests
  <2>2. QED
    BY <1>1, <1>2, <2>1 DEF ClientRecord
<1>3. CASE ~(WorkspaceOf[r] = w /\ cl[r].pos = "calling")
  <2>1. cl'[r] = cl[r]
    BY <1>3 DEF ExecutorDies, Requests
  <2>2. QED
    BY <1>1, <1>3, <2>1
<1>4. QED
  BY <1>2, <1>3

-----------------------------------------------------------------------------
(* The providers' steps are steps of the journal. *)

\* The executor a call goes to is a process.
LEMMA ExecIsPid ==
    ASSUME LeaseTypeOK, NEW w \in Workspace, exec[w] # None
    PROVE  exec[w] \in Pid
BY DEF LeaseTypeOK

\* Every step of a provider, seen from the host, is one the journal allows or
\* none at all.
LEMMA LeaseNextIsNext == ProviderInv /\ [LeaseNext]_leaseVars => [Next]_vars
<1> SUFFICES ASSUME ProviderInv, [LeaseNext]_leaseVars PROVE [Next]_vars
  OBVIOUS
<1>0. LeaseTypeOK /\ Told /\ \A r \in Request : WorkspaceOf[r] \in Workspace
  BY JournalAssumption DEF ProviderInv
<1>1. CASE UNCHANGED leaseVars
  BY <1>1 DEF leaseVars
<1>2. ASSUME NEW r \in Request, NEW p \in Pid, EnsureExecutor(r, p) PROVE Next
  BY <1>0, <1>2 DEF EnsureExecutor, Next
<1>3. ASSUME NEW r \in Request, NEW t \in Thread, CallAcquire(r, t) PROVE Next
  BY <1>0, <1>3, ExecIsPid DEF CallAcquire, CanCall, Next
<1>4. ASSUME NEW r \in Request, NEW t \in Thread, CallRelease(r, t) PROVE Next
  BY <1>0, <1>4, ExecIsPid DEF CallRelease, CanCall, Next, Told
<1>5. ASSUME NEW t \in Thread, Deliver(t) PROVE Next
  BY <1>5 DEF Deliver, Next
<1>6. ASSUME NEW r \in Request,
             \/ CallMutate(r) \/ CallFails(r) \/ Exhausted(r) \/ CallDeadExecutor(r)
             \/ \E p \in Pid : MutateDone(r, p)
      PROVE  UNCHANGED vars
  BY <1>6 DEF CallMutate, CallFails, Exhausted, CallDeadExecutor, MutateDone
<1>7. ASSUME NEW r \in Request, ResetSession(r) PROVE Next \/ UNCHANGED vars
  BY <1>0, <1>7, ExecIsPid DEF ResetSession, Next
<1>8. ASSUME NEW w \in Workspace, ExecutorDies(w) \/ ProviderExits(w)
      PROVE  Next \/ UNCHANGED vars
  BY <1>0, <1>8, ExecIsPid DEF ExecutorDies, ProviderExits, Next
<1>9. ASSUME NEW p \in Pid, OrphanExits(p) PROVE Next
  BY <1>9 DEF OrphanExits, Next
<1>10. ASSUME NEW t \in Thread, LeaseStep(t) \/ LeaseCancel(t) \/ LeaseIOError(t) PROVE Next
  BY <1>10 DEF LeaseStep, LeaseCancel, LeaseIOError, Next
<1>11. QED
  BY <1>1, <1>2, <1>3, <1>4, <1>5, <1>6, <1>7, <1>8, <1>9, <1>10 DEF LeaseNext

\* The provider's variables keep their types: the retry of a request is one it
\* has an attempt left for.
LEMMA LeaseTypeStep == ProviderInv /\ [LeaseNext]_leaseVars => LeaseTypeOK'
<1> SUFFICES ASSUME ProviderInv, [LeaseNext]_leaseVars PROVE LeaseTypeOK'
  OBVIOUS
<1>0. /\ TypeOK' /\ h \in [Thread -> Handler] /\ LeaseTypeOK /\ Told
      /\ \A r \in Request : WorkspaceOf[r] \in Workspace
  BY LeaseNextIsNext, NextLockInv, JournalAssumption DEF ProviderInv, LockInv, TypeOK
<1> DEFINE Rest == /\ exec \in [Workspace -> Pid \cup {None}]
                   /\ mut \in [Request -> SUBSET Pid]
                   /\ losses \in Nat
                   /\ spent \subseteq Pid
           Tries == \A r \in Request : cl[r].tries < MaxAttempts[WorkspaceOf[r]]
           Cl == cl \in [Request -> ClientRecord]
<1>1. LeaseTypeOK' <=> TypeOK' /\ Rest' /\ Tries' /\ Cl'
  BY DEF LeaseTypeOK, ClientRecord
<1>2. Rest /\ Tries /\ Cl
  BY <1>0 DEF LeaseTypeOK, ClientRecord
<1>3. \A w \in Workspace : MaxAttempts[w] \in Nat /\ 0 < MaxAttempts[w]
  BY LeaseAssumption
<1> HIDE DEF Tries, Cl
<1>4. CASE UNCHANGED leaseVars
  BY <1>0, <1>1, <1>2, <1>4 DEF leaseVars, provider, Rest, Tries, Cl
<1>5. ASSUME NEW r \in Request, NEW p \in Pid, EnsureExecutor(r, p) PROVE Rest' /\ Tries' /\ Cl'
  BY <1>0, <1>2, <1>5 DEF EnsureExecutor, Tries, Cl
<1>6. ASSUME NEW r \in Request, NEW t \in Thread, CallAcquire(r, t) \/ CallRelease(r, t)
      PROVE  Rest' /\ Tries' /\ Cl'
  <2>1. Calling(r, t) /\ Rest'
    BY <1>2, <1>6 DEF CallAcquire, CallRelease
  <2>2. QED
    BY <1>2, <2>1, CallingFields DEF Tries, Cl
<1>7. ASSUME NEW r \in Request, CallMutate(r) PROVE Rest' /\ Tries' /\ Cl'
  <2>1. Calling(r, None)
    BY <1>7 DEF CallMutate
  <2>2. exec[WorkspaceOf[r]] \in Pid
    BY <1>0, <1>7, ExecIsPid DEF CallMutate, CanCall
  <2>3. Rest'
    BY <1>2, <1>7, <2>2 DEF CallMutate
  <2>4. QED
    BY <1>2, <2>1, <2>3, CallingFields DEF Tries, Cl
<1>8. ASSUME NEW r \in Request, NEW op \in Op \cup {0}, NEW phase \in Phase, Enter(r, phase, op)
      PROVE  Tries' /\ Cl'
  BY <1>0, <1>2, <1>3, <1>8, EnterFields DEF Tries, Cl
<1>9. ASSUME NEW r \in Request, Failed(r) PROVE Tries' /\ Cl'
  BY <1>2, <1>9, FailedFields DEF Tries, Cl
<1>10. ASSUME NEW t \in Thread, Deliver(t) PROVE Rest' /\ Tries' /\ Cl'
  <2>1. Rest' /\ h[t].op \in Op \cup {0}
    BY <1>0, <1>2, <1>10 DEF Deliver, Handler
  <2>2. QED
    BY <1>2, <1>8, <1>9, <1>10, <2>1 DEF Deliver, Delivered, Phase, Tries, Cl
<1>11. ASSUME NEW r \in Request, NEW p \in Pid, MutateDone(r, p) PROVE Rest' /\ Tries' /\ Cl'
  <2>1. Rest'
    BY <1>2, <1>11 DEF MutateDone
  <2>2. cl[r].op \in Op \cup {0}
    BY <1>2 DEF Cl, ClientRecord
  <2>3. QED
    BY <1>2, <1>8, <1>11, <2>1, <2>2 DEF MutateDone, Phase, Tries, Cl
<1>12. ASSUME NEW r \in Request, CallFails(r) \/ CallDeadExecutor(r) PROVE Rest' /\ Tries' /\ Cl'
  BY <1>2, <1>9, <1>12 DEF CallFails, CallDeadExecutor, Lose
<1>13. ASSUME NEW r \in Request, Exhausted(r) PROVE Rest' /\ Tries' /\ Cl'
  <2>1. cl[r].op \in Op \cup {0}
    BY <1>2 DEF Cl, ClientRecord
  <2>2. QED
    BY <1>2, <1>8, <1>13, <2>1 DEF Exhausted, GiveUp, Phase
<1>14. ASSUME NEW r \in Request, ResetSession(r) PROVE Rest' /\ Tries' /\ Cl'
  <2>1. Rest'
    BY <1>0, <1>2, <1>14 DEF ResetSession
  <2>2. cl[r].tries \in Nat
    BY <1>2 DEF Cl, ClientRecord
  <2>3. cl[r].tries + 1 < MaxAttempts[WorkspaceOf[r]]
    BY <1>0, <1>3, <1>14, <2>2 DEF ResetSession, AttemptsLeft
  <2>4. Retry(r)
    BY <1>14 DEF ResetSession
  <2>5. QED
    BY <1>2, <2>1, <2>3, <2>4, RetryFields DEF Tries, Cl
<1>15. ASSUME NEW w \in Workspace, ExecutorDies(w) PROVE Rest' /\ Tries' /\ Cl'
  <2>1. Rest'
    <3>1. /\ losses' = losses + 1 /\ exec' = exec /\ spent' = spent
          /\ mut' = [r \in Request |-> mut[r] \ {exec[w]}]
      BY <1>15 DEF ExecutorDies, Lose
    <3>2. QED
      BY <1>2, <3>1
  <2>2. \A r \in Request : cl'[r] \in ClientRecord /\ cl'[r].tries = cl[r].tries
    BY <1>2, <1>15, DyingFields DEF Cl
  <2>3. Cl'
    BY <1>15, <2>2 DEF ExecutorDies, Cl
  <2>4. QED
    BY <1>2, <2>1, <2>2, <2>3 DEF Tries
<1>16. ASSUME NEW p \in Pid, OrphanExits(p) PROVE Rest' /\ Tries' /\ Cl'
  BY <1>2, <1>16 DEF OrphanExits, Tries, Cl
<1>17. ASSUME NEW w \in Workspace, ProviderExits(w) PROVE Rest' /\ Tries' /\ Cl'
  BY <1>2, <1>17 DEF ProviderExits, Tries, Cl
<1>18. ASSUME NEW t \in Thread, LeaseStep(t) \/ LeaseCancel(t) \/ LeaseIOError(t)
       PROVE  Rest' /\ Tries' /\ Cl'
  BY <1>2, <1>18 DEF LeaseStep, LeaseCancel, LeaseIOError, Lose, provider, Tries, Cl
<1>19. QED
  BY <1>0, <1>1, <1>4, <1>5, <1>6, <1>7, <1>10, <1>11, <1>12, <1>13, <1>14, <1>15, <1>16,
     <1>17, <1>18 DEF LeaseNext

-----------------------------------------------------------------------------
(* What the steps of a handler do to its record. *)

\* Handler t stands there now; whom it serves, and the others, are as before.
Becomes(t, pc, section, op, ent, left, cur, todo, res) ==
    /\ h'[t].pc = pc /\ h'[t].section = section /\ h'[t].op = op /\ h'[t].ent = ent
    /\ h'[t].left = left /\ h'[t].cur = cur /\ h'[t].todo = todo /\ h'[t].res = res
    /\ h'[t].pid = h[t].pid /\ h'[t].req = h[t].req
    /\ \A u \in Thread : u # t => h'[u] = h[u]

\* Handler t answers.
Answers(t, res) == Becomes(t, "reply", "none", h[t].op, None, {}, 0, {}, res)

\* In the first critical section of Acquire.
LEMMA FindMoves ==
    ASSUME NEW t \in Thread, h \in [Thread -> Handler]
    PROVE  /\ FindLock(t) =>
                Becomes(t, "sweep", "find", h[t].op, h[t].ent, readHostOperationIndexes,
                        h[t].cur, h[t].todo, h[t].res)
           /\ LookupHit(t) =>
                \E o \in Op :
                    /\ index[o] # None /\ index[o].req = h[t].req
                    /\ readOperation(h[t].pid, o)
                    /\ Becomes(t, "check", "none", o, files[o], h[t].left, h[t].cur,
                               h[t].todo, h[t].res)
           /\ CreateFile(t) =>
                Becomes(t, "createIndex", h[t].section, nextOp,
                        [req |-> h[t].req, pid |-> h[t].pid, boot |-> boot, status |-> "queued"],
                        h[t].left, h[t].cur, h[t].todo, h[t].res)
           /\ CreateIndex(t) =>
                Becomes(t, "check", "none", h[t].op, h[t].ent, h[t].left, h[t].cur,
                        h[t].todo, h[t].res)
<1>0. h[t] \in Handler
  OBVIOUS
<1>1. ASSUME FindLock(t)
      PROVE  Becomes(t, "sweep", "find", h[t].op, h[t].ent, readHostOperationIndexes,
                     h[t].cur, h[t].todo, h[t].res)
  <2>1. /\ h'[t] = [h[t] EXCEPT !.pc = "sweep", !.section = "find", !.left = readHostOperationIndexes]
        /\ \A u \in Thread : u # t => h'[u] = h[u]
    BY <1>1 DEF FindLock, EnterSection
  <2>2. QED
    BY <1>0, <2>1 DEF Handler, Becomes
<1>2. ASSUME LookupHit(t)
      PROVE  \E o \in Op :
                 /\ index[o] # None /\ index[o].req = h[t].req
                 /\ readOperation(h[t].pid, o)
                 /\ Becomes(t, "check", "none", o, files[o], h[t].left, h[t].cur,
                            h[t].todo, h[t].res)
  <2>1. PICK o \in Op : /\ index[o] # None /\ index[o].req = h[t].req
                        /\ readOperation(h[t].pid, o)
                        /\ h' = [h EXCEPT ![t].pc = "check", ![t].section = "none",
                                          ![t].op = o, ![t].ent = files[o]]
    BY <1>2 DEF LookupHit, readHostOperationIndexes
  <2>2. /\ h'[t] = [h[t] EXCEPT !.pc = "check", !.section = "none", !.op = o, !.ent = files[o]]
        /\ \A u \in Thread : u # t => h'[u] = h[u]
    BY <2>1
  <2>3. Becomes(t, "check", "none", o, files[o], h[t].left, h[t].cur, h[t].todo, h[t].res)
    BY <1>0, <2>2 DEF Handler, Becomes
  <2>4. QED
    BY <2>1, <2>3
<1>3. ASSUME CreateFile(t)
      PROVE  Becomes(t, "createIndex", h[t].section, nextOp,
                     [req |-> h[t].req, pid |-> h[t].pid, boot |-> boot, status |-> "queued"],
                     h[t].left, h[t].cur, h[t].todo, h[t].res)
  <2> DEFINE e == [req |-> h[t].req, pid |-> h[t].pid, boot |-> boot, status |-> "queued"]
  <2>1. /\ h'[t] = [h[t] EXCEPT !.pc = "createIndex", !.op = nextOp, !.ent = e]
        /\ \A u \in Thread : u # t => h'[u] = h[u]
    BY <1>3 DEF CreateFile
  <2> HIDE DEF e
  <2>2. Becomes(t, "createIndex", h[t].section, nextOp, e, h[t].left, h[t].cur, h[t].todo, h[t].res)
    BY <1>0, <2>1 DEF Handler, Becomes
  <2>3. QED
    BY <2>2 DEF e
<1>4. ASSUME CreateIndex(t)
      PROVE  Becomes(t, "check", "none", h[t].op, h[t].ent, h[t].left, h[t].cur,
                     h[t].todo, h[t].res)
  <2>1. /\ h'[t] = [h[t] EXCEPT !.pc = "check", !.section = "none"]
        /\ \A u \in Thread : u # t => h'[u] = h[u]
    BY <1>4 DEF CreateIndex
  <2>2. QED
    BY <1>0, <2>1 DEF Handler, Becomes
<1>5. QED
  BY <1>1, <1>2, <1>3, <1>4

\* In a sweep.
LEMMA SweepMoves ==
    ASSUME NEW t \in Thread, h \in [Thread -> Handler]
    PROVE  /\ SweepSkip(t) =>
                \E o \in h[t].left :
                    /\ ~staleHostEntry(o, SweepOwner(t))
                    /\ Becomes(t, h[t].pc, h[t].section, h[t].op, h[t].ent, h[t].left \ {o},
                               h[t].cur, h[t].todo, h[t].res)
           /\ AbandonFile(t) =>
                \E o \in h[t].left :
                    /\ staleHostEntry(o, SweepOwner(t))
                    /\ files' = IF readOperation(h[t].pid, o)
                                  THEN [files EXCEPT ![o].status = "abandoned"]
                                  ELSE files
                    /\ Becomes(t, "drop", h[t].section, h[t].op, h[t].ent, h[t].left \ {o}, o,
                               h[t].todo, h[t].res)
           /\ DropIndex(t) =>
                \/ Becomes(t, "sweep", h[t].section, h[t].op, h[t].ent, h[t].left, 0,
                           h[t].todo, h[t].res)
                \/ Becomes(t, "purge", h[t].section, h[t].op, h[t].ent, h[t].left, h[t].cur,
                           h[t].todo, h[t].res)
           /\ PurgeFile(t) =>
                Becomes(t, "sweep", h[t].section, h[t].op, h[t].ent, h[t].left, 0,
                        h[t].todo, h[t].res)
           /\ SweepDone(t) =>
                Becomes(t, IF h[t].section = "find" THEN "lookup" ELSE "conflicts",
                        h[t].section, h[t].op, h[t].ent, h[t].left, h[t].cur,
                        h[t].todo, h[t].res)
<1>0. h[t] \in Handler
  OBVIOUS
<1>1. ASSUME SweepSkip(t)
      PROVE  \E o \in h[t].left :
                 /\ ~staleHostEntry(o, SweepOwner(t))
                 /\ Becomes(t, h[t].pc, h[t].section, h[t].op, h[t].ent, h[t].left \ {o},
                            h[t].cur, h[t].todo, h[t].res)
  <2>1. PICK o \in h[t].left : /\ ~staleHostEntry(o, SweepOwner(t))
                               /\ h' = [h EXCEPT ![t].left = @ \ {o}]
    BY <1>1 DEF SweepSkip
  <2>2. /\ h'[t] = [h[t] EXCEPT !.left = h[t].left \ {o}]
        /\ \A u \in Thread : u # t => h'[u] = h[u]
    BY <2>1
  <2>3. QED
    BY <1>0, <2>1, <2>2 DEF Handler, Becomes
<1>2. ASSUME AbandonFile(t)
      PROVE  \E o \in h[t].left :
                 /\ staleHostEntry(o, SweepOwner(t))
                 /\ files' = IF readOperation(h[t].pid, o)
                               THEN [files EXCEPT ![o].status = "abandoned"]
                               ELSE files
                 /\ Becomes(t, "drop", h[t].section, h[t].op, h[t].ent, h[t].left \ {o}, o,
                            h[t].todo, h[t].res)
  <2>1. PICK o \in h[t].left :
            /\ staleHostEntry(o, SweepOwner(t))
            /\ files' = IF readOperation(h[t].pid, o)
                          THEN [files EXCEPT ![o].status = "abandoned"]
                          ELSE files
            /\ h' = [h EXCEPT ![t].pc = "drop", ![t].cur = o, ![t].left = @ \ {o}]
    BY <1>2 DEF AbandonFile
  <2> DEFINE l == h[t].left \ {o}
  <2>2. /\ h'[t] = [h[t] EXCEPT !.pc = "drop", !.cur = o, !.left = l]
        /\ \A u \in Thread : u # t => h'[u] = h[u]
    BY <2>1
  <2> HIDE DEF l
  <2>3. Becomes(t, "drop", h[t].section, h[t].op, h[t].ent, l, o, h[t].todo, h[t].res)
    BY <1>0, <2>2 DEF Handler, Becomes
  <2>4. QED
    BY <2>1, <2>3 DEF l
<1>3. ASSUME DropIndex(t)
      PROVE  \/ Becomes(t, "sweep", h[t].section, h[t].op, h[t].ent, h[t].left, 0,
                        h[t].todo, h[t].res)
             \/ Becomes(t, "purge", h[t].section, h[t].op, h[t].ent, h[t].left, h[t].cur,
                        h[t].todo, h[t].res)
  <2>1. /\ \/ h'[t] = [h[t] EXCEPT !.pc = "sweep", !.cur = 0]
           \/ h'[t] = [h[t] EXCEPT !.pc = "purge"]
        /\ \A u \in Thread : u # t => h'[u] = h[u]
    BY <1>3 DEF DropIndex
  <2>2. QED
    BY <1>0, <2>1, ZenonT(40) DEF Handler, Becomes
<1>4. ASSUME PurgeFile(t)
      PROVE  Becomes(t, "sweep", h[t].section, h[t].op, h[t].ent, h[t].left, 0,
                     h[t].todo, h[t].res)
  <2>1. /\ h'[t] = [h[t] EXCEPT !.pc = "sweep", !.cur = 0]
        /\ \A u \in Thread : u # t => h'[u] = h[u]
    BY <1>4 DEF PurgeFile
  <2>2. QED
    BY <1>0, <2>1 DEF Handler, Becomes
<1>5. ASSUME SweepDone(t)
      PROVE  Becomes(t, IF h[t].section = "find" THEN "lookup" ELSE "conflicts",
                     h[t].section, h[t].op, h[t].ent, h[t].left, h[t].cur,
                     h[t].todo, h[t].res)
  <2>1. /\ h'[t] = [h[t] EXCEPT !.pc = IF h[t].section = "find" THEN "lookup" ELSE "conflicts"]
        /\ \A u \in Thread : u # t => h'[u] = h[u]
    BY <1>5 DEF SweepDone
  <2>2. QED
    BY <1>0, <2>1 DEF Handler, Becomes
<1>6. QED
  BY <1>1, <1>2, <1>3, <1>4, <1>5

\* An answer keeps what the call is about and forgets the rest.
LEMMA AnswerMoves ==
    ASSUME NEW t \in Thread, h \in [Thread -> Handler], NEW res, Answer(t, res)
    PROVE  Answers(t, res)
BY DEF Answer, Answers, Becomes, Idle

\* In the second critical section of Acquire, and on the way to it.
LEMMA ActivateMoves ==
    ASSUME NEW t \in Thread, h \in [Thread -> Handler]
    PROVE  /\ GrantRunning(t) => Answers(t, "granted")
           /\ ActivateLock(t) =>
                Becomes(t, "sweep", "activate", h[t].op, h[t].ent, readHostOperationIndexes,
                        h[t].cur, h[t].todo, h[t].res)
           /\ CancelAcquire(t) =>
                Becomes(t, "read", "none", h[t].op, None, h[t].left, h[t].cur, h[t].todo, h[t].res)
           /\ CheckConflicts(t) =>
                \/ Answers(t, "queued")
                \/ Becomes(t, "runFile", h[t].section, h[t].op,
                           [h[t].ent EXCEPT !.status = "running"], h[t].left, h[t].cur,
                           LockSet(h[t].ent.req), h[t].res)
           /\ RunFile(t) =>
                Becomes(t, "runIndex", h[t].section, h[t].op, h[t].ent, h[t].left, h[t].cur,
                        h[t].todo, h[t].res)
           /\ RunIndex(t) =>
                Becomes(t, "claim", h[t].section, h[t].op, h[t].ent, h[t].left, h[t].cur,
                        h[t].todo, h[t].res)
           /\ WriteClaim(t) =>
                \E l \in h[t].todo :
                    /\ claims' = claims \cup {[op |-> h[t].op, pid |-> h[t].ent.pid,
                                               boot |-> h[t].ent.boot, lock |-> l]}
                    /\ Becomes(t, h[t].pc, h[t].section, h[t].op, h[t].ent, h[t].left, h[t].cur,
                               h[t].todo \ {l}, h[t].res)
           /\ GrantActivated(t) => Answers(t, "granted")
<1>0. h[t] \in Handler
  OBVIOUS
<1>1. GrantRunning(t) \/ GrantActivated(t) => Answers(t, "granted")
  BY AnswerMoves DEF GrantRunning, GrantActivated
<1>2. ASSUME ActivateLock(t)
      PROVE  Becomes(t, "sweep", "activate", h[t].op, h[t].ent, readHostOperationIndexes,
                     h[t].cur, h[t].todo, h[t].res)
  <2>1. /\ h'[t] = [h[t] EXCEPT !.pc = "sweep", !.section = "activate", !.left = readHostOperationIndexes]
        /\ \A u \in Thread : u # t => h'[u] = h[u]
    BY <1>2 DEF ActivateLock, EnterSection
  <2>2. QED
    BY <1>0, <2>1 DEF Handler, Becomes
<1>3. ASSUME CancelAcquire(t)
      PROVE  Becomes(t, "read", "none", h[t].op, None, h[t].left, h[t].cur, h[t].todo, h[t].res)
  <2>1. /\ h'[t] = [h[t] EXCEPT !.pc = "read", !.section = "none", !.ent = None]
        /\ \A u \in Thread : u # t => h'[u] = h[u]
    BY <1>3 DEF CancelAcquire
  <2>2. QED
    BY <1>0, <2>1 DEF Handler, Becomes
<1>4. ASSUME CheckConflicts(t), conflictsLocked(t) PROVE Answers(t, "queued")
  BY <1>4, AnswerMoves DEF CheckConflicts
<1>5. ASSUME CheckConflicts(t), ~conflictsLocked(t)
      PROVE  Becomes(t, "runFile", h[t].section, h[t].op,
                     [h[t].ent EXCEPT !.status = "running"], h[t].left, h[t].cur,
                     LockSet(h[t].ent.req), h[t].res)
  <2> DEFINE e == [h[t].ent EXCEPT !.status = "running"]
             k == LockSet(h[t].ent.req)
  <2>1. /\ h'[t] = [h[t] EXCEPT !.pc = "runFile", !.ent = e, !.todo = k]
        /\ \A u \in Thread : u # t => h'[u] = h[u]
    BY <1>5, ZenonT(40) DEF CheckConflicts
  <2> HIDE DEF e, k
  <2>2. Becomes(t, "runFile", h[t].section, h[t].op, e, h[t].left, h[t].cur, k, h[t].res)
    BY <1>0, <2>1 DEF Handler, Becomes
  <2>3. QED
    BY <2>2 DEF e, k
<1>6. ASSUME RunFile(t)
      PROVE  Becomes(t, "runIndex", h[t].section, h[t].op, h[t].ent, h[t].left, h[t].cur,
                     h[t].todo, h[t].res)
  <2>1. /\ h'[t] = [h[t] EXCEPT !.pc = "runIndex"]
        /\ \A u \in Thread : u # t => h'[u] = h[u]
    BY <1>6 DEF RunFile
  <2>2. QED
    BY <1>0, <2>1 DEF Handler, Becomes
<1>7. ASSUME RunIndex(t)
      PROVE  Becomes(t, "claim", h[t].section, h[t].op, h[t].ent, h[t].left, h[t].cur,
                     h[t].todo, h[t].res)
  <2>1. /\ h'[t] = [h[t] EXCEPT !.pc = "claim"]
        /\ \A u \in Thread : u # t => h'[u] = h[u]
    BY <1>7 DEF RunIndex
  <2>2. QED
    BY <1>0, <2>1 DEF Handler, Becomes
<1>8. ASSUME WriteClaim(t)
      PROVE  \E l \in h[t].todo :
                 /\ claims' = claims \cup {[op |-> h[t].op, pid |-> h[t].ent.pid,
                                            boot |-> h[t].ent.boot, lock |-> l]}
                 /\ Becomes(t, h[t].pc, h[t].section, h[t].op, h[t].ent, h[t].left, h[t].cur,
                            h[t].todo \ {l}, h[t].res)
  <2>1. PICK l \in h[t].todo :
            /\ claims' = claims \cup {[op |-> h[t].op, pid |-> h[t].ent.pid,
                                       boot |-> h[t].ent.boot, lock |-> l]}
            /\ h' = [h EXCEPT ![t].todo = @ \ {l}]
    BY <1>8 DEF WriteClaim
  <2>2. /\ h'[t] = [h[t] EXCEPT !.todo = h[t].todo \ {l}]
        /\ \A u \in Thread : u # t => h'[u] = h[u]
    BY <2>1
  <2>3. Becomes(t, h[t].pc, h[t].section, h[t].op, h[t].ent, h[t].left, h[t].cur,
                h[t].todo \ {l}, h[t].res)
    BY <1>0, <2>2 DEF Handler, Becomes
  <2>4. QED
    BY <2>1, <2>3
<1>9. QED
  BY <1>1, <1>2, <1>3, <1>4, <1>5, <1>6, <1>7, <1>8

\* In finalize, and where a write fails.
LEMMA FinalMoves ==
    ASSUME NEW t \in Thread, h \in [Thread -> Handler]
    PROVE  /\ FinalRead(t) =>
                \/ /\ readOperation(h[t].pid, h[t].op)
                   /\ Becomes(t, "finalize", h[t].section, h[t].op, files[h[t].op], h[t].left,
                              h[t].cur, h[t].todo, h[t].res)
                \/ Answers(t, "error")
           /\ FinalLock(t) =>
                Becomes(t, "finalFile", "finalize", h[t].op, h[t].ent, {}, h[t].cur,
                        h[t].todo, h[t].res)
           /\ FinalFile(t) =>
                Becomes(t, "drop", h[t].section, h[t].op, h[t].ent, h[t].left, h[t].op,
                        h[t].todo, h[t].res)
           /\ FinalIndex(t) => Answers(t, FinalAnswer(t))
           /\ IOError(t) =>
                \/ /\ h[t].section = "activate"
                   /\ Becomes(t, "read", "none", h[t].op, None, {}, h[t].cur, {}, h[t].res)
                \/ h[t].section # "activate" /\ Answers(t, "error")
<1>0. h[t] \in Handler
  OBVIOUS
<1>1. ASSUME FinalRead(t), readOperation(h[t].pid, h[t].op)
      PROVE  Becomes(t, "finalize", h[t].section, h[t].op, files[h[t].op], h[t].left,
                     h[t].cur, h[t].todo, h[t].res)
  <2> DEFINE e == files[h[t].op]
  <2>1. /\ h'[t] = [h[t] EXCEPT !.pc = "finalize", !.ent = e]
        /\ \A u \in Thread : u # t => h'[u] = h[u]
    BY <1>1 DEF FinalRead
  <2> HIDE DEF e
  <2>2. Becomes(t, "finalize", h[t].section, h[t].op, e, h[t].left, h[t].cur, h[t].todo, h[t].res)
    BY <1>0, <2>1 DEF Handler, Becomes
  <2>3. QED
    BY <2>2 DEF e
<1>2. ASSUME FinalRead(t), ~readOperation(h[t].pid, h[t].op) PROVE Answers(t, "error")
  BY <1>2, AnswerMoves DEF FinalRead
<1>3. ASSUME FinalLock(t)
      PROVE  Becomes(t, "finalFile", "finalize", h[t].op, h[t].ent, {}, h[t].cur,
                     h[t].todo, h[t].res)
  <2>1. /\ h'[t] = [h[t] EXCEPT !.pc = "finalFile", !.section = "finalize", !.left = {}]
        /\ \A u \in Thread : u # t => h'[u] = h[u]
    BY <1>3 DEF FinalLock, EnterSection
  <2>2. QED
    BY <1>0, <2>1 DEF Handler, Becomes
<1>4. ASSUME FinalFile(t)
      PROVE  Becomes(t, "drop", h[t].section, h[t].op, h[t].ent, h[t].left, h[t].op,
                     h[t].todo, h[t].res)
  <2>1. /\ h'[t] = [h[t] EXCEPT !.pc = "drop", !.cur = h[t].op]
        /\ \A u \in Thread : u # t => h'[u] = h[u]
    BY <1>4 DEF FinalFile
  <2>2. QED
    BY <1>0, <2>1 DEF Handler, Becomes
<1>5. FinalIndex(t) => Answers(t, FinalAnswer(t))
  BY AnswerMoves DEF FinalIndex
<1>6. ASSUME IOError(t), h[t].section = "activate"
      PROVE  Becomes(t, "read", "none", h[t].op, None, {}, h[t].cur, {}, h[t].res)
  <2>1. /\ h'[t] = [h[t] EXCEPT !.pc = "read", !.section = "none", !.ent = None,
                                !.left = {}, !.todo = {}]
        /\ \A u \in Thread : u # t => h'[u] = h[u]
    BY <1>6 DEF IOError
  <2>2. QED
    BY <1>0, <2>1 DEF Handler, Becomes
<1>7. ASSUME IOError(t), h[t].section # "activate" PROVE Answers(t, "error")
  BY <1>7, AnswerMoves DEF IOError
<1>8. QED
  BY <1>1, <1>2, <1>3, <1>4, <1>5, <1>6, <1>7

\* An answer that grants or queues a request names the operation the handler
\* works on.
LEMMA TellingStep ==
    ASSUME NEW t \in Thread, LockInv, Telling(h[t]), Step(t) \/ CancelAcquire(t) \/ IOError(t)
    PROVE  Telling(h'[t]) /\ \A u \in Thread : u # t => h'[u] = h[u]
<1>0. h[t] \in Handler /\ HandlerOK(h[t]) /\ h \in [Thread -> Handler]
  BY DEF LockInv, TypeOK, HandlersOK
<1>1. CASE GrantRunning(t) \/ GrantActivated(t) \/ CheckConflicts(t)
  <2>1. h[t].op \in Op
    BY <1>0, <1>1 DEF GrantRunning, GrantActivated, CheckConflicts, HandlerOK, HasEntry
  <2>2. QED
    BY <1>0, <1>1, <2>1, ActivateMoves DEF Answers, Becomes, Telling
<1>2. CASE ActivateLock(t) \/ CancelAcquire(t) \/ RunFile(t) \/ RunIndex(t) \/ WriteClaim(t)
  <2>1. h[t].pc # "reply"
    BY <1>2 DEF ActivateLock, CancelAcquire, RunFile, RunIndex, WriteClaim
  <2>2. QED
    BY <1>0, <1>2, <2>1, ActivateMoves DEF Becomes, Telling
<1>3. CASE FindLock(t) \/ LookupHit(t) \/ CreateFile(t) \/ CreateIndex(t)
  BY <1>0, <1>3, FindMoves DEF Becomes, Telling
<1>4. CASE SweepSkip(t) \/ AbandonFile(t) \/ DropIndex(t) \/ PurgeFile(t) \/ SweepDone(t)
  <2>1. h[t].pc # "reply"
    BY <1>4 DEF SweepSkip, AbandonFile, DropIndex, PurgeFile, SweepDone
  <2>2. QED
    BY <1>0, <1>4, <2>1, SweepMoves DEF Becomes, Telling
<1>5. CASE DropClaim(t)
  BY <1>5 DEF DropClaim, Telling
<1>6. CASE FinalRead(t) \/ FinalLock(t) \/ FinalFile(t) \/ FinalIndex(t) \/ IOError(t)
  BY <1>0, <1>6, FinalMoves DEF Answers, Becomes, FinalAnswer, Telling
<1>7. QED
  BY <1>1, <1>2, <1>3, <1>4, <1>5, <1>6 DEF Step

\* The handlers that a step of a provider starts, ends or leaves alone.
LEMMA TellingCalls ==
    ASSUME LockInv, \A t \in Thread : Telling(h[t]),
           \/ UNCHANGED h
           \/ \E t \in Thread, p \in Pid, r \in Request : Acquire(t, p, r)
           \/ \E t \in Thread, p \in Pid, o \in Op : Release(t, p, o)
           \/ \E t \in Thread : Reply(t)
           \/ \E p \in Pid : Crash(p)
    PROVE  \A t \in Thread : Telling(h'[t])
<1>0. h \in [Thread -> Handler]
  BY DEF LockInv, TypeOK
<1>1. ASSUME NEW t \in Thread, NEW p \in Pid, NEW r \in Request, Acquire(t, p, r)
      PROVE  \A u \in Thread : Telling(h'[u])
  <2>1. /\ h'[t] = [h[t] EXCEPT !.pc = "find", !.pid = p, !.req = r]
        /\ \A u \in Thread : u # t => h'[u] = h[u]
    BY <1>0, <1>1 DEF Acquire
  <2>2. h'[t].pc = "find"
    BY <1>0, <2>1 DEF Handler
  <2>3. QED
    BY <2>1, <2>2 DEF Telling
<1>2. ASSUME NEW t \in Thread, NEW p \in Pid, NEW o \in Op, Release(t, p, o)
      PROVE  \A u \in Thread : Telling(h'[u])
  <2>1. /\ h'[t] = [h[t] EXCEPT !.pc = "read", !.pid = p, !.op = o]
        /\ \A u \in Thread : u # t => h'[u] = h[u]
    BY <1>0, <1>2 DEF Release
  <2>2. h'[t].pc = "read"
    BY <1>0, <2>1 DEF Handler
  <2>3. QED
    BY <2>1, <2>2 DEF Telling
<1>3. Telling(Idle)
  BY DEF Telling, Idle
<1>4. ASSUME NEW t \in Thread, Reply(t) PROVE \A u \in Thread : Telling(h'[u])
  BY <1>0, <1>3, <1>4 DEF Reply
<1>5. ASSUME NEW p \in Pid, Crash(p) PROVE \A u \in Thread : Telling(h'[u])
  BY <1>3, <1>5 DEF Crash, KillHandlers
<1>6. QED
  BY <1>1, <1>2, <1>4, <1>5

\* A request that is granted, queued or through with its mutation knows the
\* operation it has to release.
LEMMA ToldStep == ProviderInv /\ [LeaseNext]_leaseVars => Told' /\ \A t \in Thread : Telling(h'[t])
<1> SUFFICES ASSUME ProviderInv, [LeaseNext]_leaseVars
             PROVE  Told' /\ \A t \in Thread : Telling(h'[t])
  OBVIOUS
<1>0. /\ LeaseTypeOK /\ LockInv /\ Told /\ cl \in [Request -> ClientRecord]
      /\ h \in [Thread -> Handler]
      /\ \A t \in Thread : Telling(h[t])
      /\ \A r \in Request : WorkspaceOf[r] \in Workspace
  BY JournalAssumption DEF ProviderInv, LeaseTypeOK, LockInv, TypeOK, ClientRecord
<1>1. UNCHANGED cl => Told'
  BY <1>0 DEF Told
<1>2. UNCHANGED h \/ (\E p \in Pid : Crash(p)) => \A t \in Thread : Telling(h'[t])
  BY <1>0, TellingCalls
<1>3. \A r \in Request : Failed(r) \/ Retry(r) \/ (\E t \in Thread \cup {None} : Calling(r, t)) => Told'
  BY <1>0, FailedFields, RetryFields, CallingFields DEF Told
<1>4. ASSUME NEW r \in Request, NEW phase \in Phase, NEW op \in Op \cup {0}, Enter(r, phase, op),
             phase \in {"mutate", "release"} => op \in Op
      PROVE  Told'
  BY <1>0, <1>4, EnterFields DEF Told
<1>5. CASE UNCHANGED leaseVars
  BY <1>1, <1>2, <1>5 DEF leaseVars, vars, provider
<1>6. ASSUME NEW r \in Request, NEW p \in Pid, EnsureExecutor(r, p)
      PROVE  Told' /\ \A t \in Thread : Telling(h'[t])
  BY <1>1, <1>2, <1>6 DEF EnsureExecutor, Start
<1>7. ASSUME NEW r \in Request, NEW t \in Thread, CallAcquire(r, t)
      PROVE  Told' /\ \A u \in Thread : Telling(h'[u])
  <2>1. \E p \in Pid : Acquire(t, p, r)
    BY <1>0, <1>7, ExecIsPid DEF CallAcquire, CanCall
  <2>2. QED
    BY <1>0, <1>3, <1>7, <2>1, TellingCalls DEF CallAcquire
<1>8. ASSUME NEW r \in Request, NEW t \in Thread, CallRelease(r, t)
      PROVE  Told' /\ \A u \in Thread : Telling(h'[u])
  <2>1. \E p \in Pid, o \in Op : Release(t, p, o)
    BY <1>0, <1>8, ExecIsPid DEF CallRelease, CanCall, Told
  <2>2. QED
    BY <1>0, <1>3, <1>8, <2>1, TellingCalls DEF CallRelease
<1>9. ASSUME NEW r \in Request, CallMutate(r) \/ CallFails(r) \/ CallDeadExecutor(r)
      PROVE  Told' /\ \A t \in Thread : Telling(h'[t])
  BY <1>2, <1>3, <1>9 DEF CallMutate, CallFails, CallDeadExecutor, vars
<1>10. ASSUME NEW t \in Thread, Deliver(t) PROVE Told' /\ \A u \in Thread : Telling(h'[u])
  <2>1. Reply(t) /\ h[t].pc = "reply" /\ h[t].op \in Op \cup {0} /\ Telling(h[t])
    BY <1>0, <1>10 DEF Deliver, Reply, Handler
  <2>2. Told'
    BY <1>1, <1>3, <1>4, <1>10, <2>1 DEF Deliver, Delivered, Telling, Phase
  <2>3. QED
    BY <1>0, <2>1, <2>2, TellingCalls
<1>11. ASSUME NEW r \in Request, NEW p \in Pid, MutateDone(r, p)
       PROVE  Told' /\ \A t \in Thread : Telling(h'[t])
  <2>1. cl[r].phase = "mutate" => cl[r].op \in Op
    BY <1>0 DEF Told
  <2>2. QED
    BY <1>1, <1>2, <1>4, <1>11, <2>1 DEF MutateDone, Phase, vars
<1>12. ASSUME NEW r \in Request, Exhausted(r) PROVE Told' /\ \A t \in Thread : Telling(h'[t])
  <2>1. cl[r].op \in Op \cup {0} /\ (cl[r].phase = "mutate" => cl[r].op \in Op)
    BY <1>0 DEF Told, ClientRecord
  <2>2. QED
    BY <1>2, <1>4, <1>12, <2>1 DEF Exhausted, GiveUp, Phase, vars
<1>13. ASSUME NEW r \in Request, ResetSession(r) PROVE Told' /\ \A t \in Thread : Telling(h'[t])
  <2>1. Retry(r) /\ (UNCHANGED h \/ \E p \in Pid : Crash(p))
    BY <1>0, <1>13, ExecIsPid DEF ResetSession, vars
  <2>2. QED
    BY <1>2, <1>3, <2>1
<1>14. ASSUME NEW w \in Workspace, ExecutorDies(w) PROVE Told' /\ \A t \in Thread : Telling(h'[t])
  <2>1. \E p \in Pid : Crash(p)
    BY <1>0, <1>14, ExecIsPid DEF ExecutorDies
  <2>2. \A r \in Request : cl'[r].phase = cl[r].phase /\ cl'[r].op = cl[r].op
    BY <1>0, <1>14, DyingFields
  <2>3. QED
    BY <1>0, <1>2, <2>1, <2>2 DEF Told
<1>15. ASSUME NEW p \in Pid, OrphanExits(p) PROVE Told' /\ \A t \in Thread : Telling(h'[t])
  BY <1>1, <1>2, <1>15 DEF OrphanExits
<1>16. ASSUME NEW w \in Workspace, ProviderExits(w) PROVE Told' /\ \A t \in Thread : Telling(h'[t])
  BY <1>0, <1>1, <1>2, <1>16, ExecIsPid DEF ProviderExits, vars
<1>17. ASSUME NEW t \in Thread, LeaseStep(t) \/ LeaseCancel(t) \/ LeaseIOError(t)
       PROVE  Told' /\ \A u \in Thread : Telling(h'[u])
  BY <1>0, <1>1, <1>17, TellingStep DEF LeaseStep, LeaseCancel, LeaseIOError, provider
<1>18. QED
  BY <1>5, <1>6, <1>7, <1>8, <1>9, <1>10, <1>11, <1>12, <1>13, <1>14, <1>15, <1>16, <1>17
     DEF LeaseNext

\* Nobody has called yet.
LEMMA InitProviderInv == LeaseInit => ProviderInv
<1> SUFFICES ASSUME LeaseInit PROVE ProviderInv
  OBVIOUS
<1>1. LockInv
  BY InitLockInv DEF LeaseInit
<1>2. \A r \in Request : cl[r] = NewClient
  BY DEF LeaseInit
<1>3. NewClient \in ClientRecord /\ NewClient.tries = 0 /\ NewClient.phase = "acquire"
  BY DEF NewClient, ClientRecord, Phase
<1>4. LeaseTypeOK
  <2>1. cl \in [Request -> ClientRecord]
    BY <1>3 DEF LeaseInit
  <2>2. \A r \in Request : cl[r].tries < MaxAttempts[WorkspaceOf[r]]
    BY <1>2, <1>3, JournalAssumption, LeaseAssumption
  <2>3. QED
    BY <1>1, <2>1, <2>2 DEF LeaseTypeOK, LeaseInit, LockInv, ClientRecord
<1>5. Told
  BY <1>2, <1>3 DEF Told
<1>6. \A t \in Thread : Telling(h[t])
  BY DEF LeaseInit, Init, Idle, Telling
<1>7. QED
  BY <1>1, <1>4, <1>5, <1>6 DEF ProviderInv

\* The invariant under which the providers keep to the journal's interface: a
\* lease is released by the operation id its answer named.
THEOREM LeaseProviderInv == LeaseSpec => []ProviderInv
<1>1. ProviderInv /\ [LeaseNext]_leaseVars => ProviderInv'
  BY LeaseNextIsNext, NextLockInv, LeaseTypeStep, ToldStep DEF ProviderInv
<1>2. QED
  BY <1>1, InitProviderInv, PTL DEF LeaseSpec

\* What the providers do with the journal is what OperationJournal allows, for
\* any workspaces, requests, attempts and losses: every theorem about the
\* journal holds under them.
THEOREM LeaseKeepsJournal == LeaseSpec => Spec
<1>1. LeaseInit => Init
  BY DEF LeaseInit
<1>2. QED
  BY <1>1, LeaseNextIsNext, LeaseProviderInv, PTL DEF LeaseSpec, Spec

\* The provider's side of the state keeps its shape: no request exceeds its
\* retry budget, whatever fails and however often.
THEOREM LeaseTypes == LeaseSpec => []LeaseTypeOK
<1>1. ProviderInv => LeaseTypeOK
  BY DEF ProviderInv
<1>2. QED
  BY <1>1, LeaseProviderInv, PTL

-----------------------------------------------------------------------------
(* The lease of a request, where nobody takes the executor away from a     *)
(* request that holds one.                                                 *)

\* The condition of the theorems below: a session has one request, a mutation
\* loses neither its call nor its executor, and the executor of an Acquire that
\* is tried again has ended.  Where it fails the lease may be lost under a
\* mutation that goes on; the lease_retry run shows it.
Undisturbed ==
    /\ \A r, s \in Request : WorkspaceOf[r] = WorkspaceOf[s] => r = s
    /\ MaxLosses["mutate"] = 0
    /\ "acquire" \notin Orphans

Exec(r) == exec[WorkspaceOf[r]]
Alive(p) == procs[p] # None

\* The owner of an operation has been started in this boot.
OwnersOK(own) ==
    \A o \in Op : o < nextOp =>
        own[o] \in Owner /\ own[o].boot = boot /\ own[o].pid \in spent

\* A pid that was given out is not given out again, and the executor of a session
\* serves its workspace as long as it lives.
ExecsOK ==
    /\ \A p \in Pid : Alive(p) => p \in spent
    /\ \A w \in Workspace :
         exec[w] # None => exec[w] \in spent /\ procs[exec[w]] \in {None, w}

\* An index is there while its operation is queued or running.
IndexOK == \A o \in Op : index[o] # None => isActiveOperationStatus(index[o].status)

\* A handler that works for an Acquire.
ForAcquire(x) ==
    \/ x.section \in {"find", "activate"}
    \/ x.pc \in {"find", "check"}
    \/ x.pc = "reply" /\ x.res \in {"granted", "queued"}

\* A handler works on the operation of the request it serves, or releases one
\* whose request is through with it.  A sweep has still to look at indexes that are
\* there; it takes away what a dead process owned, finalize what the handler works on.
HandlerServes(x, own) ==
    /\ x.pc = "idle" => x.req = None /\ x.op = 0
    /\ x.pc # "idle" => Alive(x.pid)
    /\ ForAcquire(x) => x.req # None
    /\ x.req # None /\ x.op # 0 => x.op < nextOp /\ own[x.op].req = x.req
    /\ x.req = None /\ x.pc # "idle" =>
         /\ x.op \in Op /\ x.op < nextOp
         /\ cl[own[x.op].req].phase \in {"release", "done"}
    /\ x.pc \in {"sweep", "drop", "purge"} /\ x.section # "finalize" =>
         \A o \in x.left : index[o] # None /\ (x.pc # "sweep" => o # x.cur)
    /\ x.pc = "drop" /\ x.section # "finalize" => x.cur < nextOp /\ ~Alive(own[x.cur].pid)
    /\ x.pc = "drop" /\ x.section = "finalize" => x.cur = x.op
    /\ x.pc = "createIndex" => x.ent.status = "queued"
    /\ x.pc \in Activating => x.ent.status = "running"

\* Lock l of request r is claimed for operation o and the executor of r.
Claimed(r, o, l) == [op |-> o, pid |-> Exec(r), boot |-> boot, lock |-> l] \in claims

Backed(r, o) == \A l \in LockSet(r) : Claimed(r, o, l)

\* The entry of the handler has been marked running, or is being finalized.
Late(x) ==
    \/ x.pc \in {"runIndex", "claim", "read", "finalize", "finalFile"}
    \/ x.pc = "drop" /\ x.section = "finalize"
    \/ x.pc = "reply" /\ x.res # "queued"

\* The handler has the entry it activates.
WithEntry(x) ==
    \/ x.pc \in {"createIndex", "check", "conflicts"} \cup Activating
    \/ x.section = "activate" /\ x.pc \in {"sweep", "drop", "purge"}

\* The handler x that serves the Acquire of r meets no entry of r but those of its
\* own process, activates one that is queued, and answers when all is claimed.
CallOK(r, x) ==
    /\ x.section = "find" /\ x.pc \in Searching =>
         \A o \in Op : index[o] # None /\ index[o].req = r =>
            o \in x.left \/ (x.pc = "drop" /\ x.cur = o) \/ index[o].pid = x.pid
    /\ x.pc = "lookup" => x.left = {}
    /\ WithEntry(x) => x.ent.pid = x.pid
    /\ x.pc = "check" => x.ent.status = "queued"
    /\ x.pc \in {"runFile", "runIndex"} => LockSet(r) \subseteq x.todo
    /\ x.pc = "claim" => \A l \in LockSet(r) : l \in x.todo \/ Claimed(r, x.op, l)
    /\ x.pc = "reply" /\ x.res = "granted" => Backed(r, x.op)

\* The handler a request waits for is there, in the executor of its session.
CallServed(r) ==
    cl[r].call # None =>
        /\ cl[r].pos = "calling" /\ h[cl[r].call].pc # "idle" /\ h[cl[r].call].pid = Exec(r)
        /\ \/ cl[r].phase = "acquire" /\ h[cl[r].call].req = r /\ CallOK(r, h[cl[r].call])
           \/ cl[r].phase = "release" /\ h[cl[r].call].req = None

\* The operation id a request goes by is that of an operation of its own.
OwnOperation(r, own) ==
    cl[r].phase \in {"mutate", "release"} => cl[r].op < nextOp /\ own[cl[r].op].req = r

\* A request that was granted its lease has it.
Holds(r) ==
    cl[r].phase = "mutate" =>
        cl[r].pos # "failed" /\ Exec(r) # None /\ Alive(Exec(r)) /\ Backed(r, cl[r].op)

\* A mutation runs while its request waits for it.
MutationHeld(r) ==
    mut[r] # {} => cl[r].phase = "mutate" /\ cl[r].pos = "calling" /\ mut[r] \subseteq {Exec(r)}

Wants(r) == cl[r].phase \in {"acquire", "mutate"}

\* No handler of an earlier call is at work behind the back of a request.
Alone(r) ==
    Wants(r) => \A t \in Thread : h[t].req = r =>
        h[t].pid = Exec(r) /\ (cl[r].call = t \/ cl[r].pos = "failed")

\* Of the owners of its operations only the executor of its session is alive.
OneExecutor(r, own) ==
    Wants(r) => \A o \in Op : o < nextOp /\ own[o].req = r /\ Alive(own[o].pid) =>
        own[o].pid = Exec(r)

\* The entries its executor owns are queued, until its call is late.
StillQueued(r, own) ==
    cl[r].phase = "acquire" /\ cl[r].pos # "failed" /\ Exec(r) # None /\ Alive(Exec(r)) =>
        \A o \in Op :
            /\ o < nextOp /\ own[o].req = r /\ own[o].pid = Exec(r)
            /\ files[o] # None /\ files[o].status # "queued"
            => cl[r].call # None /\ Late(h[cl[r].call])

ClientServed(r, own) ==
    /\ CallServed(r) /\ OwnOperation(r, own) /\ Holds(r) /\ MutationHeld(r)
    /\ Alone(r) /\ OneExecutor(r, own) /\ StillQueued(r, own)

Leases(own) ==
    /\ OwnedBy(own) /\ OwnersOK(own) /\ ExecsOK /\ IndexOK
    /\ \A t \in Thread : HandlerServes(h[t], own)
    /\ \A r \in Request : ClientServed(r, own)

LeaseInv == \E own \in Owners : Leases(own)

\* Nobody holds anything yet.
LEMMA InitLeases == LeaseInit => \A own \in Owners : Leases(own)
<1> SUFFICES ASSUME LeaseInit, NEW own \in Owners PROVE Leases(own)
  OBVIOUS
<1>1. OwnedBy(own)
  BY InitOwner DEF LeaseInit
<1>2. OwnersOK(own) /\ ExecsOK /\ IndexOK
  BY DEF LeaseInit, Init, OwnersOK, ExecsOK, IndexOK, Alive, Op
<1>3. \A t \in Thread : /\ h[t].pc = "idle" /\ h[t].req = None /\ h[t].op = 0
                         /\ h[t].section = "none"
  BY DEF LeaseInit, Init, Idle
<1>4. \A t \in Thread : HandlerServes(h[t], own)
  BY <1>3 DEF HandlerServes, ForAcquire, Activating
<1>5. \A r \in Request : /\ cl[r].phase = "acquire" /\ cl[r].call = None /\ mut[r] = {}
                          /\ Exec(r) = None
  BY JournalAssumption DEF LeaseInit, NewClient, Exec
<1>6. nextOp = 1 /\ \A o \in Op : ~(o < nextOp)
  BY DEF LeaseInit, Init, Op
<1>7. \A r \in Request : ClientServed(r, own)
  BY <1>3, <1>5, <1>6, JournalAssumption
     DEF ClientServed, CallServed, OwnOperation, Holds, MutationHeld, Alone, OneExecutor, StillQueued
<1>8. QED
  BY <1>1, <1>2, <1>4, <1>7 DEF Leases

-----------------------------------------------------------------------------
(* Steps of one handler, the providers standing still. *)

\* A claim that backs the lease a request has, or is just being told of.
Guarded(c, own) ==
    /\ Alive(c.pid) /\ c.boot = boot
    /\ LET r == own[c.op].req
       IN  \/ cl[r].phase = "mutate"
           \/ cl[r].phase = "acquire" /\ cl[r].call # None /\ h[cl[r].call].pc = "reply"

\* What the invariants say of handler t.
LEMMA LeaseFacts ==
    ASSUME NEW t \in Thread, NEW own, LockInv, Leases(own)
    PROVE  /\ h[t] \in Handler /\ HandlerOK(h[t]) /\ HandlerOwned(h[t], own)
           /\ HandlerServes(h[t], own)
           /\ h \in [Thread -> Handler] /\ DiskOwned(own)
BY OwnerFacts DEF Leases

\* What the step of a handler has to respect, the files apart.
Moves(t) ==
    /\ UNCHANGED <<boot, procs, exec, mut, cl, spent>>
    /\ h[t].pc # "idle" /\ h'[t].pc # "idle"
    /\ h'[t].pid = h[t].pid /\ h'[t].req = h[t].req
    /\ \A u \in Thread : u # t => h'[u] = h[u]
    /\ index' = index \/ h[t].pc \in Critical
    /\ claims \subseteq claims' \/ h[t].pc \in Critical
    /\ Late(h[t]) => Late(h'[t])

\* No guarded claim goes, and an entry that is not queued any more is that of
\* a dead process or the one the handler works on.
FilesMove(t, own) ==
    /\ \A c \in claims : c \in claims' \/ ~Guarded(c, own)
    /\ \A o \in Op : o < nextOp /\ files'[o] # None /\ files'[o].status # "queued" =>
         \/ files[o] # None /\ files[o].status # "queued"
         \/ ~Alive(own[o].pid)
         \/ h[t].op = o /\ Late(h'[t])

\* The requests do not notice such a step, but for the one that waits for t.
LEMMA MoveClients ==
    ASSUME NEW t \in Thread, NEW own \in Owners, NEW r \in Request,
           ProviderInv, Leases(own), Moves(t), FilesMove(t, own), nextOp' = nextOp,
           cl[r].call = t /\ cl[r].phase = "acquire" => CallOK(r, h[t])'
    PROVE  ClientServed(r, own)'
<1> USE DEF ProviderInv
<1>0. /\ ClientServed(r, own) /\ UNCHANGED <<boot, procs, exec, mut, cl, spent>>
      /\ cl[r].call \in Thread \cup {None}
      /\ Exec(r)' = Exec(r) /\ nextOp' = nextOp
  BY DEF Leases, Moves, Exec, LeaseTypeOK
<1>1. ASSUME NEW o \in Op, own[o].req = r, Backed(r, o),
             Alive(Exec(r)),
             \/ cl[r].phase = "mutate"
             \/ cl[r].phase = "acquire" /\ cl[r].call # None /\ h[cl[r].call].pc = "reply"
      PROVE  Backed(r, o)'
  <2> SUFFICES ASSUME NEW l \in LockSet(r) PROVE Claimed(r, o, l)'
    BY DEF Backed
  <2> DEFINE c == [op |-> o, pid |-> Exec(r), boot |-> boot, lock |-> l]
  <2>1. c \in claims /\ c.pid = Exec(r) /\ c.boot = boot /\ c.op = o
    BY <1>1 DEF Backed, Claimed
  <2>2. Guarded(c, own)
    BY <1>1, <2>1 DEF Guarded
  <2>3. c \in claims'
    BY <2>1, <2>2 DEF FilesMove
  <2>4. QED
    BY <1>0, <2>3 DEF Claimed
<1>2. CallServed(r)'
  <2> SUFFICES ASSUME cl[r].call # None PROVE CallServed(r)'
    BY <1>0 DEF CallServed
  <2>0. PICK u \in Thread : u = cl[r].call
    BY <1>0
  <2>1. CallServed(r)
    BY <1>0 DEF ClientServed
  <2>2. CASE u = t
    BY <1>0, <2>0, <2>1, <2>2 DEF CallServed, Moves
  <2>3. CASE u # t
    <3>1. h'[u] = h[u] /\ h[u].pc # "idle" /\ h[u].pid = Exec(r)
      BY <2>0, <2>1, <2>3 DEF Moves, CallServed
    <3>2. ASSUME cl[r].phase = "acquire", h[u].req = r, CallOK(r, h[u]) PROVE CallOK(r, h[u])'
      <4>1. /\ h[u].pc \in Critical => index' = index /\ claims \subseteq claims'
        BY <2>3 DEF Moves, LockInv, Mutex
      <4>2. h[u].section = "find" /\ h[u].pc \in Searching =>
              \A o \in Op : index'[o] # None /\ index'[o].req = r =>
                 o \in h[u].left \/ (h[u].pc = "drop" /\ h[u].cur = o) \/ index'[o].pid = h[u].pid
        BY <3>2, <4>1 DEF CallOK, Searching, Critical
      <4>3. h[u].pc = "claim" => \A l \in LockSet(r) : l \in h[u].todo \/ Claimed(r, h[u].op, l)'
        BY <1>0, <3>1, <3>2, <4>1 DEF CallOK, Claimed, Critical
      <4>4. h[u].pc = "reply" /\ h[u].res = "granted" => Backed(r, h[u].op)'
        <5> SUFFICES ASSUME h[u].pc = "reply", h[u].res = "granted" PROVE Backed(r, h[u].op)'
          OBVIOUS
        <5>1. PICK o \in Op : o = h[u].op /\ o # 0
          BY DEF Telling, Op
        <5>2. /\ HandlerServes(h[u], own) /\ HandlerOK(h[u]) /\ h[u].req # None
          BY <3>2, JournalAssumption, LeaseFacts
        <5>3. own[o].req = r /\ Alive(Exec(r)) /\ Backed(r, o)
          BY <3>1, <3>2, <5>1, <5>2 DEF HandlerServes, CallOK
        <5>4. Backed(r, o)'
          BY <1>1, <2>0, <3>2, <5>3
        <5>5. QED
          BY <3>1, <5>1, <5>4
      <4>5. QED
        BY <3>1, <3>2, <4>2, <4>3, <4>4 DEF CallOK
    <3>3. QED
      BY <1>0, <2>0, <2>1, <3>1, <3>2 DEF CallServed
  <2>4. QED
    BY <2>2, <2>3
<1>3. OwnOperation(r, own)'
  BY <1>0 DEF ClientServed, OwnOperation
<1>4. Holds(r)'
  <2> SUFFICES ASSUME cl[r].phase = "mutate" PROVE Holds(r)'
    BY <1>0 DEF Holds
  <2>1. /\ cl[r].pos # "failed" /\ Exec(r) # None /\ Alive(Exec(r)) /\ Backed(r, cl[r].op)
        /\ cl[r].op \in Op /\ own[cl[r].op].req = r
    BY <1>0 DEF ClientServed, Holds, OwnOperation, Told
  <2>2. Backed(r, cl[r].op)'
    BY <1>0, <1>1, <2>1
  <2>3. QED
    BY <1>0, <2>1, <2>2 DEF Holds, Alive
<1>5. MutationHeld(r)'
  BY <1>0 DEF ClientServed, MutationHeld
<1>6. Alone(r)'
  BY <1>0 DEF ClientServed, Alone, Wants, Moves
<1>7. OneExecutor(r, own)'
  BY <1>0 DEF ClientServed, OneExecutor, Wants, Alive
<1>8. StillQueued(r, own)'
  <2> SUFFICES ASSUME cl[r].phase = "acquire", cl[r].pos # "failed", Exec(r) # None, Alive(Exec(r)),
                      NEW o \in Op, o < nextOp, own[o].req = r, own[o].pid = Exec(r),
                      files'[o] # None, files'[o].status # "queued"
               PROVE  cl[r].call # None /\ Late(h'[cl[r].call])
    BY <1>0 DEF StillQueued, Alive
  <2>1. CASE files[o] # None /\ files[o].status # "queued"
    <3>1. cl[r].call # None /\ Late(h[cl[r].call])
      BY <1>0, <2>1 DEF ClientServed, StillQueued
    <3>2. QED
      BY <1>0, <3>1 DEF Moves
  <2>2. CASE h[t].op = o /\ Late(h'[t])
    <3>1. HandlerServes(h[t], own) /\ h[t].pc # "idle" /\ h[t].op # 0
      BY <2>2, LeaseFacts DEF Moves, Op
    <3>2. h[t].req = r
      BY <2>2, <3>1 DEF HandlerServes
    <3>3. cl[r].call = t
      BY <1>0, <3>2 DEF ClientServed, Alone, Wants
    <3>4. QED
      BY <2>2, <3>3, JournalAssumption
  <2>3. QED
    BY <2>1, <2>2 DEF FilesMove
<1>9. QED
  BY <1>2, <1>3, <1>4, <1>5, <1>6, <1>7, <1>8 DEF ClientServed

\* A step of a handler that creates no operation keeps the leases.
LEMMA MoveKeeps ==
    ASSUME NEW t \in Thread, NEW own \in Owners,
           ProviderInv, Leases(own), Moves(t), FilesMove(t, own), nextOp' = nextOp, OwnedBy(own)', IndexOK',
           HandlerServes(h[t], own)',
           \A r \in Request : cl[r].call = t /\ cl[r].phase = "acquire" => CallOK(r, h[t])'
    PROVE  Leases(own)'
<1>1. OwnersOK(own)' /\ ExecsOK'
  BY DEF Leases, Moves, OwnersOK, ExecsOK, Alive
<1>2. ASSUME NEW u \in Thread, u # t PROVE HandlerServes(h[u], own)'
  <2>1. h'[u] = h[u] /\ HandlerServes(h[u], own)
    BY <1>2 DEF Moves, Leases
  <2>2. h[u].pc \in {"sweep", "drop", "purge"} => index' = index
    BY <1>2 DEF Moves, ProviderInv, LockInv, Mutex, Critical
  <2>3. QED
    BY <2>1, <2>2 DEF Moves, HandlerServes, Alive
<1>3. \A r \in Request : ClientServed(r, own)'
  BY MoveClients
<1>4. QED
  BY <1>1, <1>2, <1>3 DEF Leases

\* A step that changes no file, but perhaps the admission lock.
LEMMA QuietKeeps ==
    ASSUME NEW t \in Thread, NEW own \in Owners,
           ProviderInv, Leases(own), OwnedBy(own)',
           UNCHANGED <<boot, procs, nextOp, files, index, claims, exec, mut, cl, spent>>,
           h[t].pc # "idle", h'[t].pc # "idle", h'[t].pid = h[t].pid, h'[t].req = h[t].req,
           \A u \in Thread : u # t => h'[u] = h[u],
           Late(h[t]) => Late(h'[t]),
           HandlerServes(h[t], own)',
           \A r \in Request : cl[r].call = t /\ cl[r].phase = "acquire" => CallOK(r, h[t])'
    PROVE  Leases(own)'
<1>1. Moves(t) /\ FilesMove(t, own) /\ IndexOK'
  BY DEF Moves, FilesMove, Leases, IndexOK
<1>2. QED
  BY <1>1, MoveKeeps

\* What is known of the request that waits for handler t.
LEMMA CallFacts ==
    ASSUME NEW t \in Thread, NEW own, NEW r \in Request, Leases(own),
           cl[r].call = t, cl[r].phase = "acquire"
    PROVE  /\ cl[r].pos = "calling" /\ h[t].req = r /\ CallOK(r, h[t])
           /\ h[t].pid = Exec(r) /\ ClientServed(r, own)
BY JournalAssumption DEF Leases, ClientServed, CallServed

\* Steps to the first critical section and through its sweep.
LEMMA FindKeeps ==
    ASSUME NEW t \in Thread, NEW own \in Owners,
           ProviderInv, Leases(own), OwnedBy(own)', UNCHANGED <<exec, mut, cl, spent>>,
           FindLock(t) \/ SweepSkip(t) \/ SweepDone(t) \/ ActivateLock(t)
    PROVE  Leases(own)'
<1>0. /\ h[t] \in Handler /\ HandlerOK(h[t]) /\ HandlerServes(h[t], own)
      /\ h \in [Thread -> Handler] /\ DiskOwned(own)
  BY LeaseFacts DEF ProviderInv
<1>1. UNCHANGED <<boot, procs, nextOp, files, index, claims>>
  BY DEF FindLock, SweepSkip, SweepDone, ActivateLock, host, disk
<1>2. \A r \in Request : Exec(r)' = Exec(r)
  BY DEF Exec
<1>3. CASE FindLock(t)
  <2>1. h[t].pc = "find" /\ Becomes(t, "sweep", "find", h[t].op, h[t].ent, readHostOperationIndexes,
                                    h[t].cur, h[t].todo, h[t].res)
    BY <1>0, <1>3, FindMoves DEF FindLock
  <2>2. HandlerServes(h[t], own)'
    BY <1>0, <1>1, <2>1 DEF Becomes, HandlerServes, ForAcquire, Activating, Alive, readHostOperationIndexes
  <2>3. ASSUME NEW r \in Request, cl[r].call = t, cl[r].phase = "acquire" PROVE CallOK(r, h[t])'
    BY <1>0, <1>1, <2>1 DEF Becomes, CallOK, WithEntry, Activating, readHostOperationIndexes
  <2>4. QED
    BY <1>1, <2>1, <2>2, <2>3, QuietKeeps DEF Becomes, Late
<1>4. CASE ActivateLock(t)
  <2>1. h[t].pc = "check" /\ Becomes(t, "sweep", "activate", h[t].op, h[t].ent, readHostOperationIndexes,
                                     h[t].cur, h[t].todo, h[t].res)
    BY <1>0, <1>4, ActivateMoves DEF ActivateLock
  <2>2. HandlerServes(h[t], own)'
    BY <1>0, <1>1, <2>1 DEF Becomes, HandlerServes, ForAcquire, Activating, Alive, readHostOperationIndexes
  <2>3. ASSUME NEW r \in Request, cl[r].call = t, cl[r].phase = "acquire" PROVE CallOK(r, h[t])'
    <3>1. CallOK(r, h[t])
      BY <2>3, CallFacts
    <3>2. QED
      BY <2>1, <3>1 DEF Becomes, CallOK, WithEntry, Activating
  <2>4. QED
    BY <1>1, <2>1, <2>2, <2>3, QuietKeeps DEF Becomes, Late
<1>5. CASE SweepDone(t)
  <2>1. /\ h[t].pc = "sweep" /\ h[t].left = {}
        /\ Becomes(t, IF h[t].section = "find" THEN "lookup" ELSE "conflicts",
                   h[t].section, h[t].op, h[t].ent, h[t].left, h[t].cur, h[t].todo, h[t].res)
    BY <1>0, <1>5, SweepMoves DEF SweepDone
  <2>2. HandlerServes(h[t], own)'
    BY <1>0, <1>1, <2>1 DEF Becomes, HandlerServes, ForAcquire, Activating, Alive
  <2>3. ASSUME NEW r \in Request, cl[r].call = t, cl[r].phase = "acquire" PROVE CallOK(r, h[t])'
    <3>1. CallOK(r, h[t]) /\ h[t].section \in {"find", "activate"}
      BY <1>0, <2>1, <2>3, CallFacts DEF HandlerOK
    <3>2. QED
      BY <1>1, <2>1, <3>1 DEF Becomes, CallOK, WithEntry, Activating, Searching
  <2>4. QED
    BY <1>1, <2>1, <2>2, <2>3, QuietKeeps DEF Becomes, Late
<1>6. CASE SweepSkip(t)
  <2>1. PICK o \in h[t].left :
            /\ ~staleHostEntry(o, SweepOwner(t))
            /\ Becomes(t, h[t].pc, h[t].section, h[t].op, h[t].ent, h[t].left \ {o},
                       h[t].cur, h[t].todo, h[t].res)
    BY <1>0, <1>6, SweepMoves
  <2>2. h[t].pc = "sweep" /\ o \in Op
    BY <1>0, <1>6, <2>1 DEF SweepSkip, Handler
  <2>3. HandlerServes(h[t], own)'
    BY <1>0, <1>1, <2>1, <2>2 DEF Becomes, HandlerServes, ForAcquire, Activating, Alive
  <2>4. ASSUME NEW r \in Request, cl[r].call = t, cl[r].phase = "acquire" PROVE CallOK(r, h[t])'
    <3>1. CallOK(r, h[t]) /\ h[t].pid = Exec(r) /\ OneExecutor(r, own)
      BY <2>4, CallFacts DEF ClientServed
    <3>2. ASSUME index[o] # None, index[o].req = r, h[t].section = "find" PROVE index[o].pid = h[t].pid
      <4>1. isActiveOperationStatus(index[o].status)
        BY <2>2, <3>2 DEF Leases, IndexOK
      <4>2. o < nextOp /\ own[o].req = r /\ own[o].pid = index[o].pid /\ index[o].boot = boot
        BY <1>0, <2>2, <3>2 DEF DiskOwned, Names, Leases, OwnersOK
      <4>3. CASE index[o].pid = SweepOwner(t)
        BY <3>2, <4>3 DEF SweepOwner
      <4>4. CASE operationJournalOwnerActive(index[o].pid, index[o].boot)
        <5>1. Alive(own[o].pid)
          BY <4>2, <4>4 DEF operationJournalOwnerActive, processExists, Alive
        <5>2. QED
          BY <2>2, <2>4, <3>1, <4>2, <5>1 DEF OneExecutor, Wants
      <4>5. QED
        BY <2>1, <4>1, <4>3, <4>4 DEF staleHostEntry
    <3>3. QED
      BY <1>1, <2>1, <2>2, <3>1, <3>2 DEF Becomes, CallOK, WithEntry, Activating, Searching
  <2>5. QED
    BY <1>1, <2>1, <2>2, <2>3, <2>4, QuietKeeps DEF Becomes, Late
<1>7. QED
  BY <1>3, <1>4, <1>5, <1>6

\* An Acquire that waits for its answer finds no entry but a queued one of its own
\* process.
LEMMA LookupKeeps ==
    ASSUME NEW t \in Thread, NEW own \in Owners,
           ProviderInv, Leases(own), OwnedBy(own)', UNCHANGED <<exec, mut, cl, spent>>,
           LookupHit(t)
    PROVE  Leases(own)'
<1>0. /\ h[t] \in Handler /\ HandlerOK(h[t]) /\ HandlerServes(h[t], own)
      /\ h \in [Thread -> Handler] /\ DiskOwned(own)
  BY LeaseFacts DEF ProviderInv
<1>1. UNCHANGED <<boot, procs, nextOp, files, index, claims>> /\ h[t].pc = "lookup"
  BY DEF LookupHit, host, disk
<1>2. PICK o \in Op :
          /\ index[o] # None /\ index[o].req = h[t].req /\ readOperation(h[t].pid, o)
          /\ Becomes(t, "check", "none", o, files[o], h[t].left, h[t].cur, h[t].todo, h[t].res)
  BY <1>0, FindMoves
<1>3. /\ h[t].section = "find" /\ files[o] # None /\ o < nextOp
      /\ own[o].req = h[t].req /\ index[o].pid = own[o].pid /\ files[o].pid = own[o].pid
  BY <1>0, <1>1, <1>2 DEF HandlerOK, DiskOwned, Names
<1>4. HandlerServes(h[t], own)'
  BY <1>0, <1>1, <1>2, <1>3 DEF Becomes, HandlerServes, ForAcquire, Activating, Alive
<1>5. ASSUME NEW r \in Request, cl[r].call = t, cl[r].phase = "acquire" PROVE CallOK(r, h[t])'
  <2>1. /\ CallOK(r, h[t]) /\ h[t].req = r /\ h[t].pid = Exec(r) /\ StillQueued(r, own)
        /\ cl[r].pos = "calling"
    BY <1>5, CallFacts DEF ClientServed
  <2>2. files[o].pid = h[t].pid
    BY <1>1, <1>2, <1>3, <2>1 DEF CallOK, Searching
  <2>3. h[t].pid \in Pid /\ Alive(h[t].pid) /\ ~Late(h[t])
    BY <1>0, <1>1 DEF HandlerOK, HandlerServes, Late
  <2>4. files[o].status = "queued"
    BY <1>3, <1>5, <2>1, <2>2, <2>3, JournalAssumption DEF StillQueued
  <2>5. QED
    BY <1>2, <2>2, <2>4 DEF Becomes, CallOK, WithEntry, Activating
<1>6. QED
  BY <1>1, <1>2, <1>4, <1>5, QuietKeeps DEF Becomes, Late

\* Answers.  One that grants an Acquire somebody waits for comes after its last
\* claim.
LEMMA AnswerKeeps ==
    ASSUME NEW t \in Thread, NEW own \in Owners,
           ProviderInv, Leases(own), OwnedBy(own)',
           UNCHANGED <<boot, procs, nextOp, files, index, claims, exec, mut, cl, spent>>,
           NEW res, Answers(t, res), h[t].pc # "idle",
           res \in {"granted", "queued"} => h[t].req # None,
           Late(h[t]) => res # "queued",
           \A r \in Request : cl[r].call = t /\ cl[r].phase = "acquire" /\ res = "granted" =>
               Backed(r, h[t].op)
    PROVE  Leases(own)'
<1>0. HandlerServes(h[t], own)
  BY LeaseFacts DEF ProviderInv
<1>1. HandlerServes(h[t], own)'
  BY <1>0 DEF Answers, Becomes, HandlerServes, ForAcquire, Activating, Alive
<1>2. ASSUME NEW r \in Request, cl[r].call = t, cl[r].phase = "acquire" PROVE CallOK(r, h[t])'
  <2>1. res = "granted" => \A l \in LockSet(r) : Claimed(r, h[t].op, l)
    BY <1>2 DEF Backed
  <2>2. h'[t].op = h[t].op /\ Exec(r)' = Exec(r)
    BY DEF Answers, Becomes, Exec
  <2>3. res = "granted" => Backed(r, h[t].op)'
    BY <2>1, <2>2 DEF Claimed, Backed
  <2>4. QED
    BY <2>3 DEF Answers, Becomes, CallOK, WithEntry, Activating, Searching
<1>3. QED
  BY <1>1, <1>2, QuietKeeps DEF Answers, Becomes, Late

\* An entry found queued is granted only after its last claim.
LEMMA GrantKeeps ==
    ASSUME NEW t \in Thread, NEW own \in Owners,
           ProviderInv, Leases(own), OwnedBy(own)', UNCHANGED <<exec, mut, cl, spent>>,
           GrantRunning(t) \/ GrantActivated(t)
    PROVE  Leases(own)'
<1>0. /\ h[t] \in Handler /\ HandlerOK(h[t]) /\ HandlerServes(h[t], own)
      /\ h \in [Thread -> Handler]
  BY LeaseFacts DEF ProviderInv
<1>1. UNCHANGED <<boot, procs, nextOp, files, index, claims>>
  BY DEF GrantRunning, GrantActivated, host, disk
<1>2. Answers(t, "granted") /\ h[t].pc \in {"check", "claim"}
  BY <1>0, ActivateMoves DEF GrantRunning, GrantActivated
<1>3. h[t].req # None
  BY <1>0, <1>2 DEF HandlerServes, ForAcquire, HandlerOK
<1>4. ASSUME NEW r \in Request, cl[r].call = t, cl[r].phase = "acquire" PROVE Backed(r, h[t].op)
  <2>1. CallOK(r, h[t])
    BY <1>4, CallFacts
  <2>2. h[t].pc = "claim" /\ h[t].todo = {}
    BY <2>1 DEF CallOK, GrantRunning, GrantActivated
  <2>3. QED
    BY <2>1, <2>2 DEF CallOK, Backed
<1>5. QED
  BY <1>1, <1>2, <1>3, <1>4, AnswerKeeps

\* Finalize before it writes, an Acquire whose caller went away, and a failed write.
LEMMA FinalKeeps ==
    ASSUME NEW t \in Thread, NEW own \in Owners,
           ProviderInv, Leases(own), OwnedBy(own)', UNCHANGED <<exec, mut, cl, spent>>,
           \/ FinalRead(t) \/ FinalLock(t) \/ IOError(t)
           \/ CancelAcquire(t) /\ \A r \in Request : cl[r].call # t
    PROVE  Leases(own)'
<1>0. /\ h[t] \in Handler /\ HandlerOK(h[t]) /\ HandlerServes(h[t], own)
      /\ h \in [Thread -> Handler] /\ DiskOwned(own)
  BY LeaseFacts DEF ProviderInv
<1>1. UNCHANGED <<boot, procs, nextOp, files, index, claims>>
  BY DEF FinalRead, FinalLock, IOError, CancelAcquire, host, disk
<1>2. ASSUME Answers(t, "error"), h[t].pc # "idle" PROVE Leases(own)'
  BY <1>1, <1>2, AnswerKeeps
<1>3. ASSUME NEW pc \in {"read", "finalize", "finalFile"}, NEW section \in {"none", "finalize"},
             NEW ent, NEW left, NEW todo, h[t].pc # "idle",
             Becomes(t, pc, section, h[t].op, ent, left, h[t].cur, todo, h[t].res)
      PROVE  Leases(own)'
  <2>1. HandlerServes(h[t], own)'
    BY <1>0, <1>1, <1>3 DEF Becomes, HandlerServes, ForAcquire, Activating, Alive
  <2>2. \A r \in Request : CallOK(r, h[t])'
    BY <1>3 DEF Becomes, CallOK, WithEntry, Activating, Searching
  <2>3. QED
    BY <1>1, <1>3, <2>1, <2>2, QuietKeeps DEF Becomes, Late
<1>4. CASE FinalLock(t)
  BY <1>0, <1>3, <1>4, FinalMoves DEF FinalLock
<1>5. CASE CancelAcquire(t)
  BY <1>0, <1>3, <1>5, ActivateMoves DEF CancelAcquire
<1>6. CASE IOError(t)
  BY <1>0, <1>2, <1>3, <1>6, FinalMoves DEF IOError
<1>7. CASE FinalRead(t)
  <2>1. h[t].pc = "read"
    BY <1>7 DEF FinalRead
  <2>2. CASE Becomes(t, "finalize", h[t].section, h[t].op, files[h[t].op], h[t].left,
                     h[t].cur, h[t].todo, h[t].res)
    <3>1. HandlerServes(h[t], own)'
      BY <1>0, <1>1, <2>1, <2>2 DEF Becomes, HandlerServes, ForAcquire, Activating, Alive
    <3>2. \A r \in Request : CallOK(r, h[t])'
      BY <2>2 DEF Becomes, CallOK, WithEntry, Activating, Searching
    <3>3. QED
      BY <1>1, <2>1, <2>2, <3>1, <3>2, QuietKeeps DEF Becomes, Late
  <2>3. QED
    BY <1>0, <1>2, <1>7, <2>1, <2>2, FinalMoves
<1>8. QED
  BY <1>4, <1>5, <1>6, <1>7

\* The copy of its entry that a handler writes to the index is of an active entry.
LEMMA IndexKeeps ==
    ASSUME NEW t \in Thread, NEW own \in Owners,
           ProviderInv, Leases(own), OwnedBy(own)', UNCHANGED <<exec, mut, cl, spent>>,
           CreateIndex(t) \/ RunIndex(t)
    PROVE  Leases(own)'
<1>0. /\ h[t] \in Handler /\ HandlerOK(h[t]) /\ HandlerServes(h[t], own)
      /\ h \in [Thread -> Handler] /\ index \in [Op -> Entry \cup {None}]
  BY LeaseFacts DEF ProviderInv, LockInv, TypeOK
<1>1. /\ UNCHANGED <<boot, procs, nextOp, files, claims>>
      /\ h[t].pc \in {"createIndex", "runIndex"}
      /\ index' = [index EXCEPT ![h[t].op] = h[t].ent]
  BY DEF CreateIndex, RunIndex, host
<1>2. h[t].op \in Op /\ isActiveOperationStatus(h[t].ent.status)
  BY <1>0, <1>1 DEF HandlerOK, HasEntry, HandlerServes, Activating, isActiveOperationStatus
<1>3. IndexOK'
  <2> SUFFICES ASSUME NEW o \in Op, index'[o] # None PROVE isActiveOperationStatus(index'[o].status)
    BY DEF IndexOK
  <2>1. CASE o = h[t].op
    BY <1>0, <1>1, <1>2, <2>1
  <2>2. CASE o # h[t].op
    <3>1. index'[o] = index[o]
      BY <1>0, <1>1, <1>2, <2>2
    <3>2. QED
      BY <2>2, <3>1 DEF Leases, IndexOK
  <2>3. QED
    BY <2>1, <2>2
<1>4. /\ CreateIndex(t) => Becomes(t, "check", "none", h[t].op, h[t].ent, h[t].left, h[t].cur,
                                  h[t].todo, h[t].res)
      /\ RunIndex(t) => Becomes(t, "claim", h[t].section, h[t].op, h[t].ent, h[t].left, h[t].cur,
                               h[t].todo, h[t].res)
  BY <1>0, FindMoves, ActivateMoves
<1>5. /\ CreateIndex(t) => h[t].pc = "createIndex" /\ h[t].section = "find"
      /\ RunIndex(t) => h[t].pc = "runIndex" /\ h[t].section = "activate"
  BY <1>0 DEF CreateIndex, RunIndex, HandlerOK
<1>6. HandlerServes(h[t], own)'
  BY <1>0, <1>1, <1>4, <1>5 DEF Becomes, HandlerServes, ForAcquire, Activating, Alive
<1>7. Moves(t) /\ FilesMove(t, own)
  BY <1>1, <1>4, <1>5 DEF Becomes, Moves, FilesMove, Critical, Late
<1>8. ASSUME NEW r \in Request, cl[r].call = t, cl[r].phase = "acquire" PROVE CallOK(r, h[t])'
  <2>1. CallOK(r, h[t]) /\ h[t].req = r
    BY <1>8, CallFacts
  <2>2. CASE CreateIndex(t)
    BY <1>0, <1>1, <1>4, <1>5, <2>1, <2>2
       DEF Becomes, CallOK, WithEntry, Activating, Searching, HandlerServes
  <2>3. CASE RunIndex(t)
    BY <1>1, <1>4, <1>5, <2>1, <2>3 DEF Becomes, CallOK, WithEntry, Activating, Searching
  <2>4. QED
    BY <2>2, <2>3
<1>9. QED
  BY <1>1, <1>3, <1>6, <1>7, <1>8, MoveKeeps

\* A sweep marks only entries whose owner is dead.
LEMMA AbandonKeeps ==
    ASSUME NEW t \in Thread, NEW own \in Owners,
           ProviderInv, Leases(own), OwnedBy(own)', UNCHANGED <<exec, mut, cl, spent>>,
           AbandonFile(t)
    PROVE  Leases(own)'
<1>0. /\ h[t] \in Handler /\ HandlerOK(h[t]) /\ HandlerServes(h[t], own)
      /\ h \in [Thread -> Handler] /\ DiskOwned(own)
      /\ files \in [Op -> Entry \cup {None}]
  BY LeaseFacts DEF ProviderInv, LockInv, TypeOK
<1>1. UNCHANGED <<boot, procs, nextOp, index, claims>> /\ h[t].pc = "sweep"
  BY DEF AbandonFile, host
<1>2. PICK o \in h[t].left :
          /\ staleHostEntry(o, SweepOwner(t))
          /\ files' = IF readOperation(h[t].pid, o)
                        THEN [files EXCEPT ![o].status = "abandoned"]
                        ELSE files
          /\ Becomes(t, "drop", h[t].section, h[t].op, h[t].ent, h[t].left \ {o}, o,
                     h[t].todo, h[t].res)
  BY <1>0, SweepMoves
<1>3. h[t].section \in {"find", "activate"} /\ o \in Op /\ index[o] # None
  BY <1>0, <1>1, <1>2 DEF HandlerOK, Handler, HandlerServes
<1>4. o < nextOp /\ own[o].pid = index[o].pid /\ index[o].boot = boot
  BY <1>0, <1>3 DEF DiskOwned, Names, Leases, OwnersOK
<1>5. ~Alive(own[o].pid)
  BY <1>2, <1>4 DEF staleHostEntry, operationJournalOwnerActive, processExists, Alive
<1>6. HandlerServes(h[t], own)'
  BY <1>0, <1>1, <1>2, <1>3, <1>4, <1>5 DEF Becomes, HandlerServes, ForAcquire, Activating, Alive
<1>7. \A q \in Op : q # o => files'[q] = files[q]
  BY <1>0, <1>2
<1>8. Moves(t) /\ FilesMove(t, own) /\ IndexOK'
  <2>1. Moves(t)
    BY <1>1, <1>2 DEF Becomes, Moves, Late
  <2>2. FilesMove(t, own)
    BY <1>1, <1>5, <1>7 DEF FilesMove
  <2>3. IndexOK'
    BY <1>1 DEF Leases, IndexOK
  <2>4. QED
    BY <2>1, <2>2, <2>3
<1>9. ASSUME NEW r \in Request, cl[r].call = t, cl[r].phase = "acquire" PROVE CallOK(r, h[t])'
  <2>1. CallOK(r, h[t])
    BY <1>9, CallFacts
  <2>2. QED
    BY <1>1, <1>2, <1>3, <2>1 DEF Becomes, CallOK, WithEntry, Activating, Searching
<1>10. QED
  BY <1>1, <1>6, <1>8, <1>9, MoveKeeps

\* The other writers of an entry write the one they work on, and past it their
\* call is late; a sweep deletes the file of an operation that has no index.
LEMMA FileKeeps ==
    ASSUME NEW t \in Thread, NEW own \in Owners,
           ProviderInv, Leases(own), OwnedBy(own)', UNCHANGED <<exec, mut, cl, spent>>,
           PurgeFile(t) \/ RunFile(t) \/ FinalFile(t)
    PROVE  Leases(own)'
<1>0. /\ h[t] \in Handler /\ HandlerOK(h[t]) /\ HandlerServes(h[t], own)
      /\ h \in [Thread -> Handler] /\ files \in [Op -> Entry \cup {None}]
  BY LeaseFacts DEF ProviderInv, LockInv, TypeOK
<1>1. /\ UNCHANGED <<boot, procs, nextOp, index, claims>>
      /\ h[t].pc \in {"purge", "runFile", "finalFile"}
  BY DEF PurgeFile, RunFile, FinalFile, host
<1>2. IndexOK'
  BY <1>1 DEF Leases, IndexOK
<1>3. CASE PurgeFile(t)
  <2>1. /\ h[t].pc = "purge" /\ files' = [files EXCEPT ![h[t].cur] = None]
        /\ Becomes(t, "sweep", h[t].section, h[t].op, h[t].ent, h[t].left, 0, h[t].todo, h[t].res)
        /\ h[t].section \in {"find", "activate"}
    BY <1>0, <1>3, SweepMoves DEF PurgeFile, HandlerOK
  <2>2. HandlerServes(h[t], own)'
    BY <1>0, <1>1, <2>1 DEF Becomes, HandlerServes, ForAcquire, Activating, Alive
  <2>3. \A o \in Op : files'[o] = files[o] \/ files'[o] = None
    BY <1>0, <2>1
  <2>4. Moves(t) /\ FilesMove(t, own)
    BY <1>1, <2>1, <2>3 DEF Becomes, Moves, FilesMove, Late
  <2>5. ASSUME NEW r \in Request, cl[r].call = t, cl[r].phase = "acquire" PROVE CallOK(r, h[t])'
    <3>1. CallOK(r, h[t])
      BY <2>5, CallFacts
    <3>2. QED
      BY <1>1, <2>1, <3>1 DEF Becomes, CallOK, WithEntry, Activating, Searching
  <2>6. QED
    BY <1>1, <1>2, <2>2, <2>4, <2>5, MoveKeeps
<1>4. CASE RunFile(t)
  <2>1. /\ h[t].pc = "runFile" /\ files' = [files EXCEPT ![h[t].op] = h[t].ent]
        /\ Becomes(t, "runIndex", h[t].section, h[t].op, h[t].ent, h[t].left, h[t].cur,
                   h[t].todo, h[t].res)
    BY <1>0, <1>4, ActivateMoves DEF RunFile
  <2>2. HandlerServes(h[t], own)'
    BY <1>0, <1>1, <2>1 DEF Becomes, HandlerServes, ForAcquire, Activating, Alive
  <2>3. \A o \in Op : files'[o] = files[o] \/ h[t].op = o
    BY <1>0, <2>1
  <2>4. Moves(t) /\ FilesMove(t, own)
    BY <1>1, <2>1, <2>3 DEF Becomes, Moves, FilesMove, Late
  <2>5. ASSUME NEW r \in Request, cl[r].call = t, cl[r].phase = "acquire" PROVE CallOK(r, h[t])'
    <3>1. CallOK(r, h[t])
      BY <2>5, CallFacts
    <3>2. QED
      BY <1>1, <2>1, <3>1 DEF Becomes, CallOK, WithEntry, Activating, Searching
  <2>6. QED
    BY <1>1, <1>2, <2>2, <2>4, <2>5, MoveKeeps
<1>5. CASE FinalFile(t)
  <2>1. /\ h[t].pc = "finalFile" /\ h[t].section = "finalize"
        /\ files' = [files EXCEPT ![h[t].op] = [h[t].ent EXCEPT !.status = "finished"]]
        /\ Becomes(t, "drop", h[t].section, h[t].op, h[t].ent, h[t].left, h[t].op,
                   h[t].todo, h[t].res)
    BY <1>0, <1>5, FinalMoves DEF FinalFile, HandlerOK
  <2>2. HandlerServes(h[t], own)'
    BY <1>0, <1>1, <2>1 DEF Becomes, HandlerServes, ForAcquire, Activating, Alive
  <2>3. \A o \in Op : files'[o] = files[o] \/ h[t].op = o
    BY <1>0, <2>1
  <2>4. Moves(t) /\ FilesMove(t, own)
    BY <1>1, <2>1, <2>3 DEF Becomes, Moves, FilesMove, Late
  <2>5. \A r \in Request : CallOK(r, h[t])'
    BY <2>1 DEF Becomes, CallOK, WithEntry, Activating
  <2>6. QED
    BY <1>1, <1>2, <2>2, <2>4, <2>5, MoveKeeps
<1>6. QED
  BY <1>3, <1>4, <1>5

\* The claims that go are those of a dead owner or of an operation whose request
\* is through with it.
LEMMA DropKeeps ==
    ASSUME NEW t \in Thread, NEW own \in Owners,
           ProviderInv, Leases(own), OwnedBy(own)', UNCHANGED <<exec, mut, cl, spent>>,
           DropClaim(t)
    PROVE  Leases(own)'
<1>0. /\ h[t] \in Handler /\ HandlerOK(h[t]) /\ HandlerServes(h[t], own)
      /\ h \in [Thread -> Handler] /\ DiskOwned(own) /\ claims \subseteq Claim
  BY LeaseFacts DEF ProviderInv, LockInv, TypeOK
<1>1. /\ UNCHANGED <<boot, procs, nextOp, files, index, h>> /\ h[t].pc = "drop"
  BY DEF DropClaim, host
<1>2. PICK d \in claims : d.op = h[t].cur /\ claims' = claims \ {d}
  BY DEF DropClaim
<1>3. d.op \in Op /\ d.pid = own[d.op].pid /\ h[t].cur # 0
  BY <1>0, <1>2 DEF DiskOwned, Claim, Op
<1>4. ~Guarded(d, own)
  <2> SUFFICES ASSUME Guarded(d, own) PROVE FALSE
    OBVIOUS
  <2>1. h[t].section = "finalize" /\ h[t].op = d.op
    BY <1>0, <1>1, <1>2, <1>3 DEF HandlerServes, Guarded
  <2>2. own[d.op].req \in Request
    BY <1>0, <1>1, <1>2, <1>3 DEF DiskOwned, Leases, OwnersOK, Owner
  <2>3. PICK r \in Request : r = own[d.op].req
    BY <2>2
  <2>4. h[t].req = r
    BY <1>0, <1>1, <1>3, <2>1, <2>3 DEF HandlerServes, Guarded, Op
  <2>5. Alone(r) /\ Holds(r) /\ CallServed(r)
    BY DEF Leases, ClientServed
  <2>6. CASE cl[r].phase = "mutate"
    BY <2>4, <2>5, <2>6, JournalAssumption DEF Alone, Wants, Holds, CallServed
  <2>7. CASE cl[r].phase = "acquire" /\ cl[r].call # None /\ h[cl[r].call].pc = "reply"
    BY <1>1, <2>4, <2>5, <2>7 DEF Alone, Wants, CallServed
  <2>8. QED
    BY <2>3, <2>6, <2>7 DEF Guarded
<1>5. Moves(t) /\ FilesMove(t, own) /\ IndexOK'
  <2>1. Moves(t)
    BY <1>1 DEF Moves, Critical
  <2>2. FilesMove(t, own)
    BY <1>1, <1>2, <1>4 DEF FilesMove
  <2>3. IndexOK'
    BY <1>1 DEF Leases, IndexOK
  <2>4. QED
    BY <2>1, <2>2, <2>3
<1>6. HandlerServes(h[t], own)'
  BY <1>0, <1>1 DEF HandlerServes, Alive
<1>7. ASSUME NEW r \in Request, cl[r].call = t, cl[r].phase = "acquire" PROVE CallOK(r, h[t])'
  <2>1. CallOK(r, h[t])
    BY <1>7, CallFacts
  <2>2. QED
    BY <1>1, <2>1 DEF CallOK
<1>8. QED
  BY <1>1, <1>5, <1>6, <1>7, MoveKeeps

\* The index that goes is that of the entry a sweep or a finalize takes away.
LEMMA UnindexKeeps ==
    ASSUME NEW t \in Thread, NEW own \in Owners,
           ProviderInv, Leases(own), OwnedBy(own)', UNCHANGED <<exec, mut, cl, spent>>,
           DropIndex(t) \/ FinalIndex(t)
    PROVE  Leases(own)'
<1>0. /\ h[t] \in Handler /\ HandlerOK(h[t]) /\ HandlerServes(h[t], own)
      /\ h \in [Thread -> Handler] /\ index \in [Op -> Entry \cup {None}]
  BY LeaseFacts DEF ProviderInv, LockInv, TypeOK
<1>1. /\ UNCHANGED <<boot, procs, nextOp, files, claims>> /\ h[t].pc = "drop"
      /\ index' = [index EXCEPT ![h[t].cur] = None] /\ h[t].cur \in Op
  BY <1>0 DEF DropIndex, FinalIndex, host, HandlerOK
<1>2. index'[h[t].cur] = None /\ \A o \in Op : o # h[t].cur => index'[o] = index[o]
  BY <1>0, <1>1
<1>3. IndexOK'
  BY <1>2 DEF Leases, IndexOK
<1>4. CASE DropIndex(t)
  <2>1. /\ h[t].section \in {"find", "activate"}
        /\ \/ Becomes(t, "sweep", h[t].section, h[t].op, h[t].ent, h[t].left, 0,
                      h[t].todo, h[t].res)
           \/ Becomes(t, "purge", h[t].section, h[t].op, h[t].ent, h[t].left, h[t].cur,
                      h[t].todo, h[t].res)
    BY <1>0, <1>1, <1>4, SweepMoves DEF DropIndex, HandlerOK
  <2>2. \A o \in h[t].left : o \in Op /\ o # h[t].cur /\ index'[o] # None
    BY <1>0, <1>1, <1>2, <2>1 DEF HandlerServes, Handler
  <2>3. HandlerServes(h[t], own)'
    BY <1>0, <1>1, <2>1, <2>2 DEF Becomes, HandlerServes, ForAcquire, Activating, Alive
  <2>4. Moves(t) /\ FilesMove(t, own)
    BY <1>1, <2>1 DEF Becomes, Moves, FilesMove, Critical, Late
  <2>5. ASSUME NEW r \in Request, cl[r].call = t, cl[r].phase = "acquire" PROVE CallOK(r, h[t])'
    <3>1. CallOK(r, h[t])
      BY <2>5, CallFacts
    <3>2. h[t].section = "find" =>
            \A o \in Op : index'[o] # None /\ index'[o].req = r =>
               o \in h[t].left \/ index'[o].pid = h[t].pid
      BY <1>1, <1>2, <3>1 DEF CallOK, Searching
    <3>3. QED
      BY <1>1, <2>1, <3>1, <3>2 DEF Becomes, CallOK, WithEntry, Activating, Searching
  <2>6. QED
    BY <1>1, <1>3, <2>3, <2>4, <2>5, MoveKeeps
<1>5. CASE FinalIndex(t)
  <2>1. Answers(t, FinalAnswer(t)) /\ FinalAnswer(t) \in {"released", "error"}
    BY <1>0, <1>5, FinalMoves DEF FinalAnswer
  <2>2. HandlerServes(h[t], own)'
    BY <1>0, <1>1, <2>1 DEF Answers, Becomes, HandlerServes, ForAcquire, Activating, Alive
  <2>3. Moves(t) /\ FilesMove(t, own)
    BY <1>1, <2>1 DEF Answers, Becomes, Moves, FilesMove, Critical, Late
  <2>4. \A r \in Request : CallOK(r, h[t])'
    BY <2>1 DEF Answers, Becomes, CallOK, WithEntry, Activating, Searching
  <2>5. QED
    BY <1>1, <1>3, <2>2, <2>3, <2>4, MoveKeeps
<1>6. QED
  BY <1>4, <1>5

\* The claims that the conflict check deletes are those of owners that are not
\* active.
LEMMA ConflictsKeep ==
    ASSUME NEW t \in Thread, NEW own \in Owners,
           ProviderInv, Leases(own), OwnedBy(own)', UNCHANGED <<exec, mut, cl, spent>>,
           CheckConflicts(t)
    PROVE  Leases(own)'
<1>0. /\ h[t] \in Handler /\ HandlerOK(h[t]) /\ HandlerServes(h[t], own) /\ HandlerOwned(h[t], own)
      /\ h \in [Thread -> Handler]
  BY LeaseFacts DEF ProviderInv
<1>1. /\ UNCHANGED <<boot, procs, nextOp, files, index>> /\ h[t].pc = "conflicts"
      /\ h[t].section = "activate" /\ claims' = liveClaims
  BY <1>0 DEF CheckConflicts, host, HandlerOK
<1>2. /\ h[t].ent \in Entry /\ h[t].op \in Op /\ h[t].op < nextOp
      /\ Names(h[t].ent, own[h[t].op])
  BY <1>0, <1>1 DEF HandlerOK, HasEntry, HandlerOwned, Knows
<1>3. h[t].req # None /\ own[h[t].op].req = h[t].req
  BY <1>0, <1>1, <1>2 DEF HandlerServes, ForAcquire, Op
<1>4. \A c \in claims : c \in claims' \/ ~Guarded(c, own)
  BY <1>1 DEF liveClaims, operationJournalOwnerActive, processExists, Guarded, Alive
<1>5. IndexOK'
  BY <1>1 DEF Leases, IndexOK
<1>6. CASE Answers(t, "queued")
  <2>1. HandlerServes(h[t], own)'
    BY <1>0, <1>1, <1>3, <1>6 DEF Answers, Becomes, HandlerServes, ForAcquire, Activating, Alive
  <2>2. Moves(t) /\ FilesMove(t, own)
    BY <1>1, <1>4, <1>6 DEF Answers, Becomes, Moves, FilesMove, Critical, Late
  <2>3. \A r \in Request : CallOK(r, h[t])'
    BY <1>6 DEF Answers, Becomes, CallOK, WithEntry, Activating, Searching
  <2>4. QED
    BY <1>1, <1>5, <2>1, <2>2, <2>3, MoveKeeps
<1>7. ASSUME NEW e, e.status = "running", e.pid = h[t].ent.pid,
             Becomes(t, "runFile", h[t].section, h[t].op, e, h[t].left, h[t].cur,
                     LockSet(h[t].ent.req), h[t].res)
      PROVE  Leases(own)'
  <2>1. HandlerServes(h[t], own)'
    BY <1>0, <1>1, <1>7 DEF Becomes, HandlerServes, ForAcquire, Activating, Alive
  <2>2. Moves(t) /\ FilesMove(t, own)
    BY <1>1, <1>4, <1>7 DEF Becomes, Moves, FilesMove, Critical, Late
  <2>3. ASSUME NEW r \in Request, cl[r].call = t, cl[r].phase = "acquire" PROVE CallOK(r, h[t])'
    <3>1. CallOK(r, h[t]) /\ h[t].req = r
      BY <2>3, CallFacts
    <3>2. h[t].ent.req = r
      BY <1>2, <1>3, <3>1 DEF Names
    <3>3. QED
      BY <1>1, <1>7, <3>1, <3>2 DEF Becomes, CallOK, WithEntry, Activating, Searching
  <2>4. QED
    BY <1>1, <1>5, <2>1, <2>2, <2>3, MoveKeeps
<1>8. CASE Becomes(t, "runFile", h[t].section, h[t].op,
                   [h[t].ent EXCEPT !.status = "running"], h[t].left, h[t].cur,
                   LockSet(h[t].ent.req), h[t].res)
  <2>1. PICK e : e = [h[t].ent EXCEPT !.status = "running"]
    OBVIOUS
  <2>2. e.status = "running" /\ e.pid = h[t].ent.pid
    BY <1>2, <2>1 DEF Entry
  <2>3. QED
    BY <1>7, <1>8, <2>1, <2>2
<1>9. QED
  BY <1>0, <1>6, <1>8, ActivateMoves

\* A claim that is written names the executor of the request that waits for it.
LEMMA ClaimKeeps ==
    ASSUME NEW t \in Thread, NEW own \in Owners,
           ProviderInv, Leases(own), OwnedBy(own)', UNCHANGED <<exec, mut, cl, spent>>,
           WriteClaim(t)
    PROVE  Leases(own)'
<1>0. /\ h[t] \in Handler /\ HandlerOK(h[t]) /\ HandlerServes(h[t], own) /\ HandlerOwned(h[t], own)
      /\ h \in [Thread -> Handler]
  BY LeaseFacts DEF ProviderInv
<1>1. /\ UNCHANGED <<boot, procs, nextOp, files, index>> /\ h[t].pc = "claim"
      /\ h[t].section = "activate"
  BY <1>0 DEF WriteClaim, host, HandlerOK
<1>2. PICK l \in h[t].todo :
          /\ claims' = claims \cup {[op |-> h[t].op, pid |-> h[t].ent.pid,
                                     boot |-> h[t].ent.boot, lock |-> l]}
          /\ Becomes(t, h[t].pc, h[t].section, h[t].op, h[t].ent, h[t].left, h[t].cur,
                     h[t].todo \ {l}, h[t].res)
  BY <1>0, ActivateMoves
<1>3. h[t].ent.boot = boot
  BY <1>0, <1>1 DEF HandlerOK, HasEntry, HandlerOwned, Knows, Names, Leases, OwnersOK
<1>4. HandlerServes(h[t], own)'
  BY <1>0, <1>1, <1>2 DEF Becomes, HandlerServes, ForAcquire, Activating, Alive
<1>5. Moves(t) /\ FilesMove(t, own) /\ IndexOK'
  BY <1>1, <1>2 DEF Becomes, Moves, FilesMove, Late, Leases, IndexOK
<1>6. ASSUME NEW r \in Request, cl[r].call = t, cl[r].phase = "acquire" PROVE CallOK(r, h[t])'
  <2>1. CallOK(r, h[t]) /\ h[t].pid = Exec(r) /\ Exec(r)' = Exec(r)
    BY <1>6, CallFacts DEF Exec
  <2>2. h[t].ent.pid = Exec(r)
    BY <1>1, <2>1 DEF CallOK, WithEntry, Activating
  <2>3. \A k \in LockSet(r) : k \in h[t].todo \ {l} \/ Claimed(r, h[t].op, k)'
    <3>1. h'[t].op = h[t].op /\ boot' = boot
      BY <1>1, <1>2 DEF Becomes
    <3>2. \A k \in LockSet(r) : k \in h[t].todo \/ Claimed(r, h[t].op, k)
      BY <1>1, <2>1 DEF CallOK
    <3>3. QED
      BY <1>2, <1>3, <2>1, <2>2, <3>1, <3>2 DEF Claimed
  <2>4. QED
    BY <1>1, <1>2, <2>1, <2>3 DEF Becomes, CallOK, WithEntry, Activating, Searching
<1>7. QED
  BY <1>1, <1>4, <1>5, <1>6, MoveKeeps

\* A new operation is queued, and owned by the executor that serves its request.
LEMMA CreateKeeps ==
    ASSUME NEW t \in Thread, NEW own \in Owners,
           ProviderInv, Leases(own), UNCHANGED <<exec, mut, cl, spent>>,
           CreateFile(t)
    PROVE  \E new \in Owners : Leases(new)'
<1>0. /\ h[t] \in Handler /\ HandlerOK(h[t]) /\ HandlerServes(h[t], own)
      /\ h \in [Thread -> Handler] /\ DiskOwned(own) /\ LockInv /\ OwnedBy(own)
      /\ files \in [Op -> Entry \cup {None}]
  BY LeaseFacts DEF ProviderInv, LockInv, TypeOK, Leases
<1> DEFINE e == [req |-> h[t].req, pid |-> h[t].pid, boot |-> boot, status |-> "queued"]
<1>1. PICK new \in Owners :
          /\ OwnedBy(new)'
          /\ new[nextOp] = [req |-> h[t].req, pid |-> h[t].pid, boot |-> boot]
          /\ \A o \in Op : o # nextOp => new[o] = own[o]
  BY <1>0, OwnerCreateFile
<1>2. /\ UNCHANGED <<boot, procs, index, claims>> /\ nextOp' = nextOp + 1
      /\ h[t].pc = "lookup" /\ h[t].section = "find" /\ h[t].req \in Request
      /\ h[t].pid \in Pid /\ Alive(h[t].pid) /\ nextOp \in Op
      /\ files' = [files EXCEPT ![nextOp] = e]
  BY <1>0, NothingForgotten
     DEF CreateFile, host, HandlerOK, HandlerServes, LockInv, IdLeft, Searching
<1>3. Becomes(t, "createIndex", "find", nextOp, e, h[t].left, h[t].cur, h[t].todo, h[t].res)
  BY <1>0, <1>2, FindMoves
<1>4. e.pid = h[t].pid /\ e.status = "queued"
  OBVIOUS
<1> HIDE DEF e
<1>5. /\ new[nextOp].req = h[t].req /\ new[nextOp].pid = h[t].pid /\ new[nextOp].boot = boot
      /\ \A o \in Op : o < nextOp => new[o] = own[o] /\ o < nextOp'
      /\ \A o \in Op : o < nextOp' => o < nextOp \/ o = nextOp
      /\ nextOp < nextOp' /\ nextOp # 0
  BY <1>1, <1>2 DEF Op
<1>6. \A r \in Request : Exec(r)' = Exec(r)
  BY DEF Exec
<1>7. OwnersOK(new)' /\ ExecsOK' /\ IndexOK'
  <2>1. h[t].pid \in spent /\ new[nextOp] \in Owner
    BY <1>0, <1>1, <1>2 DEF Leases, ExecsOK, Owner, LockInv, TypeOK
  <2>2. QED
    BY <1>2, <1>5, <2>1 DEF Leases, OwnersOK, ExecsOK, IndexOK, Alive
<1>8. HandlerServes(h[t], new)'
  BY <1>0, <1>2, <1>3, <1>4, <1>5, JournalAssumption
     DEF Becomes, HandlerServes, ForAcquire, Activating, Alive
<1>9. ASSUME NEW u \in Thread, u # t PROVE HandlerServes(h[u], new)'
  <2>1. h'[u] = h[u] /\ HandlerServes(h[u], own) /\ h[u] \in Handler /\ HandlerOK(h[u])
    BY <1>3, <1>9, LeaseFacts DEF Becomes, ProviderInv
  <2>2. h[u].op # 0 => h[u].op \in Op
    BY <2>1 DEF Handler
  <2>3. h[u].req # None /\ h[u].op # 0 => h[u].op < nextOp' /\ new[h[u].op].req = h[u].req
    BY <1>5, <2>1, <2>2 DEF HandlerServes
  <2>4. h[u].req = None /\ h[u].pc # "idle" =>
          /\ h[u].op \in Op /\ h[u].op < nextOp'
          /\ cl[new[h[u].op].req].phase \in {"release", "done"}
    BY <1>5, <2>1 DEF HandlerServes
  <2>5. h[u].pc = "drop" /\ h[u].section # "finalize" =>
          h[u].cur < nextOp' /\ ~Alive(new[h[u].cur].pid)
    BY <1>5, <2>1 DEF HandlerServes, HandlerOK
  <2>6. QED
    BY <1>2, <2>1, <2>3, <2>4, <2>5 DEF HandlerServes, Alive
<1>10. ASSUME NEW r \in Request PROVE ClientServed(r, new)'
  <2>0. /\ ClientServed(r, own) /\ Exec(r)' = Exec(r)
        /\ cl[r].call \in Thread \cup {None}
    BY <1>6 DEF Leases, ProviderInv, LeaseTypeOK
  <2>1. CallServed(r)'
    <3> SUFFICES ASSUME cl[r].call # None PROVE CallServed(r)'
      BY DEF CallServed
    <3>1. PICK u \in Thread : u = cl[r].call
      BY <2>0
    <3>2. /\ CallServed(r) /\ h'[u].pid = h[u].pid /\ h'[u].req = h[u].req /\ h'[u].pc # "idle"
      BY <1>3, <2>0, <3>1 DEF ClientServed, CallServed, Becomes
    <3>3. ASSUME CallOK(r, h[u]) PROVE CallOK(r, h[u])'
      <4>1. CASE u = t
        BY <1>3, <1>4, <4>1 DEF Becomes, CallOK, WithEntry, Activating, Searching
      <4>2. CASE u # t
        <5>1. h'[u] = h[u]
          BY <1>3, <4>2 DEF Becomes
        <5>2. QED
          BY <1>2, <2>0, <3>3, <5>1 DEF CallOK, Backed, Claimed
      <4>3. QED
        BY <4>1, <4>2
    <3>4. QED
      BY <2>0, <3>1, <3>2, <3>3 DEF CallServed
  <2>2. OwnOperation(r, new)'
    BY <1>5, <2>0 DEF ClientServed, OwnOperation, ProviderInv, Told
  <2>3. Holds(r)' /\ MutationHeld(r)'
    BY <1>2, <2>0 DEF ClientServed, Holds, MutationHeld, Backed, Claimed, Alive
  <2>4. Alone(r)'
    BY <1>3, <2>0 DEF ClientServed, Alone, Wants, Becomes
  <2>5. OneExecutor(r, new)'
    BY <1>2, <1>5, <2>0 DEF ClientServed, OneExecutor, Alone, Wants, Alive
  <2>6. StillQueued(r, new)'
    <3> SUFFICES ASSUME cl[r].phase = "acquire", cl[r].pos # "failed", Exec(r) # None, Alive(Exec(r)),
                        NEW o \in Op, o < nextOp', new[o].req = r, new[o].pid = Exec(r),
                        files'[o] # None, files'[o].status # "queued"
                 PROVE  cl[r].call # None /\ Late(h'[cl[r].call])
      BY <1>2, <2>0 DEF StillQueued, Alive
    <3>1. o # nextOp
      BY <1>0, <1>2, <1>4
    <3>2. o < nextOp /\ files'[o] = files[o] /\ new[o] = own[o]
      BY <1>0, <1>2, <1>5, <3>1
    <3>3. cl[r].call # None /\ Late(h[cl[r].call])
      BY <2>0, <3>2 DEF ClientServed, StillQueued
    <3>4. cl[r].call # t
      BY <1>2, <3>3 DEF Late
    <3>5. QED
      BY <1>3, <2>0, <3>3, <3>4 DEF Becomes
  <2>7. QED
    BY <2>1, <2>2, <2>3, <2>4, <2>5, <2>6 DEF ClientServed
<1>11. Leases(new)'
  BY <1>1, <1>7, <1>8, <1>9, <1>10 DEF Leases
<1>12. QED
  BY <1>1, <1>11

\* Whatever a handler does by itself keeps the leases.
LEMMA HandlerKeeps ==
    ASSUME NEW own \in Owners, ProviderInv, Leases(own), NEW t \in Thread,
           LeaseStep(t) \/ LeaseCancel(t) \/ LeaseIOError(t)
    PROVE  \E new \in Owners : Leases(new)'
<1>0. /\ LockInv /\ OwnedBy(own) /\ UNCHANGED <<exec, mut, cl, spent>>
      /\ Step(t) \/ (CancelAcquire(t) /\ \A r \in Request : cl[r].call # t) \/ IOError(t)
  BY DEF ProviderInv, Leases, LeaseStep, LeaseCancel, LeaseIOError, provider
<1>1. CASE CreateFile(t)
  BY <1>0, <1>1, CreateKeeps
<1>2. CASE ~CreateFile(t)
  <2>1. h[t].pc # "idle" /\ \A u \in Thread : u # t => h'[u] = h[u]
    BY <1>0, <1>2, TellingStep
       DEF ProviderInv, Step, FindLock, LookupHit, CreateIndex, SweepSkip, AbandonFile, DropClaim,
           DropIndex, PurgeFile, SweepDone, GrantRunning, ActivateLock, CheckConflicts, RunFile,
           RunIndex, WriteClaim, GrantActivated, FinalRead, FinalLock, FinalFile, FinalIndex,
           CancelAcquire, IOError
  <2>2. OwnedBy(own)'
    BY <1>0, <1>2, OwnerMoves, OwnerReads, OwnerFileSteps, OwnerIndexSteps, OwnerDropSteps,
       OwnerPurge, OwnerClaimSteps DEF Step
  <2>3. CASE Step(t)
    BY <1>0, <1>2, <2>2, <2>3, FindKeeps, LookupKeeps, GrantKeeps, FinalKeeps, IndexKeeps,
       AbandonKeeps, FileKeeps, DropKeeps, UnindexKeeps, ConflictsKeep, ClaimKeeps DEF Step
  <2>4. CASE (CancelAcquire(t) /\ \A r \in Request : cl[r].call # t) \/ IOError(t)
    BY <1>0, <2>2, <2>4, FinalKeeps
  <2>5. QED
    BY <1>0, <2>3, <2>4
<1>3. QED
  BY <1>1, <1>2

-----------------------------------------------------------------------------
(* Steps of the providers. *)

\* A step of a provider writes nothing to the disk: it keeps the owners, and what
\* is left to show is what it does to processes, handlers and requests.
LEMMA ProviderKeeps ==
    ASSUME NEW own \in Owners, ProviderInv, Leases(own), [LeaseNext]_leaseVars,
           UNCHANGED <<boot, nextOp, files, index, claims>>, spent \subseteq spent',
           ExecsOK',
           \A t \in Thread : HandlerServes(h[t], own)',
           \A r \in Request : ClientServed(r, own)'
    PROVE  Leases(own)'
<1>1. LockInv /\ OwnedBy(own) /\ [Next]_vars
  BY LeaseNextIsNext DEF ProviderInv, Leases
<1>2. \A t \in Thread : ~CreateFile(t)
  BY <1>1 DEF CreateFile, LockInv, TypeOK
<1>3. OwnedBy(own)'
  BY <1>1, <1>2, OwnerKept
<1>4. OwnersOK(own)' /\ IndexOK'
  BY DEF Leases, OwnersOK, IndexOK
<1>5. QED
  BY <1>3, <1>4 DEF Leases

\* No process of an earlier pid comes to life.
NoneRevived == \A q \in spent : procs'[q] # None => procs[q] # None

\* A request that is not concerned keeps what it has.
LEMMA OtherClient ==
    ASSUME NEW own \in Owners, NEW s \in Request, ProviderInv, Leases(own),
           UNCHANGED <<boot, nextOp, files, index, claims>>, NoneRevived,
           cl'[s] = cl[s], exec'[WorkspaceOf[s]] = exec[WorkspaceOf[s]], mut'[s] \subseteq mut[s],
           \A u \in Thread : h'[u] = h[u] \/ (cl[s].call # u /\ h'[u].req # s),
           cl[s].phase = "mutate" => procs'[Exec(s)] # None
    PROVE  ClientServed(s, own)'
<1>0. /\ ClientServed(s, own) /\ Exec(s)' = Exec(s) /\ cl[s].call \in Thread \cup {None}
      /\ Exec(s) # None => Exec(s) \in spent
      /\ \A o \in Op : o < nextOp => own[o].pid \in spent
  BY JournalAssumption DEF Leases, Exec, ProviderInv, LeaseTypeOK, ExecsOK, OwnersOK
<1>1. \A o : Backed(s, o) => Backed(s, o)'
  BY <1>0 DEF Backed, Claimed
<1>2. CallServed(s)'
  <2> SUFFICES ASSUME cl[s].call # None PROVE CallServed(s)'
    BY DEF CallServed
  <2>1. PICK u \in Thread : u = cl[s].call
    BY <1>0
  <2>2. h'[u] = h[u] /\ CallServed(s)
    BY <1>0, <2>1 DEF ClientServed
  <2>3. CallOK(s, h[u]) => CallOK(s, h[u])'
    BY <1>0, <2>2 DEF CallOK, Backed, Claimed
  <2>4. QED
    BY <1>0, <2>1, <2>2, <2>3 DEF CallServed
<1>3. OwnOperation(s, own)'
  BY <1>0 DEF ClientServed, OwnOperation
<1>4. Holds(s)'
  BY <1>0 DEF ClientServed, Holds, Alive, Backed, Claimed
<1>5. MutationHeld(s)'
  BY <1>0 DEF ClientServed, MutationHeld
<1>6. Alone(s)'
  BY <1>0 DEF ClientServed, Alone, Wants
<1>7. OneExecutor(s, own)'
  BY <1>0 DEF ClientServed, OneExecutor, Wants, Alive, NoneRevived
<1>8. StillQueued(s, own)'
  <2> SUFFICES ASSUME cl[s].phase = "acquire", cl[s].pos # "failed", Exec(s) # None,
                      procs'[Exec(s)] # None,
                      NEW o \in Op, o < nextOp, own[o].req = s, own[o].pid = Exec(s),
                      files[o] # None, files[o].status # "queued"
               PROVE  cl[s].call # None /\ Late(h'[cl[s].call])
    BY <1>0 DEF StillQueued, Alive
  <2>1. cl[s].call # None /\ Late(h[cl[s].call])
    BY <1>0 DEF ClientServed, StillQueued, Alive, NoneRevived
  <2>2. QED
    BY <1>0, <2>1
<1>9. QED
  BY <1>2, <1>3, <1>4, <1>5, <1>6, <1>7, <1>8 DEF ClientServed

\* A request that is through with a phase stays so.
Forward == \A s \in Request : cl[s].phase \in {"release", "done"} => cl'[s].phase \in {"release", "done"}

\* A handler that stays goes on to serve its request, and one that vanishes serves
\* nobody.
LEMMA OtherHandler ==
    ASSUME NEW own \in Owners, NEW t \in Thread, ProviderInv, Leases(own),
           UNCHANGED <<nextOp, index>>, NoneRevived, Forward,
           \/ h'[t] = h[t] /\ (h[t].pc # "idle" => procs'[h[t].pid] # None)
           \/ h'[t] = Idle
    PROVE  HandlerServes(h[t], own)'
<1>0. /\ HandlerServes(h[t], own) /\ HandlerOK(h[t])
      /\ \A o \in Op : o < nextOp => own[o] \in Owner /\ own[o].pid \in spent
  BY LeaseFacts DEF Leases, ProviderInv, OwnersOK
<1>1. CASE h'[t] = Idle
  BY <1>1 DEF HandlerServes, Idle, ForAcquire, Activating
<1>2. CASE h'[t] = h[t] /\ (h[t].pc # "idle" => procs'[h[t].pid] # None)
  <2>1. h[t].req = None /\ h[t].pc # "idle" =>
          /\ h[t].op \in Op /\ h[t].op < nextOp
          /\ cl'[own[h[t].op].req].phase \in {"release", "done"}
    BY <1>0 DEF HandlerServes, Forward, Owner
  <2>2. h[t].pc = "drop" /\ h[t].section # "finalize" =>
          h[t].cur < nextOp /\ procs'[own[h[t].cur].pid] = None
    BY <1>0 DEF HandlerServes, HandlerOK, NoneRevived, Alive
  <2>3. QED
    BY <1>0, <1>2, <2>1, <2>2 DEF HandlerServes, Alive
<1>3. QED
  BY <1>1, <1>2

\* What the invariants say of a request.
LEMMA ClientFacts ==
    ASSUME NEW own, NEW r \in Request, ProviderInv, Leases(own)
    PROVE  /\ LeaseTypeOK /\ cl \in [Request -> ClientRecord] /\ cl[r] \in ClientRecord
           /\ h \in [Thread -> Handler] /\ mut[r] \subseteq Pid
           /\ WorkspaceOf[r] \in Workspace /\ Exec(r) \in Pid \cup {None}
           /\ cl[r].phase \in {"mutate", "release"} => cl[r].op \in Op
           /\ CallServed(r) /\ OwnOperation(r, own) /\ Holds(r) /\ MutationHeld(r)
           /\ Alone(r) /\ OneExecutor(r, own) /\ StillQueued(r, own)
BY JournalAssumption
   DEF ProviderInv, LeaseTypeOK, Told, TypeOK, ClientRecord, Leases, ClientServed, Exec

\* Of two requests the sessions differ, and so do their executors while they live.
LEMMA Sessions ==
    ASSUME Undisturbed, ExecsOK, NEW r \in Request, NEW s \in Request, s # r
    PROVE  /\ WorkspaceOf[s] # WorkspaceOf[r]
           /\ Exec(r) # None /\ Exec(r) = Exec(s) => ~Alive(Exec(r))
BY JournalAssumption DEF Undisturbed, ExecsOK, Exec, Alive

\* An executor that is started serves its session and nothing else yet.
LEMMA EnsureKeeps ==
    ASSUME Undisturbed, NEW own \in Owners, ProviderInv, Leases(own), LeaseNext,
           NEW r \in Request, NEW p \in Pid, EnsureExecutor(r, p)
    PROVE  Leases(own)'
<1> DEFINE w == WorkspaceOf[r]
<1>1. /\ UNCHANGED <<boot, nextOp, files, index, claims, h, mut, cl>>
      /\ cl[r].pos = "ready" /\ Exec(r) = None
      /\ exec' = [exec EXCEPT ![w] = p] /\ spent' = spent \cup {p}
      /\ procs' = [procs EXCEPT ![p] = w]
  BY DEF EnsureExecutor, Start, disk, Exec
<1>2. p \notin spent
  BY DEF EnsureExecutor, FreshPid, ProviderInv, LeaseTypeOK
<1>3. /\ procs \in [Pid -> Workspace \cup {None}] /\ exec \in [Workspace -> Pid \cup {None}]
      /\ spent \subseteq Pid /\ ExecsOK
  BY DEF ProviderInv, LeaseTypeOK, TypeOK, Leases
<1>4. \A q \in spent : q \in Pid /\ procs'[q] = procs[q]
  BY <1>1, <1>2, <1>3
<1>5. /\ exec'[w] = p /\ procs'[p] = w /\ w \in Workspace
      /\ \A v \in Workspace : v # w => exec'[v] = exec[v]
      /\ \A q \in Pid : q # p => procs'[q] = procs[q]
  BY <1>1, <1>3, JournalAssumption
<1> HIDE DEF w
<1>6. ExecsOK'
  <2>1. ASSUME NEW q \in Pid, procs'[q] # None PROVE q \in spent'
    BY <1>1, <1>3, <1>5, <2>1 DEF ExecsOK, Alive
  <2>2. ASSUME NEW v \in Workspace, exec'[v] # None
        PROVE  exec'[v] \in spent' /\ procs'[exec'[v]] \in {None, v}
    <3>1. CASE v = w
      BY <1>1, <1>5, <3>1
    <3>2. CASE v # w
      BY <1>1, <1>3, <1>4, <1>5, <2>2, <3>2 DEF ExecsOK
    <3>3. QED
      BY <3>1, <3>2
  <2>3. QED
    BY <1>3, <2>1, <2>2 DEF ExecsOK, Alive
<1>7. NoneRevived /\ Forward
  BY <1>1, <1>4 DEF NoneRevived, Forward
<1>8. ASSUME NEW t \in Thread PROVE HandlerServes(h[t], own)'
  <2>1. HandlerServes(h[t], own) /\ HandlerOK(h[t]) /\ h'[t] = h[t]
    BY <1>1, LeaseFacts DEF ProviderInv
  <2>2. h[t].pc # "idle" => procs'[h[t].pid] # None
    BY <1>3, <1>4, <2>1 DEF HandlerServes, HandlerOK, ExecsOK, Alive
  <2>3. QED
    BY <1>1, <1>7, <2>1, <2>2, OtherHandler
<1>9. ASSUME NEW s \in Request, s # r PROVE ClientServed(s, own)'
  <2>1. /\ WorkspaceOf[s] # w /\ exec'[WorkspaceOf[s]] = exec[WorkspaceOf[s]]
        /\ Holds(s) /\ (Exec(s) # None => Exec(s) \in spent)
    BY <1>3, <1>5, <1>9, JournalAssumption, Sessions, ClientFacts DEF w, ExecsOK, Exec
  <2>2. cl[s].phase = "mutate" => procs'[Exec(s)] # None
    BY <1>4, <2>1 DEF Holds, Alive
  <2>3. QED
    BY <1>1, <1>7, <2>1, <2>2, OtherClient
<1>10. ClientServed(r, own)'
  <2>1. /\ CallServed(r) /\ OwnOperation(r, own) /\ Holds(r) /\ MutationHeld(r) /\ Alone(r)
        /\ OneExecutor(r, own)
    BY ClientFacts
  <2>2. cl[r].call = None /\ cl[r].phase # "mutate" /\ mut[r] = {}
    BY <1>1, <2>1 DEF CallServed, Holds, MutationHeld
  <2>3. Wants(r) => \A t \in Thread : h[t].req # r
    BY <1>1, <2>1, <2>2, JournalAssumption DEF Alone
  <2>4. \A o \in Op : o < nextOp => own[o].pid \in spent /\ own[o].pid # None
    BY <1>3, JournalAssumption DEF Leases, OwnersOK
  <2>5. Wants(r) => \A o \in Op : o < nextOp /\ own[o].req = r => procs'[own[o].pid] = None
    BY <1>1, <1>4, <2>1, <2>4 DEF OneExecutor, Alive
  <2>6. Exec(r)' = p
    BY <1>5 DEF Exec, w
  <2>7. CallServed(r)' /\ OwnOperation(r, own)' /\ Holds(r)' /\ MutationHeld(r)'
    BY <1>1, <2>1, <2>2 DEF CallServed, OwnOperation, Holds, MutationHeld
  <2>8. Alone(r)'
    BY <1>1, <2>3 DEF Alone, Wants
  <2>9. OneExecutor(r, own)'
    BY <1>1, <2>5 DEF OneExecutor, Wants, Alive
  <2>10. StillQueued(r, own)'
    BY <1>1, <1>2, <2>4, <2>6 DEF StillQueued
  <2>11. QED
    BY <2>7, <2>8, <2>9, <2>10 DEF ClientServed
<1>11. QED
  BY <1>1, <1>6, <1>8, <1>9, <1>10, ProviderKeeps

\* The handler of an Acquire starts alone.
LEMMA CallAcquireKeeps ==
    ASSUME Undisturbed, NEW own \in Owners, ProviderInv, Leases(own), LeaseNext,
           NEW r \in Request, NEW t \in Thread, CallAcquire(r, t)
    PROVE  Leases(own)'
<1>0. /\ h \in [Thread -> Handler] /\ cl \in [Request -> ClientRecord]
      /\ CallServed(r) /\ MutationHeld(r) /\ Alone(r) /\ OneExecutor(r, own)
      /\ StillQueued(r, own) /\ Exec(r) \in Pid \cup {None}
  BY ClientFacts
<1>1. /\ UNCHANGED <<boot, procs, nextOp, files, index, claims, exec, mut, spent>>
      /\ cl[r].phase = "acquire" /\ cl[r].pos = "ready" /\ Exec(r) # None /\ Alive(Exec(r))
      /\ h[t].pc = "idle" /\ h' = [h EXCEPT ![t].pc = "find", ![t].pid = Exec(r), ![t].req = r]
      /\ Calling(r, t)
  BY DEF CallAcquire, CanCall, Acquire, host, disk, Exec, Alive
<1>2. h[t].section = "none" /\ h[t].op = 0
  BY <1>1, LeaseFacts DEF ProviderInv, HandlerOwned, HandlerServes
<1>3. /\ h'[t].pc = "find" /\ h'[t].section = "none" /\ h'[t].pid = Exec(r) /\ h'[t].req = r
      /\ h'[t].op = 0 /\ \A u \in Thread : u # t => h'[u] = h[u]
  <2>1. h[t] \in Handler /\ h'[t] = [h[t] EXCEPT !.pc = "find", !.pid = Exec(r), !.req = r]
    BY <1>0, <1>1
  <2>2. QED
    BY <1>0, <1>1, <1>2, <2>1 DEF Handler
<1>4. /\ cl'[r].phase = "acquire" /\ cl'[r].pos = "calling" /\ cl'[r].call = t
      /\ \A s \in Request : s # r => cl'[s] = cl[s]
  BY <1>0, <1>1, CallingFields
<1>5. NoneRevived /\ Forward /\ ExecsOK'
  BY <1>1, <1>4 DEF NoneRevived, Forward, Leases, ExecsOK, Alive
<1>6. ASSUME NEW u \in Thread PROVE HandlerServes(h[u], own)'
  <2>1. CASE u = t
    BY <1>1, <1>3, <2>1, JournalAssumption DEF HandlerServes, ForAcquire, Activating, Alive
  <2>2. CASE u # t
    <3>1. HandlerServes(h[u], own)
      BY DEF Leases
    <3>2. QED
      BY <1>1, <1>3, <1>5, <2>2, <3>1, OtherHandler, ZenonT(40) DEF HandlerServes, Alive
  <2>3. QED
    BY <2>1, <2>2
<1>7. ASSUME NEW s \in Request, s # r PROVE ClientServed(s, own)'
  <2>1. Holds(s) /\ CallServed(s)
    BY ClientFacts
  <2>2. cl[s].call # t
    BY <1>1, <2>1, JournalAssumption DEF CallServed
  <2>3. QED
    BY <1>1, <1>3, <1>4, <1>5, <1>7, <2>1, <2>2, OtherClient DEF Holds, Alive
<1>8. ClientServed(r, own)'
  <2>0. Exec(r)' = Exec(r) /\ cl[r].call = None
    BY <1>0, <1>1 DEF Exec, CallServed
  <2>1. CallOK(r, h[t])'
    BY <1>3 DEF CallOK, WithEntry, Activating, Searching
  <2>2. CallServed(r)'
    BY <1>3, <1>4, <2>0, <2>1 DEF CallServed
  <2>3. OwnOperation(r, own)' /\ Holds(r)' /\ MutationHeld(r)'
    BY <1>0, <1>1, <1>4 DEF OwnOperation, Holds, MutationHeld
  <2>4. Alone(r)'
    BY <1>0, <1>1, <1>3, <1>4, <2>0, JournalAssumption DEF Alone, Wants
  <2>5. OneExecutor(r, own)'
    BY <1>0, <1>1, <1>4, <2>0 DEF OneExecutor, Wants, Alive
  <2>6. StillQueued(r, own)'
    BY <1>0, <1>1, <1>4, <2>0 DEF StillQueued, Alive
  <2>7. QED
    BY <2>2, <2>3, <2>4, <2>5, <2>6 DEF ClientServed
<1>9. QED
  BY <1>1, <1>5, <1>6, <1>7, <1>8, ProviderKeeps

\* A mutation starts in the executor that holds the claims.
LEMMA CallMutateKeeps ==
    ASSUME Undisturbed, NEW own \in Owners, ProviderInv, Leases(own), LeaseNext,
           NEW r \in Request, CallMutate(r)
    PROVE  Leases(own)'
<1>0. /\ cl \in [Request -> ClientRecord]
      /\ CallServed(r) /\ OwnOperation(r, own) /\ Holds(r) /\ MutationHeld(r) /\ Alone(r)
      /\ OneExecutor(r, own)
  BY ClientFacts
<1>1. /\ UNCHANGED <<boot, procs, nextOp, files, index, claims, h, exec, spent>>
      /\ cl[r].phase = "mutate" /\ cl[r].pos = "ready" /\ Calling(r, None)
      /\ mut' = [mut EXCEPT ![r] = mut[r] \cup {Exec(r)}]
  BY DEF CallMutate, CanCall, vars, Exec
<1>2. /\ cl'[r].phase = "mutate" /\ cl'[r].pos = "calling" /\ cl'[r].call = None
      /\ cl'[r].op = cl[r].op /\ \A s \in Request : s # r => cl'[s] = cl[s]
  BY <1>0, <1>1, CallingFields
<1>3. mut'[r] = {Exec(r)} /\ \A s \in Request : s # r => mut'[s] = mut[s]
  BY <1>0, <1>1 DEF MutationHeld, ProviderInv, LeaseTypeOK
<1>4. NoneRevived /\ Forward /\ ExecsOK'
  BY <1>1, <1>2 DEF NoneRevived, Forward, Leases, ExecsOK, Alive
<1>5. ASSUME NEW u \in Thread PROVE HandlerServes(h[u], own)'
  <2>1. HandlerServes(h[u], own)
    BY DEF Leases
  <2>2. QED
    BY <1>1, <1>4, <2>1, OtherHandler DEF HandlerServes, Alive
<1>6. ASSUME NEW s \in Request, s # r PROVE ClientServed(s, own)'
  <2>1. Holds(s)
    BY ClientFacts
  <2>2. QED
    BY <1>1, <1>2, <1>3, <1>4, <1>6, <2>1, OtherClient DEF Holds, Alive
<1>7. ClientServed(r, own)'
  <2>0. Exec(r)' = Exec(r) /\ cl[r].call = None
    BY <1>0, <1>1 DEF Exec, CallServed
  <2>1. CallServed(r)' /\ OwnOperation(r, own)' /\ MutationHeld(r)' /\ StillQueued(r, own)'
    BY <1>0, <1>1, <1>2, <1>3, <2>0 DEF CallServed, OwnOperation, MutationHeld, StillQueued
  <2>2. Holds(r)'
    BY <1>0, <1>1, <1>2, <2>0 DEF Holds, Alive, Backed, Claimed
  <2>3. Alone(r)' /\ OneExecutor(r, own)'
    BY <1>0, <1>1, <1>2, <2>0 DEF Alone, OneExecutor, Wants, Alive
  <2>4. QED
    BY <2>1, <2>2, <2>3 DEF ClientServed
<1>8. QED
  BY <1>1, <1>4, <1>5, <1>6, <1>7, ProviderKeeps

\* A lease is released by a request that is through with it.
LEMMA CallReleaseKeeps ==
    ASSUME Undisturbed, NEW own \in Owners, ProviderInv, Leases(own), LeaseNext,
           NEW r \in Request, NEW t \in Thread, CallRelease(r, t)
    PROVE  Leases(own)'
<1>0. /\ h \in [Thread -> Handler] /\ cl \in [Request -> ClientRecord]
      /\ OwnOperation(r, own) /\ MutationHeld(r)
      /\ cl[r].phase = "release" => cl[r].op \in Op
  BY ClientFacts
<1>1. /\ UNCHANGED <<boot, procs, nextOp, files, index, claims, exec, mut, spent>>
      /\ cl[r].phase = "release" /\ Alive(Exec(r))
      /\ h[t].pc = "idle"
      /\ h' = [h EXCEPT ![t].pc = "read", ![t].pid = Exec(r), ![t].op = cl[r].op]
      /\ Calling(r, t)
  BY DEF CallRelease, CanCall, Release, host, disk, Exec, Alive
<1>2. h[t].section = "none" /\ h[t].req = None
  BY <1>1, LeaseFacts DEF ProviderInv, HandlerOwned, HandlerServes
<1>3. /\ h'[t].pc = "read" /\ h'[t].section = "none" /\ h'[t].pid = Exec(r) /\ h'[t].req = None
      /\ h'[t].op = cl[r].op /\ \A u \in Thread : u # t => h'[u] = h[u]
  <2>1. h[t] \in Handler /\ h'[t] = [h[t] EXCEPT !.pc = "read", !.pid = Exec(r), !.op = cl[r].op]
    BY <1>0, <1>1
  <2>2. QED
    BY <1>0, <1>1, <1>2, <2>1 DEF Handler
<1>4. /\ cl'[r].phase = "release" /\ cl'[r].pos = "calling" /\ cl'[r].call = t
      /\ cl'[r].op = cl[r].op /\ \A s \in Request : s # r => cl'[s] = cl[s]
  BY <1>0, <1>1, CallingFields
<1>5. NoneRevived /\ Forward /\ ExecsOK'
  BY <1>1, <1>4 DEF NoneRevived, Forward, Leases, ExecsOK, Alive
<1>6. ASSUME NEW u \in Thread PROVE HandlerServes(h[u], own)'
  <2>1. CASE u = t
    <3>1. cl[r].op \in Op /\ cl[r].op < nextOp /\ own[cl[r].op].req = r
      BY <1>0, <1>1 DEF OwnOperation
    <3>2. QED
      BY <1>1, <1>3, <1>4, <2>1, <3>1 DEF HandlerServes, ForAcquire, Activating, Alive
  <2>2. CASE u # t
    <3>1. HandlerServes(h[u], own)
      BY DEF Leases
    <3>2. QED
      BY <1>1, <1>3, <1>5, <2>2, <3>1, OtherHandler, ZenonT(40) DEF HandlerServes, Alive
  <2>3. QED
    BY <2>1, <2>2
<1>7. ASSUME NEW s \in Request, s # r PROVE ClientServed(s, own)'
  <2>1. Holds(s) /\ CallServed(s)
    BY ClientFacts
  <2>2. cl[s].call # t /\ h'[t].req # s
    BY <1>1, <1>3, <2>1, JournalAssumption DEF CallServed
  <2>3. QED
    BY <1>1, <1>3, <1>4, <1>5, <1>7, <2>1, <2>2, OtherClient DEF Holds, Alive
<1>8. ClientServed(r, own)'
  <2>0. Exec(r)' = Exec(r)
    BY <1>1 DEF Exec
  <2>1. CallServed(r)'
    BY <1>3, <1>4, <2>0 DEF CallServed
  <2>2. OwnOperation(r, own)' /\ Holds(r)' /\ MutationHeld(r)'
    BY <1>0, <1>1, <1>4 DEF OwnOperation, Holds, MutationHeld
  <2>3. Alone(r)' /\ OneExecutor(r, own)' /\ StillQueued(r, own)'
    BY <1>4 DEF Alone, OneExecutor, StillQueued, Wants
  <2>4. QED
    BY <2>1, <2>2, <2>3 DEF ClientServed
<1>9. QED
  BY <1>1, <1>5, <1>6, <1>7, <1>8, ProviderKeeps

\* A request that is through with its mutation, or never had one, has nothing left
\* but the operation it releases.
LEMMA ThroughClient ==
    ASSUME NEW own, NEW r \in Request, nextOp' = nextOp,
           cl'[r].phase \in {"release", "done"}, cl'[r].call = None, mut'[r] = {},
           cl'[r].phase = "release" => cl'[r].op < nextOp /\ own[cl'[r].op].req = r
    PROVE  ClientServed(r, own)'
BY DEF ClientServed, CallServed, OwnOperation, Holds, MutationHeld, Alone, OneExecutor, StillQueued,
       Wants

\* An attempt that fails leaves its handler behind, in the executor of the session.
LEMMA FailedClient ==
    ASSUME NEW own \in Owners, NEW r \in Request, ProviderInv, Leases(own),
           UNCHANGED <<boot, procs, nextOp, files, index, claims, exec, mut>>,
           cl[r].phase # "mutate", Failed(r), \A u \in Thread : h'[u] = h[u] \/ h'[u] = Idle
    PROVE  ClientServed(r, own)' /\ Forward /\ \A s \in Request : s # r => cl'[s] = cl[s]
<1>0. /\ cl \in [Request -> ClientRecord] /\ Exec(r)' = Exec(r)
      /\ OwnOperation(r, own) /\ MutationHeld(r) /\ Alone(r) /\ OneExecutor(r, own)
  BY ClientFacts DEF Exec
<1>1. /\ cl'[r].phase = cl[r].phase /\ cl'[r].pos = "failed" /\ cl'[r].call = None
      /\ cl'[r].op = cl[r].op /\ \A s \in Request : s # r => cl'[s] = cl[s]
  BY <1>0, FailedFields
<1>2. CallServed(r)' /\ OwnOperation(r, own)' /\ Holds(r)' /\ MutationHeld(r)' /\ StillQueued(r, own)'
  BY <1>0, <1>1 DEF CallServed, OwnOperation, Holds, MutationHeld, StillQueued
<1>3. Alone(r)' /\ OneExecutor(r, own)'
  BY <1>0, <1>1, JournalAssumption DEF Alone, OneExecutor, Wants, Alive, Idle
<1>4. QED
  BY <1>1, <1>2, <1>3 DEF ClientServed, Forward

\* No two requests wait for one handler.
LEMMA OneCaller ==
    ASSUME Undisturbed, NEW own \in Owners, ProviderInv, Leases(own), NEW t \in Thread,
           NEW r \in Request, NEW s \in Request, cl[r].call = t, cl[s].call = t
    PROVE  r = s
<1>1. CallServed(r) /\ CallServed(s) /\ HandlerServes(h[t], own) /\ HandlerOK(h[t])
  BY ClientFacts, LeaseFacts DEF ProviderInv
<1>2. h[t].pid = Exec(r) /\ h[t].pid = Exec(s) /\ Alive(h[t].pid) /\ h[t].pid # None
  BY <1>1, JournalAssumption DEF CallServed, HandlerServes, HandlerOK
<1>3. QED
  BY <1>2, Sessions DEF Leases

\* An answer that grants or queues answers an Acquire, and names an operation of the
\* request.
LEMMA Granted ==
    ASSUME NEW own \in Owners, ProviderInv, Leases(own), NEW t \in Thread, NEW r \in Request,
           cl[r].call = t, h[t].pc = "reply", h[t].res \in {"granted", "queued"}
    PROVE  /\ cl[r].phase = "acquire" /\ h[t].req = r /\ CallOK(r, h[t])
           /\ h[t].op \in Op /\ h[t].op < nextOp /\ own[h[t].op].req = r
<1>0. CallServed(r) /\ HandlerServes(h[t], own) /\ Telling(h[t])
  BY ClientFacts, LeaseFacts DEF ProviderInv
<1>1. h[t].req # None /\ h[t].op \in Op
  BY <1>0 DEF HandlerServes, ForAcquire, Telling
<1>2. cl[r].phase = "acquire" /\ h[t].req = r /\ CallOK(r, h[t])
  BY <1>0, <1>1, JournalAssumption DEF CallServed
<1>3. QED
  BY <1>0, <1>1, <1>2 DEF HandlerServes, Op

\* A request that is told it has its lease has it.
LEMMA DeliverKeeps ==
    ASSUME Undisturbed, NEW own \in Owners, ProviderInv, Leases(own), LeaseNext,
           NEW t \in Thread, Deliver(t)
    PROVE  Leases(own)'
<1>0. /\ h \in [Thread -> Handler] /\ cl \in [Request -> ClientRecord]
      /\ h[t] \in Handler /\ HandlerOK(h[t]) /\ HandlerServes(h[t], own) /\ Telling(h[t])
  BY LeaseFacts DEF ProviderInv, LeaseTypeOK, ClientRecord
<1>1. /\ UNCHANGED <<boot, procs, nextOp, files, index, claims, exec, mut, spent>>
      /\ h[t].pc = "reply" /\ h'[t] = Idle /\ \A u \in Thread : u # t => h'[u] = h[u]
  BY <1>0 DEF Deliver, Reply, host, disk
<1>2. NoneRevived /\ ExecsOK' /\ \A r \in Request : Exec(r)' = Exec(r)
  BY <1>1 DEF NoneRevived, Leases, ExecsOK, Alive, Exec
<1>3. Idle.req = None /\ Idle.pc = "idle"
  BY DEF Idle
<1>4. ASSUME NEW s \in Request, cl'[s] = cl[s], cl[s].call # t PROVE ClientServed(s, own)'
  <2>1. Holds(s)
    BY ClientFacts
  <2>2. QED
    BY <1>1, <1>2, <1>3, <1>4, <2>1, JournalAssumption, OtherClient DEF Holds, Alive
<1>5. ASSUME Forward PROVE \A u \in Thread : HandlerServes(h[u], own)'
  <2> SUFFICES ASSUME NEW u \in Thread PROVE HandlerServes(h[u], own)'
    OBVIOUS
  <2>1. HandlerServes(h[u], own)
    BY DEF Leases
  <2>2. QED
    BY <1>1, <1>2, <1>5, <2>1, OtherHandler DEF HandlerServes, Alive
<1>6. CASE (\A r \in Request : cl[r].call # t) /\ UNCHANGED cl
  <2>1. Forward
    BY <1>6 DEF Forward
  <2>2. QED
    BY <1>1, <1>2, <1>4, <1>5, <1>6, <2>1, ProviderKeeps
<1>7. ASSUME NEW r \in Request, cl[r].call = t, Delivered(r, h[t].res, h[t].op) PROVE Leases(own)'
  <2>0. /\ CallServed(r) /\ MutationHeld(r) /\ Alone(r) /\ OneExecutor(r, own)
        /\ StillQueued(r, own)
    BY ClientFacts
  <2>1. /\ cl[r].pos = "calling" /\ h[t].pid = Exec(r) /\ Exec(r) \in Pid /\ Alive(Exec(r))
        /\ cl[r].phase \in {"acquire", "release"} /\ mut[r] = {}
    BY <1>0, <1>1, <1>7, <2>0, JournalAssumption DEF CallServed, HandlerOK, HandlerServes, MutationHeld
  <2>2. h[t].res \in {"granted", "queued"} =>
          /\ cl[r].phase = "acquire" /\ h[t].req = r /\ CallOK(r, h[t])
          /\ h[t].op \in Op /\ h[t].op < nextOp /\ own[h[t].op].req = r
    BY <1>1, <1>7, Granted
  <2>3. Wants(r) => \A u \in Thread : u # t => h[u].req # r
    BY <1>7, <2>0, <2>1 DEF Alone
  <2>4. \A s \in Request : s # r => cl[s].call # t
    BY <1>7, OneCaller
  <2>5. SUFFICES /\ ClientServed(r, own)' /\ Forward
                 /\ \A s \in Request : s # r => cl'[s] = cl[s]
    BY <1>1, <1>2, <1>4, <1>5, <2>4, ProviderKeeps
  <2>6. ASSUME NEW phase \in Phase, Enter(r, phase, h[t].op)
        PROVE  /\ cl'[r].phase = phase /\ cl'[r].pos = "ready" /\ cl'[r].call = None
               /\ cl'[r].op = h[t].op /\ \A s \in Request : s # r => cl'[s] = cl[s]
    <3>1. h[t].op \in Op \cup {0}
      BY <1>0 DEF Handler
    <3>2. QED
      BY <1>0, <2>6, <3>1, EnterFields
  <2>7. ASSUME NEW phase \in {"mutate", "acquire"}, Enter(r, phase, h[t].op), Wants(r)
        PROVE  /\ CallServed(r)' /\ MutationHeld(r)' /\ Alone(r)' /\ OneExecutor(r, own)'
    <3>1. /\ cl'[r].phase = phase /\ cl'[r].pos = "ready" /\ cl'[r].call = None
      BY <2>6, <2>7 DEF Phase
    <3>2. CallServed(r)' /\ MutationHeld(r)'
      BY <1>1, <2>1, <3>1 DEF CallServed, MutationHeld
    <3>3. Alone(r)'
      BY <1>1, <1>3, <2>3, <2>7, <3>1, JournalAssumption DEF Alone
    <3>4. OneExecutor(r, own)'
      BY <1>1, <1>2, <2>0, <2>7, <3>1 DEF OneExecutor, Alive
    <3>5. QED
      BY <3>2, <3>3, <3>4
  <2>8. CASE h[t].res = "granted" /\ Enter(r, "mutate", h[t].op)
    <3>1. /\ cl'[r].phase = "mutate" /\ cl'[r].pos = "ready" /\ cl'[r].call = None
          /\ cl'[r].op = h[t].op /\ \A s \in Request : s # r => cl'[s] = cl[s]
      BY <2>6, <2>8 DEF Phase
    <3>2. Backed(r, h[t].op) /\ cl[r].phase = "acquire"
      BY <1>1, <2>2, <2>8 DEF CallOK
    <3>3. Holds(r)'
      BY <1>1, <1>2, <2>1, <3>1, <3>2, JournalAssumption DEF Holds, Alive, Backed, Claimed
    <3>4. OwnOperation(r, own)' /\ StillQueued(r, own)'
      BY <1>1, <2>2, <2>8, <3>1 DEF OwnOperation, StillQueued
    <3>5. CallServed(r)' /\ MutationHeld(r)' /\ Alone(r)' /\ OneExecutor(r, own)'
      BY <2>7, <2>8, <3>2 DEF Wants
    <3>6. Forward
      BY <3>1, <3>2 DEF Forward
    <3>7. QED
      BY <3>1, <3>3, <3>4, <3>5, <3>6 DEF ClientServed
  <2>9. CASE h[t].res = "queued" /\ Enter(r, "acquire", h[t].op)
    <3>1. /\ cl'[r].phase = "acquire" /\ cl'[r].pos = "ready" /\ cl'[r].call = None
          /\ \A s \in Request : s # r => cl'[s] = cl[s]
      BY <2>6, <2>9 DEF Phase
    <3>2. cl[r].phase = "acquire"
      BY <2>2, <2>9
    <3>3. ~Late(h[t])
      BY <1>1, <2>9 DEF Late
    <3>4. OwnOperation(r, own)' /\ Holds(r)'
      BY <3>1 DEF OwnOperation, Holds
    <3>5. StillQueued(r, own)'
      BY <1>1, <1>2, <1>7, <2>0, <2>1, <3>1, <3>2, <3>3 DEF StillQueued, Alive
    <3>6. CallServed(r)' /\ MutationHeld(r)' /\ Alone(r)' /\ OneExecutor(r, own)'
      BY <2>7, <2>9, <3>2 DEF Wants
    <3>7. Forward
      BY <3>1, <3>2 DEF Forward
    <3>8. QED
      BY <3>1, <3>4, <3>5, <3>6, <3>7 DEF ClientServed
  <2>10. CASE h[t].res = "queued" /\ Enter(r, "release", h[t].op)
    <3>1. /\ cl'[r].phase = "release" /\ cl'[r].call = None /\ cl'[r].op = h[t].op
          /\ \A s \in Request : s # r => cl'[s] = cl[s]
      BY <2>6, <2>10 DEF Phase
    <3>2. ClientServed(r, own)'
      BY <1>1, <2>1, <2>2, <2>10, <3>1, ThroughClient
    <3>3. QED
      BY <3>1, <3>2 DEF Forward
  <2>11. CASE h[t].res = "released" /\ Enter(r, "done", h[t].op)
    <3>1. /\ cl'[r].phase = "done" /\ cl'[r].call = None
          /\ \A s \in Request : s # r => cl'[s] = cl[s]
      BY <2>6, <2>11 DEF Phase
    <3>2. ClientServed(r, own)'
      BY <1>1, <2>1, <3>1, ThroughClient
    <3>3. QED
      BY <3>1, <3>2 DEF Forward
  <2>12. CASE h[t].res = "error" /\ Failed(r)
    <3>1. \A u \in Thread : h'[u] = h[u] \/ h'[u] = Idle
      BY <1>1
    <3>2. QED
      BY <1>1, <2>1, <2>12, <3>1, FailedClient
  <2>13. QED
    BY <1>7, <2>8, <2>9, <2>10, <2>11, <2>12 DEF Delivered
<1>8. QED
  BY <1>6, <1>7 DEF Deliver

\* Steps of a request that leave processes, handlers and files alone: its mutation
\* ends, its call fails or its attempts are used up.
LEMMA ClientKeeps ==
    ASSUME Undisturbed, NEW own \in Owners, ProviderInv, Leases(own), LeaseNext,
           NEW r \in Request,
           \/ \E p \in Pid : MutateDone(r, p)
           \/ CallFails(r) \/ CallDeadExecutor(r) \/ Exhausted(r)
    PROVE  Leases(own)'
<1>0. /\ LeaseTypeOK /\ cl \in [Request -> ClientRecord] /\ cl[r] \in ClientRecord
      /\ CallServed(r) /\ OwnOperation(r, own) /\ Holds(r) /\ MutationHeld(r)
      /\ cl[r].phase \in {"mutate", "release"} => cl[r].op \in Op
  BY ClientFacts
<1>1. UNCHANGED <<boot, procs, nextOp, files, index, claims, h, exec, spent>>
  BY DEF MutateDone, CallFails, CallDeadExecutor, Exhausted, vars
<1>2. NoneRevived /\ ExecsOK'
  BY <1>1 DEF NoneRevived, Leases, ExecsOK, Alive
<1>3. ASSUME ClientServed(r, own)', Forward,
             \A s \in Request : s # r => cl'[s] = cl[s] /\ mut'[s] = mut[s]
      PROVE  Leases(own)'
  <2>1. ASSUME NEW u \in Thread PROVE HandlerServes(h[u], own)'
    <3>1. HandlerServes(h[u], own)
      BY DEF Leases
    <3>2. QED
      BY <1>1, <1>2, <1>3, <3>1, OtherHandler DEF HandlerServes, Alive
  <2>2. ASSUME NEW s \in Request, s # r PROVE ClientServed(s, own)'
    <3>1. Holds(s)
      BY ClientFacts
    <3>2. QED
      BY <1>1, <1>2, <1>3, <2>2, <3>1, OtherClient DEF Holds, Alive
  <2>3. QED
    BY <1>1, <1>2, <1>3, <2>1, <2>2, ProviderKeeps
<1>4. ASSUME NEW p \in Pid, MutateDone(r, p) PROVE Leases(own)'
  <2>1. /\ cl[r].phase = "mutate" /\ cl[r].pos = "calling" /\ p = Exec(r)
        /\ mut[r] \subseteq {Exec(r)} /\ cl[r].op \in Op
    BY <1>0, <1>4 DEF MutateDone, MutationHeld
  <2>2. Enter(r, "release", cl[r].op) /\ mut' = [mut EXCEPT ![r] = mut[r] \ {p}]
    BY <1>4, <2>1 DEF MutateDone, Exec
  <2>3. mut'[r] = {} /\ \A s \in Request : s # r => mut'[s] = mut[s]
    BY <1>0, <2>1, <2>2 DEF LeaseTypeOK
  <2>4. /\ cl'[r].phase = "release" /\ cl'[r].call = None /\ cl'[r].op = cl[r].op
        /\ \A s \in Request : s # r => cl'[s] = cl[s]
    BY <1>0, <2>1, <2>2, EnterFields DEF Phase
  <2>5. ClientServed(r, own)'
    BY <1>0, <1>1, <2>1, <2>3, <2>4, ThroughClient DEF OwnOperation
  <2>6. Forward
    BY <2>4 DEF Forward
  <2>7. QED
    BY <1>3, <2>3, <2>4, <2>5, <2>6
<1>5. ASSUME CallFails(r) \/ CallDeadExecutor(r) PROVE Leases(own)'
  <2>1. Failed(r) /\ UNCHANGED mut
    BY <1>5 DEF CallFails, CallDeadExecutor
  <2>2. cl[r].phase # "mutate"
    <3>1. CASE CallFails(r)
      BY <1>0, <3>1 DEF CallFails, Lose, Undisturbed, LeaseTypeOK
    <3>2. CASE CallDeadExecutor(r)
      BY <1>0, <3>2 DEF CallDeadExecutor, Holds, Exec, Alive
    <3>3. QED
      BY <1>5, <3>1, <3>2
  <2>3. ClientServed(r, own)' /\ Forward /\ \A s \in Request : s # r => cl'[s] = cl[s]
    BY <1>1, <2>1, <2>2, FailedClient
  <2>4. QED
    BY <1>3, <2>1, <2>3
<1>6. ASSUME Exhausted(r) PROVE Leases(own)'
  <2>1. cl[r].phase # "mutate" /\ mut[r] = {} /\ UNCHANGED mut
    BY <1>0, <1>6 DEF Exhausted, Holds, MutationHeld
  <2>2. Enter(r, "done", cl[r].op) /\ cl[r].op \in Op \cup {0}
    BY <1>0, <1>6, <2>1 DEF Exhausted, GiveUp, ClientRecord
  <2>3. /\ cl'[r].phase = "done" /\ cl'[r].call = None
        /\ \A s \in Request : s # r => cl'[s] = cl[s]
    BY <1>0, <2>2, EnterFields DEF Phase
  <2>4. ClientServed(r, own)' /\ Forward
    BY <1>1, <2>1, <2>3, ThroughClient DEF Forward
  <2>5. QED
    BY <1>3, <2>1, <2>3, <2>4
<1>7. QED
  BY <1>4, <1>5, <1>6

-----------------------------------------------------------------------------
(* Executors end. *)

\* What the death of an executor does, but for the requests of its session.
LEMMA CrashFacts ==
    ASSUME NEW own \in Owners, ProviderInv, Leases(own), NEW p \in Pid, Crash(p)
    PROVE  /\ UNCHANGED <<boot, nextOp, files, index, claims>> /\ NoneRevived
           /\ procs'[p] = None /\ Alive(p) /\ \A q \in Pid : q # p => procs'[q] = procs[q]
           /\ \A t \in Thread : IF h[t].pid = p THEN h'[t] = Idle ELSE h'[t] = h[t]
<1>1. procs \in [Pid -> Workspace \cup {None}] /\ spent \subseteq Pid
  BY DEF ProviderInv, LeaseTypeOK, TypeOK
<1>2. /\ UNCHANGED <<boot, nextOp, files, index, claims>> /\ procs[p] # None
      /\ procs' = [procs EXCEPT ![p] = None]
      /\ h' = [t \in Thread |-> IF h[t].pid \in {p} THEN Idle ELSE h[t]]
  BY DEF Crash, KillHandlers, disk
<1>3. procs'[p] = None /\ \A q \in Pid : q # p => procs'[q] = procs[q]
  BY <1>1, <1>2
<1>4. NoneRevived
  BY <1>1, <1>3 DEF NoneRevived
<1>5. QED
  BY <1>2, <1>3, <1>4 DEF Alive

\* The handlers of the others go on.
LEMMA CrashHandlers ==
    ASSUME NEW own \in Owners, ProviderInv, Leases(own), NEW p \in Pid, Crash(p), Forward,
           NEW t \in Thread
    PROVE  HandlerServes(h[t], own)'
<1>1. HandlerServes(h[t], own) /\ HandlerOK(h[t])
  BY LeaseFacts DEF ProviderInv
<1>2. CASE h[t].pid = p
  BY <1>2, CrashFacts, OtherHandler
<1>3. CASE h[t].pid # p
  <2>1. h[t].pc # "idle" => procs'[h[t].pid] # None
    BY <1>1, <1>3, CrashFacts DEF HandlerServes, HandlerOK, Alive
  <2>2. QED
    BY <1>3, <2>1, CrashFacts, OtherHandler
<1>4. QED
  BY <1>2, <1>3

\* So do the requests of other sessions.
LEMMA CrashClient ==
    ASSUME NEW own \in Owners, ProviderInv, Leases(own), NEW p \in Pid, Crash(p),
           NEW s \in Request, Exec(s) # p, cl'[s] = cl[s], mut'[s] \subseteq mut[s],
           exec'[WorkspaceOf[s]] = exec[WorkspaceOf[s]]
    PROVE  ClientServed(s, own)'
<1>1. CallServed(s) /\ Holds(s) /\ Exec(s) \in Pid \cup {None}
  BY ClientFacts
<1>2. ASSUME NEW u \in Thread PROVE h'[u] = h[u] \/ (cl[s].call # u /\ h'[u].req # s)
  <2>1. CASE h[u].pid = p
    BY <1>1, <2>1, CrashFacts, JournalAssumption DEF CallServed, Idle
  <2>2. CASE h[u].pid # p
    BY <2>2, CrashFacts
  <2>3. QED
    BY <2>1, <2>2
<1>3. cl[s].phase = "mutate" => procs'[Exec(s)] # None
  BY <1>1, CrashFacts DEF Holds, Alive
<1>4. QED
  BY <1>2, <1>3, CrashFacts, OtherClient

\* A request whose executor dies outside of a mutation has no handler left.
LEMMA CrashedClient ==
    ASSUME NEW own \in Owners, ProviderInv, Leases(own), NEW p \in Pid, Crash(p),
           NEW r \in Request, Exec(r) = p, cl[r].phase # "mutate",
           cl'[r].phase = cl[r].phase, cl'[r].op = cl[r].op, cl'[r].call = None, mut'[r] = {},
           exec'[WorkspaceOf[r]] \in {None, p}
    PROVE  ClientServed(r, own)'
<1>0. /\ OwnOperation(r, own) /\ Alone(r) /\ OneExecutor(r, own)
      /\ \A o \in Op : o < nextOp => own[o].pid \in Pid
  BY ClientFacts DEF Leases, OwnersOK, Owner
<1>1. /\ UNCHANGED <<boot, nextOp, files, index, claims>> /\ procs'[p] = None
      /\ \A q \in Pid : q # p => procs'[q] = procs[q]
      /\ \A t \in Thread : IF h[t].pid = p THEN h'[t] = Idle ELSE h'[t] = h[t]
  BY CrashFacts
<1>2. CallServed(r)' /\ OwnOperation(r, own)' /\ Holds(r)' /\ MutationHeld(r)'
  BY <1>0, <1>1 DEF CallServed, OwnOperation, Holds, MutationHeld
<1>3. Alone(r)'
  BY <1>0, <1>1, JournalAssumption DEF Alone, Wants, Idle
<1>4. OneExecutor(r, own)'
  BY <1>0, <1>1 DEF OneExecutor, Wants, Alive
<1>5. StillQueued(r, own)'
  BY <1>1 DEF StillQueued, Exec, Alive
<1>6. QED
  BY <1>2, <1>3, <1>4, <1>5 DEF ClientServed

\* The pids given out stay so, and no executor changes its session.
LEMMA CrashExecs ==
    ASSUME NEW own \in Owners, ProviderInv, Leases(own), NEW p \in Pid, Crash(p), spent' = spent,
           \A w \in Workspace : exec'[w] \in {None, exec[w]}
    PROVE  ExecsOK'
<1>1. /\ ExecsOK /\ spent \subseteq Pid
      /\ procs'[p] = None /\ \A q \in Pid : q # p => procs'[q] = procs[q]
  BY CrashFacts DEF Leases, ProviderInv, LeaseTypeOK
<1>2. \A q \in Pid : procs'[q] = None \/ procs'[q] = procs[q]
  BY <1>1
<1>3. QED
  BY <1>1, <1>2 DEF ExecsOK, Alive

\* A request that resets its session has no handler left in the executor that ends,
\* or is not interested in it any more.
LEMMA ResetKeeps ==
    ASSUME Undisturbed, NEW own \in Owners, ProviderInv, Leases(own), LeaseNext,
           NEW r \in Request, ResetSession(r)
    PROVE  Leases(own)'
<1> DEFINE p == exec[WorkspaceOf[r]]
<1>0. /\ LeaseTypeOK /\ cl \in [Request -> ClientRecord] /\ WorkspaceOf[r] \in Workspace
      /\ CallServed(r) /\ OwnOperation(r, own) /\ Holds(r) /\ MutationHeld(r) /\ Alone(r)
      /\ OneExecutor(r, own) /\ Exec(r) \in Pid \cup {None}
      /\ \A o \in Op : o < nextOp => own[o].pid \in Pid
  BY ClientFacts DEF Leases, OwnersOK, Owner
<1>1. /\ cl[r].pos = "failed" /\ Retry(r) /\ exec' = [exec EXCEPT ![WorkspaceOf[r]] = None]
      /\ UNCHANGED spent /\ p = Exec(r)
      /\ IF p = None \/ procs[p] = None
           THEN UNCHANGED <<vars, mut>>
           ELSE \/ Crash(p) /\ mut' = [s \in Request |-> mut[s] \ {p}]
                \/ cl[r].phase \in Orphans /\ UNCHANGED <<vars, mut>>
  BY DEF ResetSession, Exec
<1> HIDE DEF p
<1>2. cl[r].phase # "mutate" /\ mut[r] = {} /\ cl[r].call = None
  BY <1>0, <1>1 DEF Holds, MutationHeld, CallServed
<1>3. /\ cl'[r].phase = cl[r].phase /\ cl'[r].op = cl[r].op /\ cl'[r].call = None
      /\ \A s \in Request : s # r => cl'[s] = cl[s]
  BY <1>0, <1>1, <1>2, RetryFields
<1>4. /\ Forward /\ exec'[WorkspaceOf[r]] = None
      /\ \A w \in Workspace : w # WorkspaceOf[r] => exec'[w] = exec[w]
      /\ \A s \in Request : s # r => WorkspaceOf[s] \in Workspace /\ WorkspaceOf[s] # WorkspaceOf[r]
  BY <1>0, <1>1, <1>3, JournalAssumption DEF Forward, LeaseTypeOK, Undisturbed
<1>5. ASSUME UNCHANGED <<vars, mut>>,
             p = None \/ procs[p] = None \/ cl[r].phase \in {"release", "done"}
      PROVE  Leases(own)'
  <2>1. UNCHANGED <<boot, procs, nextOp, files, index, claims, h, mut>>
    BY <1>5 DEF vars
  <2>2. NoneRevived /\ ExecsOK'
    BY <1>0, <1>1, <1>4, <2>1 DEF NoneRevived, Leases, ExecsOK, Alive
  <2>3. ASSUME NEW t \in Thread PROVE HandlerServes(h[t], own)'
    <3>1. HandlerServes(h[t], own)
      BY DEF Leases
    <3>2. QED
      BY <1>4, <2>1, <2>2, <3>1, OtherHandler DEF HandlerServes, Alive
  <2>4. ASSUME NEW s \in Request, s # r PROVE ClientServed(s, own)'
    <3>1. Holds(s)
      BY ClientFacts
    <3>2. QED
      BY <1>3, <1>4, <2>1, <2>2, <2>4, <3>1, OtherClient DEF Holds, Alive
  <2>5. ClientServed(r, own)'
    <3>1. CASE cl[r].phase \in {"release", "done"}
      BY <1>0, <1>2, <1>3, <2>1, <3>1, ThroughClient DEF OwnOperation
    <3>2. CASE p = None \/ procs[p] = None
      <4>1. \A t \in Thread : h[t].req = r => h[t].pid \in Pid /\ Alive(h[t].pid)
        <5> SUFFICES ASSUME NEW t \in Thread, h[t].req = r PROVE h[t].pid \in Pid /\ Alive(h[t].pid)
          OBVIOUS
        <5>1. HandlerServes(h[t], own) /\ HandlerOK(h[t])
          BY LeaseFacts DEF ProviderInv
        <5>2. QED
          BY <5>1, JournalAssumption DEF HandlerServes, HandlerOK
      <4>2. Alone(r)'
        BY <1>0, <1>1, <1>3, <2>1, <3>2, <4>1, JournalAssumption DEF Alone, Wants, Alive
      <4>3. OneExecutor(r, own)'
        BY <1>0, <1>1, <1>3, <2>1, <3>2, JournalAssumption DEF OneExecutor, Wants, Alive
      <4>4. CallServed(r)' /\ OwnOperation(r, own)' /\ Holds(r)' /\ MutationHeld(r)'
        BY <1>0, <1>2, <1>3, <2>1 DEF CallServed, OwnOperation, Holds, MutationHeld
      <4>5. StillQueued(r, own)'
        BY <1>4 DEF StillQueued, Exec
      <4>6. QED
        BY <4>2, <4>3, <4>4, <4>5 DEF ClientServed
    <3>3. QED
      BY <1>5, <3>1, <3>2
  <2>6. QED
    BY <1>1, <2>1, <2>2, <2>3, <2>4, <2>5, ProviderKeeps
<1>6. ASSUME p # None, Crash(p), mut' = [s \in Request |-> mut[s] \ {p}] PROVE Leases(own)'
  <2>1. p \in Pid /\ Alive(p)
    BY <1>0, <1>1, <1>6 DEF Crash, Alive
  <2>2. \A t \in Thread : HandlerServes(h[t], own)'
    BY <1>4, <1>6, <2>1, CrashHandlers
  <2>3. ExecsOK'
    BY <1>1, <1>4, <1>6, <2>1, CrashExecs
  <2>4. ASSUME NEW s \in Request, s # r PROVE ClientServed(s, own)'
    <3>1. Exec(s) # p
      BY <1>1, <1>6, <2>1, <2>4, Sessions DEF Leases
    <3>2. QED
      BY <1>3, <1>4, <1>6, <2>1, <2>4, <3>1, CrashClient
  <2>5. ClientServed(r, own)'
    BY <1>1, <1>2, <1>3, <1>4, <1>6, <2>1, CrashedClient
  <2>6. QED
    BY <1>1, <1>6, <2>1, <2>2, <2>3, <2>4, <2>5, CrashFacts, ProviderKeeps
<1>7. QED
  <2>1. cl[r].phase \in Orphans => cl[r].phase \in {"release", "done"}
    BY <1>0, <1>2 DEF Undisturbed, ClientRecord, Phase
  <2>2. QED
    BY <1>1, <1>5, <1>6, <2>1

\* No executor dies under a mutation; the requests of one that dies try again.
LEMMA DiesKeeps ==
    ASSUME Undisturbed, NEW own \in Owners, ProviderInv, Leases(own), LeaseNext,
           NEW w \in Workspace, ExecutorDies(w)
    PROVE  Leases(own)'
<1>0. LeaseTypeOK /\ cl \in [Request -> ClientRecord]
  BY DEF ProviderInv, LeaseTypeOK, ClientRecord
<1>1. PICK p \in Pid : p = exec[w]
  BY <1>0 DEF ExecutorDies, LeaseTypeOK
<1>2. /\ Crash(p) /\ Lose(Requests(w)) /\ mut' = [r \in Request |-> mut[r] \ {p}]
      /\ UNCHANGED <<exec, spent>>
  BY <1>1 DEF ExecutorDies
<1>3. \A r \in Request : WorkspaceOf[r] = w => cl[r].phase # "mutate"
  BY <1>0, <1>2 DEF Lose, Requests, Undisturbed, LeaseTypeOK
<1>4. ASSUME NEW r \in Request
      PROVE  /\ cl'[r].phase = cl[r].phase /\ cl'[r].op = cl[r].op
             /\ WorkspaceOf[r] = w => cl'[r].call = None
             /\ WorkspaceOf[r] # w => cl'[r] = cl[r]
  <2>1. CallServed(r)
    BY ClientFacts
  <2>2. QED
    BY <1>0, <2>1, DyingFields DEF CallServed
<1>5. Forward
  BY <1>4 DEF Forward
<1>6. \A t \in Thread : HandlerServes(h[t], own)'
  BY <1>2, <1>5, CrashHandlers
<1>7. ExecsOK'
  BY <1>2, CrashExecs
<1>8. ASSUME NEW s \in Request PROVE ClientServed(s, own)'
  <2>0. WorkspaceOf[s] \in Workspace /\ MutationHeld(s)
    BY ClientFacts
  <2>1. CASE WorkspaceOf[s] = w
    <3>1. Exec(s) = p /\ mut'[s] = {} /\ exec'[WorkspaceOf[s]] = p
      BY <1>1, <1>2, <1>3, <2>0, <2>1 DEF Exec, MutationHeld
    <3>2. QED
      BY <1>2, <1>3, <1>4, <2>1, <3>1, CrashedClient
  <2>2. CASE WorkspaceOf[s] # w
    <3>1. Exec(s) # p
      BY <1>1, <1>2, <2>0, <2>2, CrashFacts, JournalAssumption DEF Leases, ExecsOK, Exec, Alive
    <3>2. QED
      BY <1>2, <1>4, <2>2, <3>1, CrashClient
  <2>3. QED
    BY <2>1, <2>2
<1>9. QED
  BY <1>2, <1>6, <1>7, <1>8, CrashFacts, ProviderKeeps

\* Executors that nobody waits for end: of a session that was reset, or of a provider
\* whose requests are done.
LEMMA ExitKeeps ==
    ASSUME Undisturbed, NEW own \in Owners, ProviderInv, Leases(own), LeaseNext,
           (\E p \in Pid : OrphanExits(p)) \/ (\E w \in Workspace : ProviderExits(w))
    PROVE  Leases(own)'
<1>0. LeaseTypeOK /\ ExecsOK
  BY DEF ProviderInv, Leases
<1>1. ASSUME NEW p \in Pid, OrphanExits(p) PROVE Leases(own)'
  <2>1. /\ Crash(p) /\ mut' = [r \in Request |-> mut[r] \ {p}] /\ UNCHANGED <<exec, cl, spent>>
        /\ \A w \in Workspace : exec[w] # p
    BY <1>1 DEF OrphanExits
  <2>2. Forward
    BY <2>1 DEF Forward
  <2>3. \A s \in Request : ClientServed(s, own)'
    BY <2>1, JournalAssumption, CrashClient DEF Exec
  <2>4. QED
    BY <2>1, <2>2, <2>3, CrashFacts, CrashHandlers, CrashExecs, ProviderKeeps
<1>2. ASSUME NEW w \in Workspace, ProviderExits(w) PROVE Leases(own)'
  <2>1. /\ \A r \in Request : WorkspaceOf[r] = w => cl[r].phase = "done"
        /\ exec' = [exec EXCEPT ![w] = None] /\ UNCHANGED <<mut, cl, spent>> /\ exec[w] # None
    BY <1>2 DEF ProviderExits, Requests
  <2>2. PICK p \in Pid : p = exec[w]
    BY <1>0, <2>1 DEF LeaseTypeOK
  <2>3. IF procs[p] # None THEN Crash(p) ELSE UNCHANGED vars
    BY <1>2, <2>2 DEF ProviderExits
  <2>4. Forward /\ exec'[w] = None /\ \A v \in Workspace : v # w => exec'[v] = exec[v]
    BY <1>0, <2>1 DEF Forward, LeaseTypeOK
  <2>5. ASSUME NEW r \in Request, WorkspaceOf[r] = w, nextOp' = nextOp PROVE ClientServed(r, own)'
    <3>1. cl[r].call = None /\ mut[r] = {} /\ cl[r].phase = "done"
      BY <2>1, <2>5, ClientFacts DEF CallServed, MutationHeld
    <3>2. QED
      BY <2>1, <2>5, <3>1, ThroughClient
  <2>6. CASE Crash(p)
    <3>1. ASSUME NEW s \in Request PROVE ClientServed(s, own)'
      <4>0. WorkspaceOf[s] \in Workspace /\ nextOp' = nextOp
        BY <2>6, CrashFacts, JournalAssumption
      <4>1. CASE WorkspaceOf[s] # w
        <5>1. Exec(s) # p
          BY <1>0, <2>2, <2>6, <4>0, <4>1, CrashFacts, JournalAssumption DEF ExecsOK, Exec, Alive
        <5>2. QED
          BY <2>1, <2>4, <2>6, <4>0, <4>1, <5>1, CrashClient
      <4>2. QED
        BY <2>5, <4>0, <4>1
    <3>2. ExecsOK'
      BY <2>1, <2>4, <2>6, CrashExecs
    <3>3. QED
      BY <2>1, <2>4, <2>6, <3>1, <3>2, CrashFacts, CrashHandlers, ProviderKeeps
  <2>7. CASE UNCHANGED vars
    <3>1. UNCHANGED <<boot, procs, nextOp, files, index, claims, h>>
      BY <2>7 DEF vars
    <3>2. NoneRevived /\ ExecsOK'
      BY <1>0, <2>1, <2>4, <3>1 DEF NoneRevived, ExecsOK, Alive
    <3>3. ASSUME NEW t \in Thread PROVE HandlerServes(h[t], own)'
      <4>1. HandlerServes(h[t], own)
        BY DEF Leases
      <4>2. QED
        BY <2>4, <3>1, <3>2, <4>1, OtherHandler DEF HandlerServes, Alive
    <3>4. ASSUME NEW s \in Request PROVE ClientServed(s, own)'
      <4>1. WorkspaceOf[s] \in Workspace /\ Holds(s)
        BY ClientFacts
      <4>2. CASE WorkspaceOf[s] # w
        BY <2>1, <2>4, <3>1, <3>2, <4>1, <4>2, OtherClient DEF Holds, Alive
      <4>3. QED
        BY <2>5, <3>1, <4>2
    <3>5. QED
      BY <2>1, <3>1, <3>2, <3>3, <3>4, ProviderKeeps
  <2>8. QED
    BY <2>3, <2>6, <2>7
<1>3. QED
  BY <1>1, <1>2

-----------------------------------------------------------------------------
(* The leases in every behaviour. *)

\* Nothing takes a lease away before its request is through with it.
LEMMA NextLeases == Undisturbed /\ ProviderInv /\ LeaseInv /\ [LeaseNext]_leaseVars => LeaseInv'
<1> SUFFICES ASSUME Undisturbed, ProviderInv, LeaseInv, [LeaseNext]_leaseVars PROVE LeaseInv'
  OBVIOUS
<1>1. PICK own \in Owners : Leases(own)
  BY DEF LeaseInv
<1>2. CASE UNCHANGED leaseVars
  <2>1. UNCHANGED <<boot, procs, nextOp, files, index, claims, h, exec, mut, cl, spent>>
    BY <1>2 DEF leaseVars, vars, provider
  <2>2. NoneRevived /\ Forward /\ ExecsOK'
    BY <1>1, <2>1 DEF NoneRevived, Forward, Leases, ExecsOK, Alive
  <2>3. \A t \in Thread : HandlerServes(h[t], own)'
    BY <1>1, <2>1, <2>2, OtherHandler DEF Leases, HandlerServes, Alive
  <2>4. \A s \in Request : ClientServed(s, own)'
    BY <1>1, <2>1, <2>2, ClientFacts, OtherClient DEF Holds, Alive
  <2>5. QED
    BY <1>1, <2>1, <2>2, <2>3, <2>4, ProviderKeeps DEF LeaseInv
<1>3. CASE LeaseNext
  <2>1. ASSUME NEW t \in Thread, LeaseStep(t) \/ LeaseCancel(t) \/ LeaseIOError(t) PROVE LeaseInv'
    BY <1>1, <2>1, HandlerKeeps DEF LeaseInv
  <2>2. ASSUME NEW r \in Request, (\E p \in Pid : EnsureExecutor(r, p)) \/ ResetSession(r)
        PROVE  LeaseInv'
    BY <1>1, <1>3, <2>2, EnsureKeeps, ResetKeeps DEF LeaseInv
  <2>3. ASSUME NEW r \in Request, NEW t \in Thread, CallAcquire(r, t) \/ CallRelease(r, t)
        PROVE  LeaseInv'
    BY <1>1, <1>3, <2>3, CallAcquireKeeps, CallReleaseKeeps DEF LeaseInv
  <2>4. ASSUME NEW r \in Request,
               \/ CallMutate(r) \/ CallFails(r) \/ CallDeadExecutor(r) \/ Exhausted(r)
               \/ \E p \in Pid : MutateDone(r, p)
        PROVE  LeaseInv'
    BY <1>1, <1>3, <2>4, CallMutateKeeps, ClientKeeps DEF LeaseInv
  <2>5. ASSUME NEW t \in Thread, Deliver(t) PROVE LeaseInv'
    BY <1>1, <1>3, <2>5, DeliverKeeps DEF LeaseInv
  <2>6. ASSUME NEW w \in Workspace, ExecutorDies(w) \/ ProviderExits(w) PROVE LeaseInv'
    BY <1>1, <1>3, <2>6, DiesKeeps, ExitKeeps DEF LeaseInv
  <2>7. ASSUME NEW p \in Pid, OrphanExits(p) PROVE LeaseInv'
    BY <1>1, <1>3, <2>7, ExitKeeps DEF LeaseInv
  <2>8. QED
    BY <1>3, <2>1, <2>2, <2>3, <2>4, <2>5, <2>6, <2>7 DEF LeaseNext
<1>4. QED
  BY <1>2, <1>3

\* The invariant that carries the theorems below: an operation of the journal
\* belongs to one request for good, a handler works on the operation of the request
\* it serves, no handler of an earlier attempt is left when its request tries again,
\* and the claims of a granted lease stay until its request is through with it.
THEOREM LeaseInvariant ==
    ASSUME Undisturbed
    PROVE  LeaseSpec => [](ProviderInv /\ LeaseInv)
<1>1. LeaseInit => LeaseInv
  <2>1. [o \in Op |-> None] \in Owners
    BY DEF Owners
  <2>2. QED
    BY <2>1, InitLeases DEF LeaseInv
<1>2. ProviderInv /\ LeaseInv /\ [LeaseNext]_leaseVars => LeaseInv'
  BY NextLeases
<1>3. QED
  BY <1>1, <1>2, LeaseProviderInv, PTL DEF LeaseSpec

\* For any workspaces, requests and lock sets, and whatever executors die and calls
\* are lost outside of a mutation: a request that believes it holds its lease has
\* every lock of it claimed on the host, for an owner that a sweep finds active.
THEOREM LeaseBacked ==
    ASSUME Undisturbed
    PROVE  LeaseSpec => []LeaseIsBacked
<1>1. ProviderInv /\ LeaseInv => LeaseIsBacked
  <2> SUFFICES ASSUME ProviderInv, LeaseInv, NEW r \in Request, cl[r].phase = "mutate",
                      NEW l \in LockSet(r)
               PROVE  \E c \in claims : /\ c.op = cl[r].op /\ c.lock = l
                                        /\ operationJournalOwnerActive(c.pid, c.boot)
    BY DEF LeaseIsBacked
  <2>1. PICK own \in Owners : Leases(own)
    BY DEF LeaseInv
  <2>2. Claimed(r, cl[r].op, l) /\ Alive(Exec(r))
    BY <2>1, ClientFacts DEF Holds, Backed
  <2> DEFINE c == [op |-> cl[r].op, pid |-> Exec(r), boot |-> boot, lock |-> l]
  <2>3. c \in claims /\ c.op = cl[r].op /\ c.pid = Exec(r) /\ c.boot = boot /\ c.lock = l
    BY <2>2 DEF Claimed
  <2> HIDE DEF c
  <2>4. QED
    BY <2>2, <2>3 DEF operationJournalOwnerActive, processExists, Alive
<1>2. QED
  BY <1>1, LeaseInvariant, PTL

\* Two requests that have their leases were granted different operations, and the
\* claims of different operations do not conflict.
LEMMA HoldersCompatible ==
    ASSUME ProviderInv, LeaseInv, NEW r \in Request, NEW s \in Request, r # s,
           cl[r].phase = "mutate", cl[s].phase = "mutate"
    PROVE  \A k \in LockSet(r), l \in LockSet(s) : ~locksConflict(k, l)
<1>1. PICK own \in Owners : Leases(own)
  BY DEF LeaseInv
<1>2. /\ Backed(r, cl[r].op) /\ Backed(s, cl[s].op)
      /\ own[cl[r].op].req = r /\ own[cl[s].op].req = s
  BY <1>1, ClientFacts DEF Holds, OwnOperation
<1>3. cl[r].op # cl[s].op
  BY <1>2
<1>4. ASSUME NEW k \in LockSet(r), NEW l \in LockSet(s) PROVE ~locksConflict(k, l)
  <2> DEFINE c == [op |-> cl[r].op, pid |-> Exec(r), boot |-> boot, lock |-> k]
             d == [op |-> cl[s].op, pid |-> Exec(s), boot |-> boot, lock |-> l]
  <2>1. c \in claims /\ d \in claims
    BY <1>2 DEF Backed, Claimed
  <2>2. c.op # d.op /\ c.lock = k /\ d.lock = l
    BY <1>3
  <2> HIDE DEF c, d
  <2>3. QED
    BY <2>1, <2>2 DEF ProviderInv, LockInv, ClaimsNeverConflict
<1>5. QED
  BY <1>4

\* Likewise no two mutations whose lock sets conflict run on the host at the same
\* time: the exclusion the leases are for.
THEOREM LeaseMutationExclusion ==
    ASSUME Undisturbed
    PROVE  LeaseSpec => []MutationExclusion
<1>1. ProviderInv /\ LeaseInv => MutationExclusion
  <2> SUFFICES ASSUME ProviderInv, LeaseInv, NEW r \in Request, NEW s \in Request, r # s,
                      mut[r] # {}, mut[s] # {}
               PROVE  \A k \in LockSet(r), l \in LockSet(s) : ~locksConflict(k, l)
    BY DEF MutationExclusion
  <2>1. cl[r].phase = "mutate" /\ cl[s].phase = "mutate"
    BY ClientFacts DEF LeaseInv, MutationHeld
  <2>2. QED
    BY <2>1, HoldersCompatible
<1>2. QED
  BY <1>1, LeaseInvariant, PTL

-----------------------------------------------------------------------------
(* The protocol is the abstract lease service. *)

\* What the abstract service sees of a request.
StatusIn(phase) ==
    CASE phase = "acquire" -> "waiting"
      [] phase = "mutate" -> "holding"
      [] OTHER -> "done"

ServiceStatus == [r \in Request |-> StatusIn(cl[r].phase)]

\* At most one request changes its phase, from waiting or to the end.
PhaseStep ==
    \/ \A r \in Request : cl'[r].phase = cl[r].phase
    \/ \E r \in Request :
         /\ \A s \in Request : s # r => cl'[s].phase = cl[s].phase
         /\ cl[r].phase = "acquire" \/ cl'[r].phase \in {"release", "done"}

\* So it is with every step of the providers.
LEMMA NextPhaseStep == ProviderInv /\ LeaseInv /\ [LeaseNext]_leaseVars => PhaseStep
<1> SUFFICES ASSUME ProviderInv, LeaseInv, [LeaseNext]_leaseVars PROVE PhaseStep
  OBVIOUS
<1>0. PICK own \in Owners : Leases(own)
  BY DEF LeaseInv
<1>1. /\ cl \in [Request -> ClientRecord]
      /\ \A t \in Thread : h[t].op \in Op \cup {0}
  BY DEF ProviderInv, LeaseTypeOK, ClientRecord, LockInv, TypeOK, Handler
<1>2. UNCHANGED cl => PhaseStep
  BY DEF PhaseStep
<1>3. \A r \in Request : Failed(r) \/ Retry(r) \/ (\E t \in Thread \cup {None} : Calling(r, t)) => PhaseStep
  BY <1>1, FailedFields, RetryFields, CallingFields DEF PhaseStep
<1>4. ASSUME NEW r \in Request, NEW phase \in Phase, NEW op \in Op \cup {0}, Enter(r, phase, op),
             cl[r].phase = "acquire" \/ phase \in {"release", "done"}
      PROVE  PhaseStep
  BY <1>1, <1>4, EnterFields DEF PhaseStep
<1>5. CASE UNCHANGED leaseVars
  BY <1>2, <1>5 DEF leaseVars, provider
<1>6. ASSUME NEW r \in Request, \/ \E t \in Thread : CallAcquire(r, t) \/ CallRelease(r, t)
                                \/ CallMutate(r) \/ CallFails(r) \/ CallDeadExecutor(r)
                                \/ ResetSession(r) \/ (\E p \in Pid : EnsureExecutor(r, p))
      PROVE  PhaseStep
  BY <1>2, <1>3, <1>6
     DEF CallAcquire, CallRelease, CallMutate, CallFails, CallDeadExecutor, ResetSession, EnsureExecutor
<1>7. ASSUME NEW t \in Thread, Deliver(t) PROVE PhaseStep
  <2>1. CASE UNCHANGED cl
    BY <1>2, <2>1
  <2>2. ASSUME NEW r \in Request, cl[r].call = t, Delivered(r, h[t].res, h[t].op) PROVE PhaseStep
    <3>1. h[t].res \in {"granted", "queued"} => cl[r].phase = "acquire"
      BY <1>0, <1>7, <2>2, Granted DEF Deliver, Reply
    <3>2. QED
      BY <1>1, <1>3, <1>4, <2>2, <3>1 DEF Delivered, Phase
  <2>3. QED
    BY <1>7, <2>1, <2>2 DEF Deliver
<1>8. ASSUME NEW r \in Request, Exhausted(r) \/ (\E p \in Pid : MutateDone(r, p)) PROVE PhaseStep
  <2>1. cl[r].op \in Op \cup {0}
    BY <1>1 DEF ClientRecord
  <2>2. QED
    BY <1>2, <1>4, <1>8, <2>1 DEF Exhausted, GiveUp, MutateDone, Phase
<1>9. ASSUME NEW w \in Workspace, ExecutorDies(w) PROVE PhaseStep
  BY <1>1, <1>9, DyingFields DEF PhaseStep
<1>10. ASSUME (\E p \in Pid : OrphanExits(p)) \/ (\E w \in Workspace : ProviderExits(w)) PROVE PhaseStep
  BY <1>2, <1>10 DEF OrphanExits, ProviderExits
<1>11. ASSUME NEW t \in Thread, LeaseStep(t) \/ LeaseCancel(t) \/ LeaseIOError(t) PROVE PhaseStep
  BY <1>2, <1>11 DEF LeaseStep, LeaseCancel, LeaseIOError, provider
<1>12. QED
  BY <1>5, <1>6, <1>7, <1>8, <1>9, <1>10, <1>11 DEF LeaseNext

\* What holds of any two requests that mutate.
HoldersApart ==
    \A r, s \in Request :
        r # s /\ cl[r].phase = "mutate" /\ cl[s].phase = "mutate"
        => \A k \in LockSet(r), l \in LockSet(s) : ~locksConflict(k, l)

\* A step of the protocol is a step of the service or none: a grant is one because
\* the request holds its lease in the next state, beside those that held theirs.
LEMMA ServiceStep ==
    ASSUME ProviderInv, ProviderInv', HoldersApart', PhaseStep
    PROVE  [Service!ServiceNext]_ServiceStatus
<1>0. /\ \A r \in Request : cl[r].phase \in Phase /\ cl'[r].phase \in Phase
      /\ \A r \in Request : /\ ServiceStatus[r] = StatusIn(cl[r].phase)
                            /\ ServiceStatus'[r] = StatusIn(cl'[r].phase)
  BY DEF ProviderInv, LeaseTypeOK, ServiceStatus
<1>1. CASE \A r \in Request : ServiceStatus'[r] = ServiceStatus[r]
  BY <1>1 DEF ServiceStatus
<1>2. ASSUME NEW r \in Request, \A s \in Request : s # r => cl'[s].phase = cl[s].phase,
             cl[r].phase = "acquire" \/ cl'[r].phase \in {"release", "done"},
             ServiceStatus'[r] # ServiceStatus[r]
      PROVE  Service!ServiceNext
  <2>1. \A s \in Request : s # r => ServiceStatus'[s] = ServiceStatus[s]
    BY <1>0, <1>2
  <2>2. ServiceStatus' = [ServiceStatus EXCEPT ![r] = StatusIn(cl'[r].phase)]
    BY <1>0, <2>1 DEF ServiceStatus
  <2>3. CASE cl[r].phase = "acquire" /\ cl'[r].phase = "mutate"
    <3>1. ServiceStatus[r] = "waiting" /\ StatusIn(cl'[r].phase) = "holding"
      BY <1>0, <2>3 DEF StatusIn
    <3>2. ASSUME NEW s \in Request \ {r}, ServiceStatus[s] = "holding" PROVE Service!Compatible(r, s)
      <4>1. cl'[s].phase = "mutate"
        BY <1>0, <1>2, <3>2 DEF StatusIn
      <4>2. \A k \in LockSet(r), l \in LockSet(s) : ~locksConflict(k, l)
        BY <2>3, <4>1 DEF HoldersApart
      <4>3. QED
        BY <4>2 DEF Service!Compatible, Service!locksConflict, Service!isDominatingLockKey,
                    locksConflict, isDominatingLockKey
    <3>3. Service!Grant(r)
      BY <2>2, <3>1, <3>2 DEF Service!Grant, ServiceStatus, StatusIn
    <3>4. QED
      BY <3>3 DEF Service!ServiceNext
  <2>4. CASE cl[r].phase = "acquire" /\ cl'[r].phase \in {"release", "done"}
    <3>1. ServiceStatus[r] = "waiting" /\ StatusIn(cl'[r].phase) = "done"
      BY <1>0, <2>4 DEF StatusIn
    <3>2. Service!GiveUp(r)
      BY <2>2, <3>1 DEF Service!GiveUp, ServiceStatus, StatusIn
    <3>3. QED
      BY <3>2 DEF Service!ServiceNext
  <2>5. CASE cl[r].phase = "mutate" /\ cl'[r].phase \in {"release", "done"}
    <3>1. ServiceStatus[r] = "holding" /\ StatusIn(cl'[r].phase) = "done"
      BY <1>0, <2>5 DEF StatusIn
    <3>2. Service!LetGo(r)
      BY <2>2, <3>1 DEF Service!LetGo, ServiceStatus, StatusIn
    <3>3. QED
      BY <3>2 DEF Service!ServiceNext
  <2>6. QED
    BY <1>0, <1>2, <2>3, <2>4, <2>5 DEF Phase, StatusIn
<1>3. QED
  BY <1>0, <1>1, <1>2 DEF PhaseStep

\* The protocol implements the service it promises: for any workspaces, requests and
\* lock sets, what the requests see of executors, journal files, retries and losses is
\* that a lease is granted at once, when no other holder has a conflicting one.
THEOREM LeaseImplementsService ==
    ASSUME Undisturbed
    PROVE  LeaseSpec => ImplementsService
<1>1. LeaseInit => Service!ServiceInit
  BY DEF LeaseInit, NewClient, Service!ServiceInit
<1>2. ProviderInv /\ LeaseInv => HoldersApart
  BY HoldersCompatible DEF HoldersApart
<1>3. /\ ProviderInv /\ LeaseInv /\ ProviderInv' /\ HoldersApart' /\ [LeaseNext]_leaseVars
      => [Service!ServiceNext]_ServiceStatus
  BY NextPhaseStep, ServiceStep
<1>4. QED
  BY <1>1, <1>2, <1>3, LeaseInvariant, PTL
     DEF LeaseSpec, ImplementsService, Service!ServiceSpec, ServiceStatus, StatusIn
=============================================================================
