------------------------------ MODULE GuestOps ------------------------------
(***************************************************************************)
(* What the guest packs have in common: an operation on the host is a      *)
(* sequence of calls of the executor's capabilities, and each of them may  *)
(* fail, or be the last one before the executor dies.  An operation is the *)
(* set of its outcomes [h, out]: the host it leaves and what it returns, a *)
(* resource state, or one of                                               *)
(*   Nil      the resource is absent;                                      *)
(*   Refused  an error that leaves the host as it was: the operation was   *)
(*            asked for something it rejects, or it undid what it had done;*)
(*   Failed   any other error of a capability, or no answer at all.        *)
(***************************************************************************)
EXTENDS Naturals, Sequences, FiniteSets, SequencesExt

CONSTANTS Nil, Refused, Failed

\* A resource state, not an error and not absence.
IsState(out) == out \notin {Nil, Refused, Failed}

Outcome(h, out) == [h |-> h, out |-> out]

Refuse(h) == {Outcome(h, Refused)}

\* A call that reads only: it answers, or it fails.
Answers(h, out) == {Outcome(h, out), Outcome(h, Failed)}

\* The hosts hs passes through, one per call that changes it: every call may be
\* the one that fails, and the answer that follows the last one may be lost.
Run(hs, out) == {Outcome(hs[i], Failed) : i \in DOMAIN hs} \cup {Outcome(Last(hs), out)}

\* What f returns as steps that follow those of hs.
Then(hs, f) == {Outcome(hs[i], Failed) : i \in 1 .. Len(hs) - 1} \cup f

\* A change whose calls are made only where they change something: the hosts before
\* the last call that does, and the same for Then and Run.
Passed(hs) == {hs[i] : i \in {n \in DOMAIN hs : \E m \in n .. Len(hs) : hs[m] # Last(hs)}}
ChangeThen(hs, f) == {Outcome(h, Failed) : h \in Passed(hs)} \cup f
Change(hs, out) == ChangeThen(hs, Answers(Last(hs), out))

\* The n-th smallest of the positions S, and the elements of seq at S in their order.
Nth(S, n) == CHOOSE i \in S : Cardinality({j \in S : j <= i}) = n
At(seq, S) == [n \in 1 .. Cardinality(S) |-> seq[Nth(S, n)]]

\* An entry of a line-based configuration file, and a line the packs keep as it is:
\* a comment, a blank line, or one they cannot parse.
Entry(k, v) == [t |-> "entry", k |-> k, v |-> v]
RawLine(v) == [t |-> "raw", k |-> "", v |-> v]

IsEntry(line, k) == line.t = "entry" /\ line.k = k

\* The positions of the entries with key k, and the first of them.
Positions(doc, k) == {i \in DOMAIN doc : IsEntry(doc[i], k)}
FirstEntry(doc, k) == doc[CHOOSE i \in Positions(doc, k) : \A j \in Positions(doc, k) : i <= j]
HasEntry(doc, k) == Positions(doc, k) # {}

ReplaceAllEntries(doc, k, line) == [i \in DOMAIN doc |-> IF IsEntry(doc[i], k) THEN line ELSE doc[i]]
DropEntries(doc, k) == At(doc, DOMAIN doc \ Positions(doc, k))

\* Keep the first occurrence of every element.
Dedup(s) == At(s, {i \in DOMAIN s : \A j \in 1 .. i - 1 : s[j] # s[i]})
=============================================================================
