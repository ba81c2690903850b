-------------------------- MODULE MCResourceEngine --------------------------
EXTENDS ResourceEngine

CONSTANTS r1, r2, h1, h2

\* Two resources of a type that has keys, one of a type that has not, and an
\* fstab entry beside the swap switch.
MCScenarios ==
  {f \in [Resource -> Types \cup {None}] :
     \E r \in Resource : \A q \in Resource \ {r} :
       \/ f[r] \in KeyedTypes /\ f[q] = f[r]
       \/ f[r] \in Types \ KeyedTypes /\ f[q] = None
       \/ f[r] = "fstab_entry" /\ f[q] = "swap"}

Symmetric == Permutations(Resource)
=============================================================================
