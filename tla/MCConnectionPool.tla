-------------------------- MODULE MCConnectionPool --------------------------
EXTENDS ConnectionPool, TLC

CONSTANTS w1, w2, w3, k1, k2

\* Two workers share a host, the third is what fills the pool.
mcTarget == (w1 :> k1) @@ (w2 :> k1) @@ (w3 :> k2)

\* One of the two has a host key in its state.
mcWant == (w1 :> 1) @@ (w2 :> 0) @@ (w3 :> 0)
=============================================================================
