-------------------------- MODULE MCStreamAdmission --------------------------
EXTENDS StreamAdmission, TLC

CONSTANTS c1, c2, c3, r1, r2, r3, r4

\* Two requests of one address compete for its quota; two other addresses
\* compete with it for registry entries and global slots.
MCClients == {c1, c2, c3}
MCRequests == {r1, r2, r3, r4}
MCPeer == (r1 :> c1) @@ (r2 :> c1) @@ (r3 :> c2) @@ (r4 :> c3)

\* A smaller instance: two requests of c1 and one of c2.
MCFewRequests == {r1, r2, r3}
MCFewPeer == (r1 :> c1) @@ (r2 :> c1) @@ (r3 :> c2)

\* The requests of c1 are interchangeable, and so are heap identities.
MCSymmetry == Permutations({r1, r2}) \cup Permutations(Limits)
=============================================================================
