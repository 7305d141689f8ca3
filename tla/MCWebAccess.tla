----------------------------- MODULE MCWebAccess -----------------------------
EXTENDS WebAccess, TLC

\* Handlers run the same code; tokens are random; the two addresses differ
\* in nothing the code looks at.
MCSymmetry ==
    Permutations(Handlers) \cup Permutations(Tokens) \cup Permutations(Clients)
=============================================================================
