--------------------------- MODULE MCSessionStore ---------------------------
EXTENDS SessionStore, TLC

\* Tokens, addresses and shares have no structure the store can see.
MCSymmetry ==
    Permutations(Tokens) \cup Permutations(Clients) \cup Permutations(Shares)
=============================================================================
