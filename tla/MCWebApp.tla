------------------------------ MODULE MCWebApp ------------------------------
EXTENDS WebApp, TLC

\* Shares have no structure the client looks at.
MCSymmetry == Permutations(Shares)
=============================================================================
