---------------------------- MODULE MCAuthLimiter ----------------------------
EXTENDS AuthLimiter, TLC

\* Attempts are interchangeable, and so are (address, share) pairs.
MCSymmetry == Permutations(Attempts) \cup Permutations(Keys)
=============================================================================
