------------------------------ MODULE MCSignup ------------------------------
\* The constants of Signup for TLC; see the two configurations.
EXTENDS Signup, TLC
Symmetry == Permutations(Workers)
=============================================================================
