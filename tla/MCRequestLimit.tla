---------------------------- MODULE MCRequestLimit ----------------------------
\* The constants of RequestLimit for TLC; see the configuration.
EXTENDS RequestLimit, TLC

Symmetry == Permutations(Workers)
=============================================================================
