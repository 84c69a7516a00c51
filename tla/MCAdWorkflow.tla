---------------------------- MODULE MCAdWorkflow ----------------------------
\* The constants of AdWorkflow for TLC.
EXTENDS AdWorkflow, TLC

\* Both users are in Staff, and nothing else tells users or workers apart.
Symmetry == Permutations(Workers) \cup Permutations(Users)
=============================================================================
