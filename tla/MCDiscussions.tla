---------------------------- MODULE MCDiscussions ----------------------------
(* The constants of Discussions for TLC; see the two configurations.  The     *)
(* advertisement x is the administrator's, any other the user's own.          *)
EXTENDS Discussions, TLC

CONSTANTS x, user, admin

Owners == [a \in Ads |-> IF a = x THEN admin ELSE user]
Symmetry == Permutations(Workers)
=============================================================================
