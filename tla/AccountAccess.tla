--------------------------- MODULE AccountAccess ---------------------------
(***************************************************************************)
(* What the users application promises about one account, with no request  *)
(* handlers, copies or locks: the password has a history of changes, and   *)
(* the account answers only to credentials proved since the last one.      *)
(***************************************************************************)
EXTENDS Naturals, Sequences

VARIABLES
    log,            \* the password changes so far, oldest first
    honoured        \* the epochs of the credentials the account answers to

Epoch == Len(log)

Init ==
    /\ log = << >>
    /\ honoured \subseteq {0}

\* Credentials are handed out, expire or are suspended; none of an earlier
\* epoch is ever honoured.
Serve ==
    /\ honoured' \subseteq {Epoch}
    /\ UNCHANGED log

\* The log grows by one change, which revokes everything at once.
Change ==
    /\ Len(log') = Epoch + 1
    /\ log' = Append(log, log'[Epoch + 1])
    /\ honoured' = {}

\* The owner's change is a compare-and-set: it was proved against the very
\* password it replaces.
OwnerChange ==
    /\ Change
    /\ log'[Epoch + 1].by = "owner"
    /\ log'[Epoch + 1].basis = Epoch

\* An administrator overwrites whatever password there is.
AdminChange ==
    /\ Change
    /\ log'[Epoch + 1].by = "admin"

Next == Serve \/ OwnerChange \/ AdminChange

Spec == Init /\ [][Next]_<<log, honoured>>
=============================================================================
