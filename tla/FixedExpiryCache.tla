-------------------------- MODULE FixedExpiryCache --------------------------
(***************************************************************************)
(* One entry of messaging/cache.py's FixedExpiryDatabaseCache, a counter   *)
(* with an expiry that counting does not move.  Time is in ticks, Second   *)
(* of them to a second; the table keeps whole seconds, and the operations  *)
(* disagree by up to a second on when an entry is over:                    *)
(*   incr refuses it from its expiry on, get after it, and add replaces it *)
(*   from the following second on.                                         *)
(***************************************************************************)
EXTENDS Integers

CONSTANT Second     \* ticks of the clock in a second

ASSUME SecondAssumption == Second \in Nat \ {0}

Absent == [value |-> 0, expires |-> 0]

Floor(t) == t - (t % Second)

Entry == [value : Nat, expires : Nat]

\* add of 1 that began at the time at: the row it inserts or replaces, if any.
Inserts(e, at) == e = Absent \/ e.expires < Floor(at)
Fresh(at, timeout) == [value |-> 1, expires |-> Floor(at + timeout)]

\* incr, under the lock of the row; it raises ValueError when it does not count.
Counts(e, now) == e # Absent /\ now < e.expires
Incremented(e) == [e EXCEPT !.value = @ + 1]

\* get with default 0; Django deletes an entry it finds past its expiry.
Kept(e, now) == IF e.expires < now THEN Absent ELSE e
=============================================================================
