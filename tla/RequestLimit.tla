---------------------------- MODULE RequestLimit ----------------------------
(***************************************************************************)
(* users/rate_limit.request_limit_wait for one address or account: one     *)
(* counter to each window of the clock, an entry of FixedExpiryCache, that *)
(* workers read the clock for and count in at their own pace, without a    *)
(* lock.                                                                   *)
(***************************************************************************)
EXTENDS FixedExpiryCache, FiniteSets

CONSTANTS
    Workers,        \* gunicorn workers, each serving one request at a time
    Window,         \* ticks of a window (60 s)
    Limit,          \* requests in it (10 to 30)
    MaxClock,       \* bound: ticks the clock makes
    MaxRequests     \* bound: requests begun in a window

ASSUME RequestLimitAssumption ==
    /\ Window \in Nat \ {0} /\ Limit \in Nat \ {0}
    /\ MaxClock \in Nat /\ MaxRequests \in Nat
    /\ Window % Second = 0

VARIABLES
    clock,          \* ticks
    entry,          \* window -> its counter
    req,            \* worker -> the request it is serving
    begun,          \* window -> requests begun in it
    answered        \* history: window -> prompt requests let through and refused

vars == <<clock, entry, req, begun, answered>>

----------------------------------------------------------------------------
Windows == 0..(MaxClock \div Window)
WindowOf(t) == t \div Window
EndOf(n) == (n + 1) * Window

\* wait = max(1, ceil(window - now % window)), in ticks of whole seconds.
Wait(t) == Floor(Window - (t % Window) + Second - 1)

Idle == [pc |-> "idle", window |-> 0, wait |-> 0, at |-> 0, tries |-> 0]
Become(w, r) == req' = [req EXCEPT ![w] = r]

Init ==
    /\ clock = 0
    /\ entry = [n \in Windows |-> Absent]
    /\ req = [w \in Workers |-> Idle]
    /\ begun = [n \in Windows |-> 0]
    /\ answered = [n \in Windows |-> [through |-> 0, refused |-> 0]]

Stamp(w) ==
    /\ req[w].pc = "idle"
    /\ begun[WindowOf(clock)] < MaxRequests
    /\ begun' = [begun EXCEPT ![WindowOf(clock)] = @ + 1]
    /\ Become(w, [Idle EXCEPT !.pc = "time", !.window = WindowOf(clock), !.wait = Wait(clock)])
    /\ UNCHANGED <<clock, entry, answered>>

\* The clock add reads for its expiry, before its INSERT.
Time(w) ==
    /\ req[w].pc = "time"
    /\ Become(w, [req[w] EXCEPT !.pc = "insert", !.at = clock])
    /\ UNCHANGED <<clock, entry, begun, answered>>

\* A request is prompt if it is answered no later than a second after its window.
Prompt(n) == clock < EndOf(n) + Second

Answer(w, kind) ==
    /\ Become(w, Idle)
    /\ answered' = IF Prompt(req[w].window)
                   THEN [answered EXCEPT ![req[w].window][kind] = @ + 1]
                   ELSE answered

\* Mutant of Timeout: the counter is kept for the wait alone.
TimeoutShort(r) == r.wait

Timeout(r) == r.wait + Second

Insert(w) ==
    /\ req[w].pc = "insert"
    /\ LET n == req[w].window
       IN  IF Inserts(entry[n], req[w].at)
           THEN /\ entry' = [entry EXCEPT ![n] = Fresh(req[w].at, Timeout(req[w]))]
                /\ Answer(w, "through")
           ELSE /\ Become(w, [req[w] EXCEPT !.pc = "incr"])
                /\ UNCHANGED <<entry, answered>>
    /\ UNCHANGED <<clock, begun>>

\* Mutant of Verdict: the last request of the limit is refused.
VerdictEarly(count) == IF count >= Limit THEN "refused" ELSE "through"

Verdict(count) == IF count > Limit THEN "refused" ELSE "through"

\* Mutant of Expired: the loop tries for ever.
ExpiredForever(w) ==
    /\ Become(w, [req[w] EXCEPT !.pc = "time", !.tries = @ + 1])
    /\ UNCHANGED answered

\* The ValueError of incr: one more turn of the loop, then a refusal.
Expired(w) ==
    IF req[w].tries = 0
    THEN /\ Become(w, [req[w] EXCEPT !.pc = "time", !.tries = 1])
         /\ UNCHANGED answered
    ELSE Answer(w, "refused")

Incr(w) ==
    /\ req[w].pc = "incr"
    /\ LET n == req[w].window
       IN  IF Counts(entry[n], clock)
           THEN /\ entry' = [entry EXCEPT ![n] = Incremented(@)]
                /\ Answer(w, Verdict(entry[n].value + 1))
           ELSE /\ Expired(w)
                /\ UNCHANGED entry
    /\ UNCHANGED <<clock, begun>>

Tick ==
    /\ clock < MaxClock
    /\ clock' = clock + 1
    /\ UNCHANGED <<entry, req, begun, answered>>

Next ==
    \/ \E w \in Workers : Stamp(w) \/ Time(w) \/ Insert(w) \/ Incr(w)
    \/ Tick

Spec == Init /\ [][Next]_vars

----------------------------------------------------------------------------
(* Properties.                                                             *)

Served == [ pc : {"idle", "time", "insert", "incr"}, window : Windows, wait : Nat,
            at : 0..MaxClock, tries : {0, 1} ]

\* The variables keep their types; the loop of request_limit_wait ends.
TypeOK ==
    /\ clock \in 0..MaxClock
    /\ entry \in [Windows -> Entry]
    /\ req \in [Workers -> Served]
    /\ begun \in [Windows -> Nat]
    /\ answered \in [Windows -> [through : Nat, refused : Nat]]

\* A counter lives to the end of its window and a second more, whoever inserted it
\* and whenever: no request that is not late by more finds its count gone.
CountersOutliveTheirWindow ==
    \A n \in Windows : entry[n] # Absent => entry[n].expires >= EndOf(n) + Second

\* Of the prompt requests of a window exactly the limit is let through before the
\* first is refused, however the workers' adds and increments interleave.
PromptRequestsGetTheLimit ==
    \A n \in Windows :
        /\ answered[n].through <= Limit
        /\ answered[n].refused > 0 => answered[n].through = Limit
=============================================================================
