------------------------------ MODULE SendLimit ------------------------------
(***************************************************************************)
(* messaging/rate_limit.allow_send for one sender: windows of a fixed      *)
(* length for all messages and for messages that open a conversation, over *)
(* entries of FixedExpiryCache, while the clock runs between any two       *)
(* statements.                                                             *)
(*                                                                         *)
(* The caller holds the lock of the sender's row (module Messaging), so    *)
(* the sends of one account follow one another; the counters are in the    *)
(* caller's transaction and go back with it.                               *)
(***************************************************************************)
EXTENDS FixedExpiryCache, Sequences

CONSTANTS
    Window,         \* ticks of the window for messages (60 s)
    Limit,          \* messages in it (10)
    ThreadWindow,   \* ticks of the window for new conversations (30 s), one in each
    MaxClock        \* bound: ticks the clock makes

ASSUME SendLimitAssumption ==
    /\ {Window, Limit, ThreadWindow, MaxClock} \subseteq Nat \ {0}
    /\ Window % Second = 0 /\ ThreadWindow % Second = 0

VARIABLES
    clock,          \* ticks
    entry,          \* key -> the cache entry
    send,           \* the call being served, if any
    sent            \* history: the messages let through in the last Window ticks,
                    \* each with the expiry of the window it was let through in

vars == <<clock, entry, send, sent>>

----------------------------------------------------------------------------
Keys == {"message", "thread"}
LimitOf == [message |-> Limit, thread |-> 1]
WindowOf == [message |-> Window, thread |-> ThreadWindow]

\* ask, keys: the keys still to read and still to count; at: when the last add
\* began; before: the entries when the transaction began.
Limits(opens) == IF opens THEN <<"message", "thread">> ELSE <<"message">>
NoEntries == [k \in Keys |-> Absent]
Idle == [pc |-> "idle", ask |-> <<>>, keys |-> <<>>, opens |-> FALSE, at |-> 0, before |-> NoEntries]

Init ==
    /\ clock = 0
    /\ entry = NoEntries
    /\ send = Idle
    /\ sent = <<>>

\* Two calls of one sender never begin at the same instant.
Begin ==
    /\ send.pc = "idle"
    /\ sent # <<>> => sent[Len(sent)].at < clock
    /\ \E opens \in BOOLEAN :
           send' = [ pc |-> "ask", ask |-> Limits(opens), keys |-> Limits(opens),
                     opens |-> opens, at |-> 0, before |-> entry ]
    /\ UNCHANGED <<clock, entry, sent>>

\* Mutant of Full: the limit itself is let through.
FullLate(k) == Kept(entry[k], clock).value > LimitOf[k]

Full(k) == Kept(entry[k], clock).value >= LimitOf[k]

\* Mutant of Ask: the window of new conversations is not asked.
AskOne ==
    /\ send.pc = "ask"
    /\ entry' = [entry EXCEPT !["message"] = Kept(@, clock)]
    /\ send' = IF Full("message") THEN Idle ELSE [send EXCEPT !.pc = "time", !.ask = <<>>]
    /\ UNCHANGED <<clock, sent>>

\* any(cache.get(key, 0) >= limit ...): the first full window refuses.
Ask ==
    /\ send.pc = "ask"
    /\ LET k == Head(send.ask)
       IN  /\ entry' = [entry EXCEPT ![k] = Kept(@, clock)]
           /\ send' = IF Full(k) THEN Idle
                      ELSE [send EXCEPT !.ask = Tail(@), !.pc = IF Len(send.ask) = 1 THEN "time" ELSE "ask"]
    /\ UNCHANGED <<clock, sent>>

\* add reads the clock before its INSERT; "time again" is the add after a ValueError.
Time ==
    /\ send.pc \in {"time", "time again"}
    /\ send' = [send EXCEPT !.at = clock, !.pc = IF @ = "time" THEN "insert" ELSE "insert again"]
    /\ UNCHANGED <<clock, entry, sent>>

\* Mutant of Counted: the call returns after the first window.
CountedOne == [send EXCEPT !.pc = "allowed"]

\* The key is done with; after the last one the call returns True.
Counted ==
    [send EXCEPT !.keys = Tail(@), !.pc = IF Len(send.keys) = 1 THEN "allowed" ELSE "time"]

\* The second add's answer is not looked at: the message goes uncounted if it fails.
Insert ==
    /\ send.pc \in {"insert", "insert again"}
    /\ LET k == Head(send.keys)
       IN  IF Inserts(entry[k], send.at)
           THEN /\ entry' = [entry EXCEPT ![k] = Fresh(send.at, WindowOf[k])]
                /\ send' = Counted
           ELSE /\ send' = IF send.pc = "insert" THEN [send EXCEPT !.pc = "incr"] ELSE Counted
                /\ UNCHANGED entry
    /\ UNCHANGED <<clock, sent>>

Incr ==
    /\ send.pc = "incr"
    /\ LET k == Head(send.keys)
       IN  IF Counts(entry[k], clock)
           THEN /\ entry' = [entry EXCEPT ![k] = Incremented(@)]
                /\ send' = Counted
           ELSE /\ send' = [send EXCEPT !.pc = "time again"]
                /\ UNCHANGED entry
    /\ UNCHANGED <<clock, sent>>

\* The message is stored and the transaction ends.
Commit ==
    /\ send.pc = "allowed"
    /\ sent' = Append(sent, [ at |-> send.at, opens |-> send.opens,
                              window |-> entry["message"].expires ])
    /\ send' = Idle
    /\ UNCHANGED <<clock, entry>>

\* The message is refused elsewhere, or the worker dies: the counters go back.
Rollback ==
    /\ send.pc # "idle"
    /\ entry' = send.before
    /\ send' = Idle
    /\ UNCHANGED <<clock, sent>>

\* A message Window ticks old is forgotten; no two have the same age.
Forget(now) == IF sent # <<>> /\ Head(sent).at + Window <= now THEN Tail(sent) ELSE sent

Tick ==
    /\ clock < MaxClock
    /\ clock' = clock + 1
    /\ sent' = Forget(clock + 1)
    /\ UNCHANGED <<entry, send>>

Next ==
    \/ Begin \/ Ask \/ Time \/ Insert \/ Incr \/ Commit \/ Rollback
    \/ Tick

Spec == Init /\ [][Next]_vars

----------------------------------------------------------------------------
(* Properties.                                                             *)

Lists == {<<>>, <<"thread">>, Limits(TRUE), Limits(FALSE)}
Call == [ pc : {"idle", "ask", "time", "insert", "incr", "time again", "insert again", "allowed"},
          ask : Lists, keys : Lists, opens : BOOLEAN, at : 0..MaxClock, before : [Keys -> Entry] ]
Message == [at : 0..MaxClock, opens : BOOLEAN, window : Nat]

\* The variables keep their types, and a call that counts has read all its windows.
TypeOK ==
    /\ clock \in 0..MaxClock
    /\ entry \in [Keys -> Entry]
    /\ send \in Call
    /\ send.pc = "ask" <=> send.ask # <<>>
    /\ send.pc \in {"idle", "allowed"} <=> send.keys = <<>>
    /\ sent \in Seq(Message)

\* No minute holds more than two windows of messages and one more.  A message that
\* an expiring window lets through uncounted is no third: the window was read below
\* its limit.  The one more is the last of a window, long on its way to its add; a
\* whole window can lie between it and the next, since a second is cut off expiries.
AMinuteHoldsTwoWindowsAndOne == Len(sent) <= 2 * Limit + 1

\* Two new conversations of a sender are the whole window apart, less the second
\* that is cut off the expiry.
ConversationsKeepTheirDistance ==
    \A i, j \in DOMAIN sent :
        i < j /\ sent[i].opens /\ sent[j].opens =>
            sent[j].at > sent[i].at + ThreadWindow - Second

----------------------------------------------------------------------------
(* Why they hold.                                                          *)

\* The keys of a call are counted in their order, the message first.
Counting == send.pc \notin {"idle", "ask", "allowed"}
Stages ==
    /\ send.pc = "ask" => send.keys = Limits(send.opens)
    /\ send.ask \in {<<>>, Limits(send.opens)} \/ (send.opens /\ send.ask = <<"thread">>)
    /\ Counting => send.keys = Limits(send.opens) \/ (send.opens /\ send.keys = <<"thread">>)
    /\ send.at <= clock
    /\ Counting /\ send.keys = <<"thread">> => send.pc \in {"time", "insert"}

\* A call that counts a new conversation has found no entry for it, since one counts.
Vacant ==
    /\ \A f \in {entry["thread"], send.before["thread"]} : f = Absent \/ f.value >= 1
    /\ send.opens /\ Counting => entry["thread"] = Absent

\* Between two messages of one window lie less than Limit; only the last of a window
\* can be as late as its expiry, and the next window is a whole one later.
Spaced ==
    \A i, j \in DOMAIN sent : i < j =>
        /\ sent[i].at < sent[j].at /\ sent[i].at < sent[j].window
        /\ \/ sent[i].window = sent[j].window /\ j - i < Limit
           \/ sent[i].window + Window <= sent[j].window /\ sent[i].window < sent[j].at

Whole(t) == t = Floor(t)
Present(e) == e # Absent /\ e.value \in 1..Limit /\ Whole(e.expires)

\* The entry counts the messages S of its window, but for a last one stored past it.
Holds(S, e, now) ==
    IF e = Absent
    THEN \A i \in DOMAIN S : S[i].window < now
    ELSE /\ Present(e)
         /\ \A i \in DOMAIN S :
                \/ S[i].window + Window <= e.expires /\ S[i].window < now
                \/ /\ S[i].window = e.expires /\ Len(S) - i < Limit
                   /\ (Len(S) - i < e.value \/ S[Len(S)].at >= e.expires)

\* A call that has found the window below its limit.
Room(S, e, now) ==
    IF e = Absent
    THEN \A i \in DOMAIN S : S[i].window < now
    ELSE /\ Present(e) /\ e.value < Limit
         /\ \A i \in DOMAIN S :
                /\ S[i].at < e.expires
                /\ \/ S[i].window + Window <= e.expires /\ S[i].window < now
                   \/ S[i].window = e.expires /\ Len(S) - i < e.value

\* A call, with its last add at the time at, that is through with the window of messages.
Taken(S, e, at) ==
    /\ Present(e)
    /\ \A i \in DOMAIN S :
           /\ S[i].at < e.expires
           /\ \/ S[i].window + Window <= e.expires /\ S[i].window < at
              \/ /\ S[i].window = e.expires /\ Len(S) + 1 - i < Limit
                 /\ (Len(S) + 1 - i < e.value \/ at >= e.expires)

MessageWindow ==
    LET e == entry["message"]
    IN  /\ send.pc = "idle" \/ send.ask = Limits(send.opens) => Holds(sent, e, clock)
        /\ send.pc # "idle" => Holds(sent, send.before["message"], clock)
        /\ send.pc = "ask" /\ send.ask = <<"thread">> => Room(sent, e, clock)
        /\ Counting /\ send.keys = Limits(send.opens) =>
               /\ Room(sent, e, IF send.pc = "time" THEN clock ELSE send.at)
               /\ send.pc \notin {"time", "insert"} => e # Absent
               /\ send.pc = "time again" => clock >= e.expires
               /\ send.pc = "insert again" => send.at >= e.expires
        /\ send.pc = "allowed" \/ (Counting /\ send.keys = <<"thread">>) => Taken(sent, e, send.at)

\* What was sent lies before the call and before the add it has begun.
Timed == send.pc \notin {"idle", "ask"} /\ ~ (send.pc = "time" /\ send.keys = Limits(send.opens))
Later ==
    \A i \in DOMAIN sent :
        /\ Whole(sent[i].window) /\ sent[i].at <= clock
        /\ send.pc # "idle" => sent[i].at < clock
        /\ Timed => sent[i].at < send.at

\* Only a message stored late is still there when it is Window ticks old, until the
\* clock moves.
Recent ==
    sent # <<>> /\ sent[1].at + Window <= clock =>
        /\ \A i \in DOMAIN sent : i = 1 \/ sent[i].at = clock
        /\ Timed => send.at = clock

\* A new conversation lies a window, less a second, before the time, or the entry lasts
\* as long after it.
Apart(S, e, now) ==
    \A i \in DOMAIN S : S[i].opens =>
        \/ S[i].at + ThreadWindow < now + Second
        \/ e # Absent /\ S[i].at + ThreadWindow < e.expires + Second

ThreadWindowKept ==
    LET e == entry["thread"]
    IN  /\ Apart(sent, e, clock)
        /\ send.pc # "idle" => Apart(sent, send.before["thread"], clock)
        /\ send.opens /\ (send.pc = "allowed" \/ (send.pc = "insert" /\ send.keys = <<"thread">>)) =>
               \A i \in DOMAIN sent : sent[i].opens => sent[i].at + ThreadWindow < send.at + Second
        /\ send.opens /\ send.pc = "allowed" =>
               e # Absent /\ send.at + ThreadWindow < e.expires + Second

Inductive ==
    /\ TypeOK /\ Stages /\ Vacant /\ Later /\ Recent /\ Spaced
    /\ MessageWindow /\ ThreadWindowKept /\ ConversationsKeepTheirDistance
=============================================================================
