--------------------------- MODULE SendLimitProofs ---------------------------
(***************************************************************************)
(* Proofs about SendLimit, for any windows, limit and length of a second:  *)
(* how many messages a minute holds and how far new conversations lie      *)
(* apart.                                                                  *)
(***************************************************************************)
EXTENDS SendLimit, TLAPS

----------------------------------------------------------------------------
(* Arithmetic of whole seconds.                                            *)

\* The constants are positive.
LEMMA Constants ==
    /\ Window \in Nat /\ Window > 0 /\ Limit \in Nat /\ Limit > 0
    /\ ThreadWindow \in Nat /\ ThreadWindow > 0 /\ MaxClock \in Nat /\ MaxClock > 0
    /\ Second \in Nat /\ Second > 0
BY SecondAssumption, SendLimitAssumption

\* Division with remainder.
LEMMA Division ==
    ASSUME NEW t \in Nat
    PROVE  /\ t \div Second \in Nat /\ t % Second \in 0..(Second - 1)
           /\ t = Second * (t \div Second) + (t % Second)
BY SecondAssumption, SendLimitAssumption

\* Products keep the order of their factors.
LEMMA TimesMonotone ==
    ASSUME NEW a \in Nat, NEW b \in Nat, a <= b
    PROVE  Second * a <= Second * b
BY SecondAssumption, SendLimitAssumption

\* Of two multiples of a second the smaller is smaller by a second.
LEMMA NextMultiple ==
    ASSUME NEW a \in Nat, NEW b \in Nat, a < b
    PROVE  Second * a + Second <= Second * b
<1> USE SecondAssumption, SendLimitAssumption
<1>1. Second * (a + 1) <= Second * b
  BY TimesMonotone
<1>2. Second * (a + 1) = Second * a + Second
  OBVIOUS
<1> QED BY <1>1, <1>2

\* Floor returns the multiple of a second at or before a time.
LEMMA FloorIsMultiple ==
    ASSUME NEW t \in Nat
    PROVE  \E a \in Nat : Floor(t) = Second * a /\ Second * a <= t /\ t < Second * a + Second
<1> USE SecondAssumption, SendLimitAssumption
<1> DEFINE a == t \div Second
           m == Second * a
           r == t % Second
<1>1. a \in Nat /\ r \in 0..(Second - 1) /\ t = m + r
  BY Division
<1>2. m \in Nat
  BY <1>1
<1>3. Floor(t) = t - r
  BY DEF Floor
<1>4. Floor(t) = m /\ m <= t /\ t < m + Second
  <2> HIDE DEF m, r
  <2> QED BY <1>1, <1>2, <1>3
<1> HIDE DEF a
<1> QED BY <1>1, <1>4

\* It is the only one.
LEMMA FloorIsUnique ==
    ASSUME NEW t \in Nat, NEW a \in Nat, Second * a <= t, t < Second * a + Second
    PROVE  Floor(t) = Second * a
<1> USE SecondAssumption, SendLimitAssumption
<1>1. PICK b \in Nat : Floor(t) = Second * b /\ Second * b <= t /\ t < Second * b + Second
  BY FloorIsMultiple
<1>2. Second * a \in Nat /\ Second * b \in Nat
  OBVIOUS
<1>3. ~ (a < b)
  BY <1>1, <1>2, NextMultiple
<1>4. ~ (b < a)
  BY <1>1, <1>2, NextMultiple
<1>5. a = b
  BY <1>3, <1>4
<1> QED BY <1>1, <1>5

\* What Floor returns.
LEMMA FloorBounds ==
    ASSUME NEW t \in Nat
    PROVE  Floor(t) \in Nat /\ Floor(t) <= t /\ t < Floor(t) + Second
<1> USE SecondAssumption, SendLimitAssumption
<1>1. PICK a \in Nat : Floor(t) = Second * a /\ Second * a <= t /\ t < Second * a + Second
  BY FloorIsMultiple
<1>2. Second * a \in Nat
  OBVIOUS
<1> QED BY <1>1, <1>2

\* Cutting a time to its second does not go below a whole second before it.
LEMMA FloorKeepsWhole ==
    ASSUME NEW t \in Nat, NEW w \in Nat, Whole(w), w <= t
    PROVE  w <= Floor(t)
<1> USE SecondAssumption, SendLimitAssumption
<1>1. PICK a \in Nat : Floor(t) = Second * a /\ Second * a <= t /\ t < Second * a + Second
  BY FloorIsMultiple
<1>2. PICK b \in Nat : Floor(w) = Second * b
  BY FloorIsMultiple
<1>3. w = Second * b
  BY <1>2 DEF Whole
<1>4. Second * a \in Nat /\ Second * b \in Nat
  OBVIOUS
<1>5. ~ (a < b)
  BY <1>1, <1>3, <1>4, NextMultiple
<1>6. Second * b <= Second * a
  BY <1>5, TimesMonotone
<1> QED BY <1>1, <1>3, <1>6

\* A window of whole seconds later the cut is the same window later.
LEMMA FloorOfSum ==
    ASSUME NEW t \in Nat, NEW w \in Nat, w % Second = 0
    PROVE  Floor(t + w) = Floor(t) + w /\ Whole(Floor(t + w))
<1> USE SecondAssumption, SendLimitAssumption
<1>1. PICK a \in Nat : Floor(t) = Second * a /\ Second * a <= t /\ t < Second * a + Second
  BY FloorIsMultiple
<1> DEFINE b == w \div Second
<1>2. b \in Nat /\ w = Second * b + (w % Second)
  BY Division
<1>3. w = Second * b
  <2>1. Second * b \in Nat
    BY <1>2
  <2> HIDE DEF b
  <2> QED BY <1>2, <2>1
<1> HIDE DEF b
<1>4. a + b \in Nat /\ Second * (a + b) = Second * a + Second * b
  BY <1>2
<1>5. Second * a \in Nat /\ Second * b \in Nat
  BY <1>2
<1>6. Second * (a + b) <= t + w /\ t + w < Second * (a + b) + Second
  BY <1>1, <1>3, <1>4, <1>5
<1>7. Floor(t + w) = Second * (a + b)
  BY <1>4, <1>6, FloorIsUnique
<1> DEFINE f == Second * (a + b)
<1>8. f \in Nat /\ Second * (a + b) <= f /\ f < Second * (a + b) + Second
  BY <1>4, <1>5
<1>9. Floor(f) = Second * (a + b)
  BY <1>4, <1>8, FloorIsUnique
<1> QED BY <1>1, <1>3, <1>4, <1>7, <1>9 DEF Whole

\* A window is a second or longer.
LEMMA WindowsAreSeconds == Window >= Second /\ ThreadWindow >= Second
<1> USE SecondAssumption, SendLimitAssumption
<1>1. ASSUME NEW w \in Nat \ {0}, w % Second = 0 PROVE w >= Second
  <2> DEFINE b == w \div Second
  <2>1. b \in Nat /\ w = Second * b + (w % Second)
    BY <1>1, Division
  <2>2. b # 0
    BY <1>1, <2>1
  <2>3. Second * 1 <= Second * b
    BY <2>1, <2>2, TimesMonotone
  <2>4. Second * b \in Nat
    BY <2>1
  <2> HIDE DEF b
  <2> QED BY <1>1, <2>1, <2>3, <2>4
<1> QED BY <1>1

\* The expiries of the two windows.
LEMMA FreshEntry ==
    ASSUME NEW at \in Nat
    PROVE  /\ Fresh(at, Window) \in Entry /\ Fresh(at, Window) # Absent
           /\ Fresh(at, Window).value = 1 /\ Fresh(at, Window).expires = Floor(at) + Window
           /\ Whole(Fresh(at, Window).expires)
           /\ Fresh(at, ThreadWindow) \in Entry /\ Fresh(at, ThreadWindow) # Absent
           /\ Fresh(at, ThreadWindow).value = 1
           /\ Fresh(at, ThreadWindow).expires = Floor(at) + ThreadWindow
<1> USE SecondAssumption, SendLimitAssumption
<1>1. /\ Floor(at + Window) = Floor(at) + Window /\ Whole(Floor(at + Window))
      /\ Floor(at + ThreadWindow) = Floor(at) + ThreadWindow
  BY FloorOfSum
<1>2. Floor(at) \in Nat
  BY FloorBounds
<1> QED BY <1>1, <1>2 DEF Fresh, Entry, Absent

----------------------------------------------------------------------------
(* The keys of a call.                                                     *)

\* The lists of keys and what is left of them.
LEMMA KeysInOrder ==
    /\ Limits(TRUE) = <<"message", "thread">> /\ Limits(FALSE) = <<"message">>
    /\ Head(Limits(TRUE)) = "message" /\ Tail(Limits(TRUE)) = <<"thread">> /\ Len(Limits(TRUE)) = 2
    /\ Head(Limits(FALSE)) = "message" /\ Tail(Limits(FALSE)) = <<>> /\ Len(Limits(FALSE)) = 1
    /\ Head(<<"thread">>) = "thread" /\ Tail(<<"thread">>) = <<>> /\ Len(<<"thread">>) = 1
    /\ Limits(TRUE) # <<>> /\ Limits(FALSE) # <<>> /\ <<"thread">> # <<>>
    /\ Limits(TRUE) # Limits(FALSE) /\ Limits(TRUE) # <<"thread">> /\ Limits(FALSE) # <<"thread">>
<1>1. Limits(TRUE) = <<"message", "thread">> /\ Limits(FALSE) = <<"message">>
  BY DEF Limits
<1>2. Len(<<"message", "thread">>) = 2 /\ Len(<<"message">>) = 1 /\ Len(<<"thread">>) = 1 /\ Len(<<>>) = 0
  OBVIOUS
<1>3. /\ Head(<<"message", "thread">>) = "message" /\ Tail(<<"message", "thread">>) = <<"thread">>
      /\ Head(<<"message">>) = "message" /\ Tail(<<"message">>) = <<>>
      /\ Head(<<"thread">>) = "thread" /\ Tail(<<"thread">>) = <<>>
  OBVIOUS
<1>4. "message" # "thread"
  OBVIOUS
<1>5. <<"message">> # <<"thread">>
  BY <1>3, <1>4
<1>6. <<"message", "thread">> # <<>> /\ <<"message">> # <<>> /\ <<"thread">> # <<>>
  BY <1>2
<1>7. <<"message", "thread">> # <<"message">> /\ <<"message", "thread">> # <<"thread">>
  BY <1>2
<1> QED BY <1>1, <1>2, <1>3, <1>5, <1>6, <1>7

----------------------------------------------------------------------------
(* What each action does.                                                  *)

Typed == TypeOK /\ Stages

\* The parts of the state and their types.
LEMMA Parts ==
    ASSUME Typed
    PROVE  /\ clock \in Nat /\ clock <= MaxClock
           /\ DOMAIN entry = Keys /\ "message" \in Keys /\ "thread" \in Keys
           /\ \A k \in Keys : entry[k] \in Entry /\ entry[k].value \in Nat /\ entry[k].expires \in Nat
           /\ send \in Call /\ send.at \in Nat /\ send.at <= clock /\ send.opens \in BOOLEAN
           /\ send.before \in [Keys -> Entry]
           /\ sent \in Seq(Message) /\ Len(sent) \in Nat /\ DOMAIN sent = 1..Len(sent)
           /\ \A i \in 1..Len(sent) :
                  /\ sent[i] \in Message /\ sent[i].at \in Nat
                  /\ sent[i].opens \in BOOLEAN /\ sent[i].window \in Nat
<1>1. /\ clock \in 0..MaxClock /\ entry \in [Keys -> Entry] /\ send \in Call
      /\ sent \in Seq(Message) /\ send.at <= clock
  BY DEF Typed, TypeOK, Stages
<1>2. send.at \in 0..MaxClock /\ send.opens \in BOOLEAN /\ send.before \in [Keys -> Entry]
  BY <1>1 DEF Call
<1>3. "message" \in Keys /\ "thread" \in Keys
  BY DEF Keys
<1>4. \A k \in Keys : entry[k] \in Entry /\ entry[k].value \in Nat /\ entry[k].expires \in Nat
  BY <1>1 DEF Entry
<1>5. Len(sent) \in Nat /\ DOMAIN sent = 1..Len(sent) /\ \A i \in 1..Len(sent) : sent[i] \in Message
  BY <1>1
<1>6. \A i \in 1..Len(sent) :
          sent[i].at \in Nat /\ sent[i].opens \in BOOLEAN /\ sent[i].window \in Nat
  BY <1>5 DEF Message
<1> QED BY <1>1, <1>2, <1>3, <1>4, <1>5, <1>6

\* What Kept, the insertion and the increment return is an entry.
LEMMA EntryTypes ==
    ASSUME NEW e \in Entry, NEW now \in Nat
    PROVE  /\ Kept(e, now) \in Entry
           /\ Incremented(e) \in Entry /\ Incremented(e).value = e.value + 1
           /\ Incremented(e).expires = e.expires /\ Incremented(e) # Absent
           /\ e.value \in Nat /\ e.expires \in Nat /\ Absent \in Entry
           /\ Absent.value = 0
<1>1. e.value \in Nat /\ e.expires \in Nat /\ Absent \in Entry /\ Absent.value = 0
  BY DEF Entry, Absent
<1>2. Kept(e, now) \in Entry
  BY <1>1 DEF Kept
<1>3. Incremented(e) \in Entry /\ Incremented(e).value = e.value + 1 /\ Incremented(e).expires = e.expires
  BY DEF Entry, Incremented
<1>4. Incremented(e) # Absent
  BY <1>1, <1>3
<1> QED BY <1>1, <1>2, <1>3, <1>4

\* The fields of a call.
LEMMA CallFields ==
    ASSUME NEW s \in Call
    PROVE  /\ s.pc \in {"idle", "ask", "time", "insert", "incr", "time again", "insert again", "allowed"}
           /\ s.ask \in Lists /\ s.keys \in Lists /\ s.opens \in BOOLEAN
           /\ s.at \in 0..MaxClock /\ s.before \in [Keys -> Entry]
BY DEF Call

\* A call that is given other values in some fields is a call.
LEMMA CallWith ==
    ASSUME NEW s \in Call,
           NEW p \in {"idle", "ask", "time", "insert", "incr", "time again", "insert again", "allowed"},
           NEW a \in Lists, NEW k \in Lists, NEW t \in 0..MaxClock
    PROVE  /\ [s EXCEPT !.pc = p, !.ask = a] \in Call
           /\ [s EXCEPT !.pc = p, !.keys = k] \in Call
           /\ [s EXCEPT !.pc = p, !.at = t] \in Call
           /\ [s EXCEPT !.pc = p] \in Call
BY DEF Call

\* The idle call.
LEMMA IdleCall ==
    /\ Idle \in Call /\ Idle.pc = "idle" /\ Idle.ask = <<>> /\ Idle.keys = <<>>
    /\ Idle.opens = FALSE /\ Idle.at = 0 /\ Idle.before = NoEntries
<1>1. NoEntries \in [Keys -> Entry]
  BY DEF NoEntries, Absent, Entry
<1>2. <<>> \in Lists /\ 0 \in 0..MaxClock
  BY Constants DEF Lists
<1> QED BY <1>1, <1>2 DEF Idle, Call

\* A call begins after the last message, with both windows to ask if it opens.
LEMMA BeginEffect ==
    ASSUME Typed, Begin
    PROVE  /\ send.pc = "idle" /\ UNCHANGED <<clock, entry, sent>>
           /\ sent # <<>> => sent[Len(sent)].at < clock
           /\ send' \in Call /\ send'.pc = "ask" /\ send'.at = 0 /\ send'.before = entry
           /\ send'.ask = Limits(send'.opens) /\ send'.keys = Limits(send'.opens)
<1>1. PICK opens \in BOOLEAN :
          send' = [ pc |-> "ask", ask |-> Limits(opens), keys |-> Limits(opens),
                    opens |-> opens, at |-> 0, before |-> entry ]
  BY DEF Begin
<1>2. entry \in [Keys -> Entry] /\ 0 \in 0..MaxClock
  BY Constants DEF Typed, TypeOK
<1>3. Limits(opens) \in Lists
  <2>1. opens = TRUE \/ opens = FALSE
    OBVIOUS
  <2> QED BY <2>1 DEF Lists
<1>4. send' \in Call
  BY <1>1, <1>2, <1>3 DEF Call
<1>5. /\ send'.pc = "ask" /\ send'.at = 0 /\ send'.before = entry /\ send'.opens = opens
      /\ send'.ask = Limits(opens) /\ send'.keys = Limits(opens)
  BY <1>1
<1> QED BY <1>4, <1>5 DEF Begin

\* The stages of a call that still asks.
LEMMA Asking ==
    ASSUME Typed, send.pc = "ask"
    PROVE  /\ send.keys = Limits(send.opens)
           /\ \/ /\ send.ask = Limits(send.opens) /\ Head(send.ask) = "message"
                 /\ send.opens => Tail(send.ask) = <<"thread">> /\ Len(send.ask) = 2
                 /\ ~ send.opens => Tail(send.ask) = <<>> /\ Len(send.ask) = 1
              \/ /\ send.opens /\ send.ask = <<"thread">> /\ Head(send.ask) = "thread"
                 /\ Tail(send.ask) = <<>> /\ Len(send.ask) = 1
<1>1. send.ask # <<>> /\ send.keys = Limits(send.opens) /\ send.opens \in BOOLEAN
  BY Parts DEF Typed, TypeOK, Stages
<1>2. send.ask = Limits(send.opens) \/ (send.opens /\ send.ask = <<"thread">>)
  BY <1>1 DEF Typed, Stages
<1>3. send.opens = TRUE \/ send.opens = FALSE
  BY <1>1
<1> QED BY <1>1, <1>2, <1>3, KeysInOrder

\* The stages of a call that counts.
LEMMA CountingKeys ==
    ASSUME Typed, Counting
    PROVE  \/ /\ send.keys = Limits(send.opens) /\ Head(send.keys) = "message"
              /\ send.opens => Tail(send.keys) = <<"thread">> /\ Len(send.keys) = 2
              /\ ~ send.opens => Tail(send.keys) = <<>> /\ Len(send.keys) = 1
           \/ /\ send.opens /\ send.keys = <<"thread">> /\ Head(send.keys) = "thread"
              /\ Tail(send.keys) = <<>> /\ Len(send.keys) = 1
              /\ send.pc \in {"time", "insert"}
<1>1. send.opens \in BOOLEAN
  BY Parts
<1>2. send.keys = Limits(send.opens) \/ (send.opens /\ send.keys = <<"thread">>)
  BY DEF Typed, Stages
<1>3. send.keys = <<"thread">> => send.pc \in {"time", "insert"}
  BY DEF Typed, Stages
<1>4. send.opens = TRUE \/ send.opens = FALSE
  BY <1>1
<1> QED BY <1>2, <1>3, <1>4, KeysInOrder

\* A step that makes the entry of k the entry e.
LEMMA Written ==
    ASSUME Typed, NEW k \in Keys, NEW e \in Entry, entry' = [entry EXCEPT ![k] = e]
    PROVE  /\ entry' \in [Keys -> Entry] /\ entry'[k] = e
           /\ \A m \in Keys \ {k} : entry'[m] = entry[m]
BY DEF Typed, TypeOK

\* Ask refuses at a full window, or goes on with the next, or to counting.
LEMMA AskEffect ==
    ASSUME Typed, Ask
    PROVE  /\ send.pc = "ask" /\ UNCHANGED <<clock, sent>> /\ send' \in Call
           /\ entry' \in [Keys -> Entry]
           /\ \E k \in Keys :
                  /\ k = Head(send.ask)
                  /\ entry'[k] = Kept(entry[k], clock)
                  /\ \A m \in Keys \ {k} : entry'[m] = entry[m]
                  /\ Full(k) => send' = Idle
                  /\ ~ Full(k) =>
                         /\ send'.keys = send.keys /\ send'.opens = send.opens
                         /\ send'.at = send.at /\ send'.before = send.before
                         /\ send'.ask = Tail(send.ask)
                         /\ send'.pc = IF Len(send.ask) = 1 THEN "time" ELSE "ask"
<1> DEFINE k == Head(send.ask)
           e == Kept(entry[k], clock)
           p == IF Len(send.ask) = 1 THEN "time" ELSE "ask"
           s == [send EXCEPT !.ask = Tail(send.ask), !.pc = p]
<1>1. send.pc = "ask" /\ UNCHANGED <<clock, sent>>
  BY DEF Ask
<1>2. k \in Keys /\ Tail(send.ask) \in Lists
  <2>1. (k = "message" \/ k = "thread") /\ (Tail(send.ask) = <<>> \/ Tail(send.ask) = <<"thread">>)
    BY <1>1, Asking, Parts
  <2> HIDE DEF k
  <2> QED BY <2>1 DEF Keys, Lists
<1>3. entry' = [entry EXCEPT ![k] = e] /\ send' = IF Full(k) THEN Idle ELSE s
  BY DEF Ask
<1>4. e \in Entry
  BY <1>2, Parts, EntryTypes
<1>5. s \in Call /\ s.keys = send.keys /\ s.opens = send.opens /\ s.at = send.at
      /\ s.before = send.before /\ s.ask = Tail(send.ask) /\ s.pc = p
  <2>1. send \in Call /\ p \in {"time", "ask"}
    BY Parts
  <2> HIDE DEF p
  <2> QED BY <2>1, <1>2 DEF Call
<1> HIDE DEF k, e, s
<1>6. /\ entry' \in [Keys -> Entry] /\ entry'[k] = e /\ \A m \in Keys \ {k} : entry'[m] = entry[m]
  BY <1>2, <1>3, <1>4, Written
<1>7. send' \in Call
  BY <1>3, <1>5, IdleCall
<1> QED BY <1>1, <1>2, <1>3, <1>5, <1>6, <1>7 DEF k, e, p

\* Time reads the clock.
LEMMA TimeEffect ==
    ASSUME Typed, Time
    PROVE  /\ send.pc \in {"time", "time again"} /\ UNCHANGED <<clock, entry, sent>>
           /\ send' \in Call /\ send'.at = clock
           /\ send'.pc = IF send.pc = "time" THEN "insert" ELSE "insert again"
           /\ send'.ask = send.ask /\ send'.keys = send.keys /\ send'.opens = send.opens
           /\ send'.before = send.before
<1> DEFINE p == IF send.pc = "time" THEN "insert" ELSE "insert again"
<1>1. send \in Call /\ clock \in 0..MaxClock /\ p \in {"insert", "insert again"}
  BY Parts DEF Typed, TypeOK
<1>2. send' = [send EXCEPT !.at = clock, !.pc = p]
  BY DEF Time
<1> HIDE DEF p
<1>3. send' \in Call /\ send'.at = clock /\ send'.pc = p /\ send'.ask = send.ask
      /\ send'.keys = send.keys /\ send'.opens = send.opens /\ send'.before = send.before
  BY <1>1, <1>2 DEF Call
<1> QED BY <1>3 DEF p, Time

\* Insert and Incr do only this of a call but for its stage.
Goes(p) ==
    /\ send' \in Call /\ send'.pc = p /\ send'.at = send.at /\ send'.ask = send.ask
    /\ send'.keys = send.keys /\ send'.opens = send.opens /\ send'.before = send.before

\* A key is counted: the next one follows, or the call returns.
GoesOnward ==
    /\ send' \in Call /\ send'.at = send.at /\ send'.ask = send.ask
    /\ send'.opens = send.opens /\ send'.before = send.before
    /\ send'.keys = Tail(send.keys)
    /\ send'.pc = IF Len(send.keys) = 1 THEN "allowed" ELSE "time"

\* Going to another stage.
LEMMA GoesOn ==
    ASSUME Typed, NEW p \in {"incr", "time again"}, send' = [send EXCEPT !.pc = p]
    PROVE  Goes(p)
<1>1. send \in Call
  BY Parts
<1> QED BY <1>1 DEF Goes, Call

\* Counting a key.
LEMMA CountedEffect ==
    ASSUME Typed, Counting, send' = Counted
    PROVE  GoesOnward
<1> DEFINE p == IF Len(send.keys) = 1 THEN "allowed" ELSE "time"
<1>1. send \in Call /\ p \in {"allowed", "time"}
  BY Parts
<1>2. Tail(send.keys) \in Lists
  <2>1. Tail(send.keys) = <<>> \/ Tail(send.keys) = <<"thread">>
    BY CountingKeys, Parts
  <2> QED BY <2>1 DEF Lists
<1>3. send' = [send EXCEPT !.keys = Tail(send.keys), !.pc = p]
  BY DEF Counted
<1> HIDE DEF p
<1>4. send' \in Call /\ send'.at = send.at /\ send'.ask = send.ask /\ send'.opens = send.opens
      /\ send'.before = send.before /\ send'.keys = Tail(send.keys) /\ send'.pc = p
  BY <1>1, <1>2, <1>3 DEF Call
<1> QED BY <1>4 DEF GoesOnward, p

\* Insert inserts or replaces the row, or goes to the increment, or gives up.
LEMMA InsertEffect ==
    ASSUME Typed, Insert
    PROVE  /\ Counting /\ send.pc \in {"insert", "insert again"} /\ UNCHANGED <<clock, sent>>
           /\ \E k \in Keys :
                  /\ k = Head(send.keys)
                  /\ \/ /\ Inserts(entry[k], send.at) /\ GoesOnward
                        /\ entry' = [entry EXCEPT ![k] = Fresh(send.at, WindowOf[k])]
                     \/ /\ ~ Inserts(entry[k], send.at) /\ send.pc = "insert" /\ Goes("incr")
                        /\ UNCHANGED entry
                     \/ /\ ~ Inserts(entry[k], send.at) /\ send.pc = "insert again" /\ GoesOnward
                        /\ UNCHANGED entry
<1> DEFINE k == Head(send.keys)
<1>1. Counting /\ send.pc \in {"insert", "insert again"} /\ UNCHANGED <<clock, sent>>
  BY DEF Insert, Counting
<1>2. k \in Keys
  <2>1. k = "message" \/ k = "thread"
    BY <1>1, CountingKeys, Parts
  <2> HIDE DEF k
  <2> QED BY <2>1 DEF Keys
<1>3. CASE Inserts(entry[k], send.at)
  <2>1. entry' = [entry EXCEPT ![k] = Fresh(send.at, WindowOf[k])] /\ send' = Counted
    BY <1>3 DEF Insert
  <2>2. GoesOnward
    BY <2>1, <1>1, CountedEffect
  <2> QED BY <1>1, <1>2, <1>3, <2>1, <2>2
<1>4. CASE ~ Inserts(entry[k], send.at) /\ send.pc = "insert"
  <2>1. UNCHANGED entry /\ send' = [send EXCEPT !.pc = "incr"]
    BY <1>4 DEF Insert
  <2>2. Goes("incr")
    BY <2>1, GoesOn
  <2> QED BY <1>1, <1>2, <1>4, <2>1, <2>2
<1>5. CASE ~ Inserts(entry[k], send.at) /\ send.pc = "insert again"
  <2>1. UNCHANGED entry /\ send' = Counted
    BY <1>5 DEF Insert
  <2>2. GoesOnward
    BY <2>1, <1>1, CountedEffect
  <2> QED BY <1>1, <1>2, <1>5, <2>1, <2>2
<1> QED BY <1>1, <1>3, <1>4, <1>5

\* Incr, of a message only, counts or goes to the second add.
LEMMA IncrEffect ==
    ASSUME Typed, Incr
    PROVE  /\ Counting /\ send.pc = "incr" /\ UNCHANGED <<clock, sent>>
           /\ send.keys = Limits(send.opens) /\ Head(send.keys) = "message"
           /\ \/ /\ Counts(entry["message"], clock) /\ GoesOnward
                 /\ entry' = [entry EXCEPT !["message"] = Incremented(entry["message"])]
              \/ /\ ~ Counts(entry["message"], clock) /\ Goes("time again")
                 /\ UNCHANGED entry
<1>1. Counting /\ send.pc = "incr" /\ UNCHANGED <<clock, sent>>
  BY DEF Incr, Counting
<1>2. send.keys = Limits(send.opens) /\ Head(send.keys) = "message"
  BY <1>1, CountingKeys
<1>3. CASE Counts(entry["message"], clock)
  <2>1. entry' = [entry EXCEPT !["message"] = Incremented(entry["message"])] /\ send' = Counted
    BY <1>2, <1>3 DEF Incr
  <2> QED BY <1>1, <1>2, <1>3, <2>1, CountedEffect
<1>4. CASE ~ Counts(entry["message"], clock)
  <2>1. UNCHANGED entry /\ send' = [send EXCEPT !.pc = "time again"]
    BY <1>2, <1>4 DEF Incr
  <2> QED BY <1>1, <1>2, <1>4, <2>1, GoesOn
<1> QED BY <1>3, <1>4

\* The message stored.
Stored == [at |-> send.at, opens |-> send.opens, window |-> entry["message"].expires]

\* Commit stores the message behind the others.
LEMMA CommitEffect ==
    ASSUME Typed, Commit
    PROVE  /\ send.pc = "allowed" /\ UNCHANGED <<clock, entry>> /\ send' = Idle
           /\ sent' \in Seq(Message) /\ Len(sent') = Len(sent) + 1
           /\ \A i \in 1..Len(sent) : sent'[i] = sent[i]
           /\ sent'[Len(sent) + 1].at = send.at /\ sent'[Len(sent) + 1].opens = send.opens
           /\ sent'[Len(sent) + 1].window = entry["message"].expires
<1>1. Stored \in Message
  <2>1. send.at \in 0..MaxClock /\ send.opens \in BOOLEAN /\ entry["message"].expires \in Nat
    BY Parts, CallFields
  <2> QED BY <2>1 DEF Stored, Message
<1>2. sent' = Append(sent, Stored)
  BY DEF Commit, Stored
<1>3. Stored.at = send.at /\ Stored.opens = send.opens /\ Stored.window = entry["message"].expires
  BY DEF Stored
<1>4. sent \in Seq(Message)
  BY Parts
<1> HIDE DEF Stored
<1>5. /\ sent' \in Seq(Message) /\ Len(sent') = Len(sent) + 1
      /\ \A i \in 1..Len(sent) : sent'[i] = sent[i]
      /\ sent'[Len(sent) + 1] = Stored
  BY <1>1, <1>2, <1>4
<1> QED BY <1>3, <1>5 DEF Commit

\* A step that adds no message forgets none, or the first.
Shifted(d) ==
    /\ sent' \in Seq(Message) /\ Len(sent') = Len(sent) - d
    /\ \A i \in 1..Len(sent') : sent'[i] = sent[i + d]

\* Tick forgets at most the first message.
LEMMA TickEffect ==
    ASSUME Typed, Tick
    PROVE  /\ clock' = clock + 1 /\ clock' \in 0..MaxClock /\ UNCHANGED <<entry, send>>
           /\ \E d \in 0..1 :
                  /\ Shifted(d)
                  /\ d = 0 /\ sent # <<>> => sent[1].at + Window > clock + 1
<1>1. clock' = clock + 1 /\ clock' \in 0..MaxClock /\ UNCHANGED <<entry, send>>
  BY Parts, Constants DEF Tick
<1>2. sent \in Seq(Message)
  BY Parts
<1>3. CASE sent # <<>> /\ Head(sent).at + Window <= clock + 1
  <2>1. sent' = Tail(sent)
    BY <1>3 DEF Tick, Forget
  <2>2. Shifted(1)
    BY <1>2, <1>3, <2>1 DEF Shifted
  <2> QED BY <1>1, <2>2
<1>4. CASE ~ (sent # <<>> /\ Head(sent).at + Window <= clock + 1)
  <2>1. sent' = sent
    BY <1>4 DEF Tick, Forget
  <2>2. Shifted(0)
    BY <1>2, <2>1 DEF Shifted
  <2>3. sent # <<>> => sent[1].at + Window > clock + 1
    <3>1. SUFFICES ASSUME sent # <<>> PROVE sent[1].at + Window > clock + 1
      OBVIOUS
    <3>2. Head(sent) = sent[1] /\ Len(sent) >= 1
      BY <3>1, <1>2
    <3>3. sent[1].at \in Nat /\ clock \in Nat
      BY <3>2, Parts
    <3> QED BY <3>1, <3>2, <3>3, <1>4, Constants
  <2> QED BY <1>1, <2>2, <2>3
<1> QED BY <1>3, <1>4

\* A step that leaves the messages alone.
LEMMA NothingForgotten ==
    ASSUME Typed, UNCHANGED sent
    PROVE  Shifted(0)
BY Parts DEF Shifted

----------------------------------------------------------------------------
(* Types and stages.                                                       *)

\* The type and stage conditions on the call of the next state.
LEMMA TypedFrom ==
    ASSUME clock' \in 0..MaxClock, entry' \in [Keys -> Entry], send' \in Call, sent' \in Seq(Message),
           (send.pc = "ask" <=> send.ask # <<>>)',
           (send.pc \in {"idle", "allowed"} <=> send.keys = <<>>)',
           (send.pc = "ask" => send.keys = Limits(send.opens))',
           (send.ask \in {<<>>, Limits(send.opens)} \/ (send.opens /\ send.ask = <<"thread">>))',
           (Counting => send.keys = Limits(send.opens) \/ (send.opens /\ send.keys = <<"thread">>))',
           (send.at <= clock)',
           (Counting /\ send.keys = <<"thread">> => send.pc \in {"time", "insert"})'
    PROVE  Typed'
BY DEF Typed, TypeOK, Stages

\* A call that goes on to its next key, or returns, is at one of its stages.
LEMMA OnwardTyped ==
    ASSUME Typed, Counting, GoesOnward, UNCHANGED <<clock, sent>>, entry' \in [Keys -> Entry]
    PROVE  Typed'
<1>1. clock \in 0..MaxClock /\ sent \in Seq(Message) /\ send.at <= clock /\ send.ask = <<>>
  BY DEF Typed, TypeOK, Stages, Counting
<1>2. send'.pc \in {"allowed", "time"} /\ send'.ask = <<>> /\ send'.at = send.at /\ send' \in Call
  BY <1>1 DEF GoesOnward
<1>3. \/ send.opens /\ send'.opens /\ send'.pc = "time" /\ send'.keys = <<"thread">>
      \/ send'.pc = "allowed" /\ send'.keys = <<>>
  <2>0. /\ send'.opens = send.opens /\ send'.keys = Tail(send.keys)
        /\ send'.pc = IF Len(send.keys) = 1 THEN "allowed" ELSE "time"
    BY DEF GoesOnward
  <2>1. \/ send.opens /\ Tail(send.keys) = <<"thread">> /\ Len(send.keys) = 2
        \/ Tail(send.keys) = <<>> /\ Len(send.keys) = 1
    BY CountingKeys, Parts
  <2>2. CASE send.opens /\ Tail(send.keys) = <<"thread">> /\ Len(send.keys) = 2
    BY <2>0, <2>2
  <2>3. CASE Tail(send.keys) = <<>> /\ Len(send.keys) = 1
    BY <2>0, <2>3
  <2> QED BY <2>1, <2>2, <2>3
<1>4. <<"thread">> # <<>>
  BY KeysInOrder
<1> QED BY <1>1, <1>2, <1>3, <1>4, TypedFrom DEF Counting

\* A call that stays at its key.
LEMMA SameKeyTyped ==
    ASSUME Typed, Counting, NEW p \in {"incr", "time again"}, Goes(p), send.keys = Limits(send.opens),
           UNCHANGED <<clock, sent, entry>>
    PROVE  Typed'
<1>1. clock \in 0..MaxClock /\ sent \in Seq(Message) /\ send.at <= clock /\ send.ask = <<>>
      /\ entry \in [Keys -> Entry]
  BY DEF Typed, TypeOK, Stages, Counting
<1>2. /\ send'.pc = p /\ send'.ask = <<>> /\ send'.at = send.at /\ send' \in Call
      /\ send'.keys = Limits(send.opens) /\ send'.opens = send.opens
  BY <1>1 DEF Goes
<1>3. Limits(send.opens) # <<>> /\ Limits(send.opens) # <<"thread">>
  <2>1. send.opens = TRUE \/ send.opens = FALSE
    BY Parts
  <2> QED BY <2>1, KeysInOrder
<1> QED BY <1>1, <1>2, <1>3, TypedFrom DEF Counting

\* The types and the stages of a call, step by step.
LEMMA TypeStep == Typed /\ Vacant /\ [Next]_vars => Typed'
<1> SUFFICES ASSUME Typed, Vacant, [Next]_vars PROVE Typed'
  OBVIOUS
<1>t. /\ clock \in 0..MaxClock /\ entry \in [Keys -> Entry] /\ send \in Call /\ sent \in Seq(Message)
      /\ clock \in Nat
  BY Parts DEF Typed, TypeOK
<1>n. ASSUME NEW b \in BOOLEAN PROVE Limits(b) # <<>> /\ Limits(b) # <<"thread">>
  <2>1. b = TRUE \/ b = FALSE
    OBVIOUS
  <2> QED BY <2>1, KeysInOrder
<1>i. ASSUME send' = Idle, clock' = clock, entry' \in [Keys -> Entry], sent' \in Seq(Message)
      PROVE Typed'
  <2>1. /\ send' \in Call /\ send'.pc = "idle" /\ send'.ask = <<>> /\ send'.keys = <<>>
        /\ send'.opens = FALSE /\ send'.at = 0
    BY <1>i, IdleCall
  <2> QED BY <1>i, <1>t, <2>1, TypedFrom DEF Counting
<1>1. CASE Begin
  <2>1. /\ UNCHANGED <<clock, entry, sent>> /\ send' \in Call /\ send'.pc = "ask" /\ send'.at = 0
        /\ send'.ask = Limits(send'.opens) /\ send'.keys = Limits(send'.opens)
    BY <1>1, BeginEffect
  <2>2. Limits(send'.opens) # <<>>
    BY <2>1, <1>n, CallFields
  <2> QED BY <2>1, <2>2, <1>t, TypedFrom DEF Counting
<1>2. CASE Ask
  <2>1. /\ send.pc = "ask" /\ UNCHANGED <<clock, sent>> /\ send' \in Call
        /\ entry' \in [Keys -> Entry]
    BY <1>2, AskEffect
  <2>2. CASE send' = Idle
    BY <2>1, <2>2, <1>i, <1>t
  <2>3. CASE send' # Idle
    <3>1. /\ send'.keys = send.keys /\ send'.opens = send.opens
          /\ send'.at = send.at /\ send'.ask = Tail(send.ask)
          /\ send'.pc = IF Len(send.ask) = 1 THEN "time" ELSE "ask"
      BY <1>2, <2>3, AskEffect
    <3>2. send.keys = Limits(send.opens) /\ Limits(send.opens) # <<>> /\ Limits(send.opens) # <<"thread">>
      BY <2>1, <1>n, Asking, Parts
    <3>3. \/ send'.pc = "ask" /\ send.opens /\ send'.ask = <<"thread">>
          \/ send'.pc = "time" /\ send'.ask = <<>>
      <4>1. \/ send.opens /\ Tail(send.ask) = <<"thread">> /\ Len(send.ask) = 2
            \/ Tail(send.ask) = <<>> /\ Len(send.ask) = 1
        BY <2>1, Asking, Parts
      <4>2. CASE send.opens /\ Tail(send.ask) = <<"thread">> /\ Len(send.ask) = 2
        BY <3>1, <4>2
      <4>3. CASE Tail(send.ask) = <<>> /\ Len(send.ask) = 1
        BY <3>1, <4>3
      <4> QED BY <4>1, <4>2, <4>3
    <3>4. <<"thread">> # <<>> /\ send.at <= clock
      BY KeysInOrder, Parts
    <3> QED BY <2>1, <3>1, <3>2, <3>3, <3>4, <1>t, TypedFrom DEF Counting
  <2> QED BY <2>2, <2>3
<1>3. CASE Time
  <2>1. /\ send.pc \in {"time", "time again"} /\ UNCHANGED <<clock, entry, sent>>
        /\ send' \in Call /\ send'.at = clock
        /\ send'.pc = IF send.pc = "time" THEN "insert" ELSE "insert again"
        /\ send'.ask = send.ask /\ send'.keys = send.keys /\ send'.opens = send.opens
    BY <1>3, TimeEffect
  <2>2. Counting /\ send.ask = <<>> /\ send.keys # <<>>
    BY <2>1 DEF Typed, TypeOK, Counting
  <2>3. send.keys = Limits(send.opens) \/ (send.opens /\ send.keys = <<"thread">> /\ send.pc = "time")
    BY <2>1, <2>2, CountingKeys
  <2>4. send'.pc \in {"insert", "insert again"} /\ (send.pc = "time" => send'.pc = "insert")
    BY <2>1
  <2>5. CASE send.keys = Limits(send.opens)
    <3>1. send.keys # <<"thread">>
      BY <2>5, <1>n, Parts
    <3>2. /\ clock' \in 0..MaxClock /\ entry' \in [Keys -> Entry] /\ send' \in Call /\ sent' \in Seq(Message)
          /\ send'.pc \notin {"idle", "ask", "allowed"}
          /\ send'.ask = <<>> /\ send'.at <= clock'
          /\ send'.keys = Limits(send'.opens) /\ send'.keys # <<>> /\ send'.keys # <<"thread">>
      <4>1. send'.keys = send.keys /\ send'.opens = send.opens /\ send'.ask = send.ask
        BY <2>1
      <4>2. clock' = clock /\ entry' = entry /\ sent' = sent /\ send'.at = clock /\ send' \in Call
        BY <2>1
      <4>3. clock' \in 0..MaxClock /\ entry' \in [Keys -> Entry] /\ sent' \in Seq(Message)
        BY <4>2, <1>t
      <4>4. send'.at <= clock'
        BY <4>2, <1>t
      <4>5. send'.keys = Limits(send'.opens) /\ send'.keys # <<>> /\ send'.keys # <<"thread">>
        BY <4>1, <2>2, <2>5, <3>1
      <4>6. send'.ask = <<>>
        BY <4>1, <2>2
      <4>7. send'.pc \notin {"idle", "ask", "allowed"}
        BY <2>4
      <4> QED BY <4>2, <4>3, <4>4, <4>5, <4>6, <4>7
    <3> QED BY <3>2, TypedFrom DEF Counting
  <2>6. CASE send.opens /\ send.keys = <<"thread">> /\ send.pc = "time"
    BY <2>1, <2>2, <2>4, <2>6, <1>t, TypedFrom DEF Counting
  <2> QED BY <2>3, <2>5, <2>6
<1>4. CASE Insert
  <2>1. Counting /\ UNCHANGED <<clock, sent>>
    BY <1>4, InsertEffect
  <2>2. PICK k \in Keys :
           /\ k = Head(send.keys)
           /\ \/ GoesOnward /\ entry' = [entry EXCEPT ![k] = Fresh(send.at, WindowOf[k])]
              \/ send.pc = "insert" /\ Goes("incr") /\ UNCHANGED entry
              \/ send.pc = "insert again" /\ GoesOnward /\ UNCHANGED entry
    BY <1>4, InsertEffect
  <2>3. Fresh(send.at, WindowOf[k]) \in Entry
    <3>1. WindowOf[k] = Window \/ WindowOf[k] = ThreadWindow
      BY DEF Keys, WindowOf
    <3> QED BY <3>1, Parts, FreshEntry
  <2>4. CASE GoesOnward
    <3>1. entry' \in [Keys -> Entry]
      <4> DEFINE e == Fresh(send.at, WindowOf[k])
      <4>1. entry' = [entry EXCEPT ![k] = e] \/ entry' = entry
        BY <2>2
      <4> HIDE DEF e
      <4>2. e \in Entry
        BY <2>3 DEF e
      <4> QED BY <4>1, <4>2, <1>t, Written
    <3> QED BY <2>1, <2>4, <3>1, OnwardTyped
  <2>5. CASE ~ GoesOnward
    <3>1. Goes("incr") /\ UNCHANGED entry
      BY <2>2, <2>5
    <3>2. send.keys = Limits(send.opens) \/ (send.opens /\ send.keys = <<"thread">>)
      BY <2>1, CountingKeys
    <3>3. CASE send.keys = Limits(send.opens)
      BY <2>1, <3>1, <3>3, SameKeyTyped
    <3>4. CASE send.opens /\ send.keys = <<"thread">>
      <4>1. entry["thread"] = Absent /\ Head(send.keys) = "thread"
        BY <2>1, <3>4, KeysInOrder DEF Vacant
      <4>2. Inserts(entry[Head(send.keys)], send.at)
        BY <4>1 DEF Inserts
      <4>3. GoesOnward
        BY <1>4, <4>2, InsertEffect
      <4> QED BY <2>5, <4>3
    <3> QED BY <3>2, <3>3, <3>4
  <2> QED BY <2>4, <2>5
<1>5. CASE Incr
  <2>1. Counting /\ UNCHANGED <<clock, sent>> /\ send.keys = Limits(send.opens)
    BY <1>5, IncrEffect
  <2>2. CASE Goes("time again") /\ UNCHANGED entry
    BY <2>1, <2>2, SameKeyTyped
  <2>3. CASE /\ GoesOnward
             /\ entry' = [entry EXCEPT !["message"] = Incremented(entry["message"])]
    <3>1. Incremented(entry["message"]) \in Entry
      BY Parts, EntryTypes
    <3>2. entry' \in [Keys -> Entry]
      BY <2>3, <3>1, Parts, Written
    <3> QED BY <2>1, <2>3, <3>2, OnwardTyped
  <2> QED BY <1>5, <2>2, <2>3, IncrEffect
<1>6. CASE Commit
  BY <1>6, <1>i, <1>t, CommitEffect
<1>7. CASE Rollback
  BY <1>7, <1>i, <1>t, Parts DEF Rollback
<1>8. CASE Tick
  <2>1. clock' = clock + 1 /\ clock' \in 0..MaxClock /\ UNCHANGED <<entry, send>> /\ sent' \in Seq(Message)
    BY <1>8, TickEffect DEF Shifted
  <2>2. send.at \in Nat /\ send.at <= clock
    BY Parts
  <2> QED BY <2>1, <2>2, <1>t DEF Typed, TypeOK, Stages, Counting
<1>9. CASE UNCHANGED vars
  BY <1>9 DEF vars, Typed, TypeOK, Stages, Counting
<1> QED BY <1>1, <1>2, <1>3, <1>4, <1>5, <1>6, <1>7, <1>8, <1>9 DEF Next

\* A call that opens a conversation counts it in an empty entry, step by step.
LEMMA VacantStep == Typed /\ Vacant /\ [Next]_vars => Vacant'
<1> SUFFICES ASSUME Typed, Vacant, [Next]_vars PROVE Vacant'
  OBVIOUS
<1> DEFINE Sound(f) == f = Absent \/ f.value >= 1
<1>v. /\ Sound(entry["thread"]) /\ Sound(send.before["thread"])
      /\ send.opens /\ Counting => entry["thread"] = Absent
  BY DEF Vacant
<1>u. ASSUME Sound(entry'["thread"]), Sound(send'.before["thread"]),
             send'.opens /\ Counting' => entry'["thread"] = Absent
      PROVE Vacant'
  BY <1>u DEF Vacant
<1>k. "message" \in Keys /\ "thread" \in Keys /\ "message" # "thread"
  BY Parts
<1>i. ASSUME send' = Idle PROVE Sound(send'.before["thread"]) /\ ~ Counting'
  <2>1. send'.before = NoEntries /\ send'.pc = "idle"
    BY <1>i, IdleCall
  <2> QED BY <2>1, <1>k DEF NoEntries, Counting
<1>1. CASE Begin
  <2>1. entry' = entry /\ send'.pc = "ask" /\ send'.before = entry
    BY <1>1, BeginEffect
  <2> QED BY <2>1, <1>v, <1>u DEF Counting
<1>2. CASE Ask
  <2>1. PICK k \in Keys :
            /\ k = Head(send.ask)
            /\ entry'[k] = Kept(entry[k], clock)
            /\ \A m \in Keys \ {k} : entry'[m] = entry[m]
            /\ Full(k) => send' = Idle
            /\ ~ Full(k) => /\ send'.opens = send.opens /\ send'.before = send.before
                            /\ send'.pc = IF Len(send.ask) = 1 THEN "time" ELSE "ask"
    BY <1>2, AskEffect
  <2>2. entry'["thread"] = entry["thread"] \/ entry'["thread"] = Absent
    BY <2>1, <1>k DEF Kept
  <2>3. Sound(entry'["thread"])
    BY <2>2, <1>v
  <2>4. CASE Full(k)
    BY <2>1, <2>3, <2>4, <1>i, <1>u
  <2>5. CASE ~ Full(k)
    <3>1. ASSUME send'.opens, Counting' PROVE entry'["thread"] = Absent
      <4>1. Len(send.ask) = 1 /\ send.opens
        BY <2>1, <2>5, <3>1 DEF Counting
      <4>2. Head(send.ask) = "thread"
        <5>1. send.pc = "ask"
          BY <1>2, AskEffect
        <5> QED BY <5>1, <4>1, Asking
      <4>3. ~ (Kept(entry["thread"], clock).value >= 1)
        BY <2>1, <2>5, <4>2 DEF Full, LimitOf
      <4>4. entry'["thread"] = Kept(entry["thread"], clock)
        BY <2>1, <4>2
      <4> QED BY <2>3, <4>3, <4>4
    <3> QED BY <2>1, <2>3, <2>5, <3>1, <1>v, <1>u
  <2> QED BY <2>4, <2>5
<1>3. CASE Time
  <2>1. Counting /\ entry' = entry /\ send'.opens = send.opens /\ send'.before = send.before
    BY <1>3, TimeEffect DEF Counting
  <2> QED BY <2>1, <1>v, <1>u
<1>4. CASE Insert
  <2>1. Counting
    BY <1>4, InsertEffect
  <2>2. send'.opens = send.opens /\ send'.before = send.before
    BY <1>4, InsertEffect DEF Goes, GoesOnward
  <2>3. PICK k \in Keys :
            /\ k = Head(send.keys)
            /\ \/ GoesOnward /\ entry' = [entry EXCEPT ![k] = Fresh(send.at, WindowOf[k])]
               \/ UNCHANGED entry
    BY <1>4, InsertEffect
  <2>4. CASE UNCHANGED entry
    BY <2>1, <2>2, <2>4, <1>v, <1>u
  <2>5. CASE GoesOnward /\ entry' = [entry EXCEPT ![k] = Fresh(send.at, WindowOf[k])]
    <3> DEFINE e == Fresh(send.at, WindowOf[k])
    <3>1. (k = "message" \/ k = "thread") /\ WindowOf["message"] = Window /\ WindowOf["thread"] = ThreadWindow
      BY DEF Keys, WindowOf
    <3>2. e \in Entry /\ e.value = 1
      BY <3>1, Parts, FreshEntry
    <3>3. entry' = [entry EXCEPT ![k] = e]
      BY <2>5
    <3> HIDE DEF e
    <3>4. entry'[k] = e /\ \A m \in Keys \ {k} : entry'[m] = entry[m]
      BY <3>2, <3>3, Written
    <3>5. CASE k = "message"
      <4>1. entry'["thread"] = entry["thread"]
        BY <3>4, <3>5, <1>k
      <4> QED BY <4>1, <2>1, <2>2, <1>v, <1>u
    <3>6. CASE k = "thread"
      <4>1. Sound(entry'["thread"])
        BY <3>2, <3>4, <3>6
      <4>2. Len(send.keys) = 1
        BY <2>1, <2>3, <3>6, <1>k, CountingKeys
      <4>3. ~ Counting'
        BY <4>2, <2>5 DEF GoesOnward, Counting
      <4> QED BY <4>1, <4>3, <2>2, <1>v, <1>u
    <3> QED BY <3>1, <3>5, <3>6
  <2> QED BY <2>3, <2>4, <2>5
<1>5. CASE Incr
  <2>1. Counting
    BY <1>5, IncrEffect
  <2>2. send'.opens = send.opens /\ send'.before = send.before
    BY <1>5, IncrEffect DEF Goes, GoesOnward
  <2>3. entry'["thread"] = entry["thread"]
    <3>1. entry' = entry \/ entry' = [entry EXCEPT !["message"] = Incremented(entry["message"])]
      BY <1>5, IncrEffect
    <3>2. Incremented(entry["message"]) \in Entry
      BY Parts, EntryTypes
    <3> QED BY <3>1, <3>2, <1>k, Written
  <2> QED BY <2>1, <2>2, <2>3, <1>v, <1>u
<1>6. CASE Commit
  BY <1>6, <1>i, <1>v, <1>u, CommitEffect
<1>7. CASE Rollback
  <2>1. entry' = send.before /\ send' = Idle
    BY <1>7 DEF Rollback
  <2> QED BY <2>1, <1>i, <1>v, <1>u
<1>8. CASE Tick
  BY <1>8, <1>v, <1>u, TickEffect DEF Counting
<1>9. CASE UNCHANGED vars
  BY <1>9, <1>v, <1>u DEF vars, Counting
<1> QED BY <1>1, <1>2, <1>3, <1>4, <1>5, <1>6, <1>7, <1>8, <1>9 DEF Next

----------------------------------------------------------------------------
(* The order of the messages.                                              *)

\* What a step leaves of the messages, and where.
LEMMA Persists ==
    ASSUME Typed, NEW d \in 0..1, Shifted(d)
    PROVE  /\ DOMAIN sent' = 1..Len(sent') /\ Len(sent') \in Nat /\ Len(sent') = Len(sent) - d
           /\ \A i \in 1..Len(sent') : i + d \in 1..Len(sent) /\ sent'[i] = sent[i + d]
<1>1. Len(sent) \in Nat /\ sent' \in Seq(Message)
  BY Parts DEF Shifted
<1>2. Len(sent') \in Nat /\ DOMAIN sent' = 1..Len(sent')
  BY <1>1
<1>3. Len(sent') = Len(sent) - d /\ \A i \in 1..Len(sent') : sent'[i] = sent[i + d]
  BY DEF Shifted
<1>4. \A i \in 1..Len(sent') : i + d \in 1..Len(sent)
  BY <1>1, <1>2, <1>3
<1> QED BY <1>2, <1>3, <1>4

\* What each message of the next state was, after a step that adds none.
LEMMA WasSent ==
    ASSUME Typed, NEW d \in 0..1, Shifted(d), NEW i \in DOMAIN sent'
    PROVE  \E j \in DOMAIN sent : sent'[i] = sent[j]
<1>1. i \in 1..Len(sent') /\ i + d \in DOMAIN sent /\ sent'[i] = sent[i + d]
  BY Persists, Parts
<1> QED BY <1>1

\* All steps but Commit add no message.
LEMMA NoneAdded ==
    ASSUME Typed, [Next]_vars, ~ Commit
    PROVE  /\ \E d \in 0..1 : Shifted(d)
           /\ ~ Tick => UNCHANGED <<clock, sent>>
           /\ clock' = clock \/ clock' = clock + 1
<1>1. CASE Tick
  BY <1>1, TickEffect
<1>2. CASE ~ Tick
  <2>1. UNCHANGED <<clock, sent>>
    BY <1>2 DEF Next, vars, Begin, Ask, Time, Insert, Incr, Rollback
  <2> QED BY <2>1, <1>2, NothingForgotten
<1> QED BY <1>1, <1>2

\* A call begins after all messages.
LEMMA BeginsLater ==
    ASSUME Typed, Spaced, Begin, NEW i \in DOMAIN sent
    PROVE  sent[i].at < clock
<1>1. Len(sent) \in Nat /\ i \in 1..Len(sent)
  BY Parts
<1>2. Len(sent) \in DOMAIN sent /\ sent # <<>>
  BY <1>1, Parts
<1>3. sent[Len(sent)].at < clock
  BY <1>2, BeginEffect
<1>4. i = Len(sent) \/ sent[i].at < sent[Len(sent)].at
  <2>1. i = Len(sent) \/ i < Len(sent)
    BY <1>1
  <2> QED BY <2>1, <1>2 DEF Spaced
<1>5. sent[i].at \in Nat /\ sent[Len(sent)].at \in Nat /\ clock \in Nat
  BY <1>1, <1>2, Parts
<1> QED BY <1>3, <1>4, <1>5

\* The times of the messages, of the call and of the clock keep their order.
LEMMA LaterStep ==
    ASSUME Typed, Typed', Vacant, Spaced, MessageWindow, Later, [Next]_vars
    PROVE  Later'
<1>t. clock \in Nat /\ send.at \in Nat /\ send.at <= clock
  BY Parts
<1>s. ASSUME NEW i \in DOMAIN sent
      PROVE  /\ Whole(sent[i].window) /\ sent[i].at <= clock /\ sent[i].at \in Nat
             /\ send.pc # "idle" => sent[i].at < clock
             /\ Timed => sent[i].at < send.at
  BY Parts DEF Later
\* It is enough to look at the call, for the messages stay the ones they were.
<1>u. ASSUME UNCHANGED <<clock, sent>>,
             send'.pc # "idle" => \A i \in DOMAIN sent : sent[i].at < clock,
             Timed' => \A i \in DOMAIN sent : sent[i].at < send'.at
      PROVE Later'
  BY <1>u, <1>s DEF Later
<1>1. CASE Begin
  <2>1. send'.pc = "ask" /\ UNCHANGED <<clock, sent>>
    BY <1>1, BeginEffect
  <2>2. \A i \in DOMAIN sent : sent[i].at < clock
    BY <1>1, BeginsLater
  <2> QED BY <2>1, <2>2, <1>u DEF Timed
<1>2. CASE Ask
  <2>1. send.pc = "ask" /\ UNCHANGED <<clock, sent>>
    BY <1>2, AskEffect
  <2>2. send'.pc \in {"idle", "ask"} \/ (send'.pc = "time" /\ send'.keys = Limits(send'.opens))
    <3>1. CASE send' = Idle
      BY <3>1, IdleCall
    <3>2. CASE send' # Idle
      <4>1. send'.keys = send.keys /\ send'.opens = send.opens /\ send'.pc \in {"time", "ask"}
        BY <1>2, <3>2, AskEffect
      <4> QED BY <4>1, <2>1, Asking
    <3> QED BY <3>1, <3>2
  <2>3. ~ Timed'
    BY <2>2 DEF Timed
  <2>4. \A i \in DOMAIN sent : sent[i].at < clock
    BY <2>1, <1>s
  <2> QED BY <2>1, <2>3, <2>4, <1>u
<1>3. CASE Time
  <2>1. send.pc \in {"time", "time again"} /\ UNCHANGED <<clock, sent>> /\ send'.at = clock
    BY <1>3, TimeEffect
  <2>2. \A i \in DOMAIN sent : sent[i].at < clock
    BY <2>1, <1>s
  <2> QED BY <2>1, <2>2, <1>u
<1>4. CASE Insert \/ Incr
  <2>1. send.pc \in {"insert", "insert again", "incr"} /\ UNCHANGED <<clock, sent>> /\ send'.at = send.at
    BY <1>4, InsertEffect, IncrEffect DEF Goes, GoesOnward
  <2>2. Timed
    BY <2>1 DEF Timed
  <2>3. \A i \in DOMAIN sent : sent[i].at < clock /\ sent[i].at < send.at
    BY <2>1, <2>2, <1>s
  <2> QED BY <2>1, <2>3, <1>u
<1>5. CASE Commit
  <2>1. /\ send.pc = "allowed" /\ clock' = clock /\ send' = Idle
        /\ sent' \in Seq(Message) /\ Len(sent') = Len(sent) + 1
        /\ \A i \in 1..Len(sent) : sent'[i] = sent[i]
        /\ sent'[Len(sent) + 1].at = send.at
        /\ sent'[Len(sent) + 1].window = entry["message"].expires
    BY <1>5, CommitEffect
  <2>2. Whole(entry["message"].expires)
    BY <2>1 DEF MessageWindow, Taken, Present
  <2>3. send'.pc = "idle"
    BY <2>1, IdleCall
  <2>4. ASSUME NEW i \in DOMAIN sent' PROVE Whole(sent'[i].window) /\ sent'[i].at <= clock
    <3>1. i \in 1..Len(sent) \/ i = Len(sent) + 1
      BY <2>1, Parts
    <3>2. CASE i \in 1..Len(sent)
      BY <3>2, <2>1, <1>s, Parts
    <3>3. CASE i = Len(sent) + 1
      BY <3>3, <2>1, <2>2, <1>t
    <3> QED BY <3>1, <3>2, <3>3
  <2> QED BY <2>1, <2>3, <2>4 DEF Later, Timed
<1>6. CASE Rollback
  <2>1. UNCHANGED <<clock, sent>> /\ send' = Idle
    BY <1>6 DEF Rollback
  <2>2. send'.pc = "idle"
    BY <2>1, IdleCall
  <2> QED BY <2>1, <2>2, <1>u DEF Timed
<1>7. CASE Tick
  <2>1. clock' = clock + 1 /\ send' = send
    BY <1>7, TickEffect
  <2>2. PICK d \in 0..1 : Shifted(d)
    BY <1>7, TickEffect
  <2>3. ASSUME NEW i \in DOMAIN sent'
        PROVE  /\ Whole(sent'[i].window) /\ sent'[i].at < clock'
               /\ Timed => sent'[i].at < send.at
    <3>1. PICK j \in DOMAIN sent : sent'[i] = sent[j]
      BY <2>2, WasSent
    <3>2. sent[j].at < clock'
      BY <1>s, <1>t, <2>1
    <3> QED BY <3>1, <3>2, <1>s
  <2>4. ASSUME NEW i \in DOMAIN sent' PROVE sent'[i].at <= clock'
    <3>1. PICK j \in DOMAIN sent : sent'[i] = sent[j]
      BY <2>2, WasSent
    <3> QED BY <3>1, <1>s, <1>t, <2>1
  <2> QED BY <2>1, <2>3, <2>4 DEF Later, Timed
<1>8. CASE UNCHANGED vars
  BY <1>8, <1>s, <1>u DEF vars, Timed
<1> QED BY <1>1, <1>2, <1>3, <1>4, <1>5, <1>6, <1>7, <1>8 DEF Next

----------------------------------------------------------------------------
(* The window of messages.  S and T are the messages before and after a    *)
(* step that forgets the first d of them.                                  *)

Forgotten(S, T, d) ==
    /\ Len(T) = Len(S) - d
    /\ \A i \in 1..Len(T) : T[i] = S[i + d]

\* The messages of a history, by position.
LEMMA Messages ==
    ASSUME NEW S \in Seq(Message)
    PROVE  /\ Len(S) \in Nat /\ DOMAIN S = 1..Len(S)
           /\ \A i \in 1..Len(S) : S[i].at \in Nat /\ S[i].window \in Nat /\ S[i].opens \in BOOLEAN
<1>1. Len(S) \in Nat /\ DOMAIN S = 1..Len(S) /\ \A i \in 1..Len(S) : S[i] \in Message
  OBVIOUS
<1>2. \A m \in Message : m.at \in Nat /\ m.window \in Nat /\ m.opens \in BOOLEAN
  BY DEF Message
<1> QED BY <1>1, <1>2

\* Where a message of T was in S, and how many follow it.
Came(S, T, d, i) ==
    /\ i \in Nat /\ i + d \in DOMAIN S /\ T[i] = S[i + d]
    /\ Len(T) - i = Len(S) - (i + d) /\ Len(T) + 1 - i = Len(S) + 1 - (i + d)
    /\ T[Len(T)] = S[Len(S)]
    /\ S[i + d].at \in Nat /\ S[i + d].window \in Nat /\ Len(S) \in Nat /\ Len(T) \in Nat

LEMMA Origin ==
    ASSUME NEW S \in Seq(Message), NEW T \in Seq(Message), NEW d \in 0..1, Forgotten(S, T, d),
           NEW i \in DOMAIN T
    PROVE  Came(S, T, d, i)
<1>1. /\ Len(S) \in Nat /\ DOMAIN S = 1..Len(S) /\ Len(T) \in Nat /\ DOMAIN T = 1..Len(T)
  BY Messages
<1>2. Len(T) = Len(S) - d /\ \A j \in 1..Len(T) : T[j] = S[j + d]
  BY DEF Forgotten
<1>3. i \in 1..Len(T) /\ Len(T) \in 1..Len(T) /\ i + d \in 1..Len(S)
  BY <1>1, <1>2
<1>4. T[i] = S[i + d] /\ T[Len(T)] = S[Len(T) + d] /\ Len(T) + d = Len(S)
  BY <1>1, <1>2, <1>3
<1>5. Len(T) - i = Len(S) - (i + d) /\ Len(T) + 1 - i = Len(S) + 1 - (i + d) /\ i \in Nat
  <2> DEFINE m == Len(S)
             n == Len(T)
  <2>1. m \in Nat /\ n \in Nat /\ n = m - d /\ i \in 1..n
    BY <1>1, <1>2, <1>3
  <2> HIDE DEF m, n
  <2>2. n - i = m - (i + d) /\ n + 1 - i = m + 1 - (i + d) /\ i \in Nat
    BY <2>1
  <2> QED BY <2>2 DEF m, n
<1>6. S[i + d].at \in Nat /\ S[i + d].window \in Nat
  BY <1>3, Messages
<1> QED BY <1>1, <1>3, <1>4, <1>5, <1>6 DEF Came

\* What the entry holds is not disturbed by time and by forgetting.
LEMMA HoldsKept ==
    ASSUME NEW S \in Seq(Message), NEW T \in Seq(Message), NEW d \in 0..1, Forgotten(S, T, d),
           NEW e, NEW now \in Nat, NEW then \in Nat, now <= then, Holds(S, e, now)
    PROVE  Holds(T, e, then)
<1>1. CASE e = Absent
  <2>1. ASSUME NEW i \in DOMAIN T PROVE T[i].window < then
    <3>1. Came(S, T, d, i)
      BY Origin
    <3>2. i + d \in DOMAIN S /\ T[i] = S[i + d] /\ S[i + d].window \in Nat
      BY <3>1 DEF Came
    <3>3. S[i + d].window < now
      BY <1>1, <3>2 DEF Holds
    <3> QED BY <3>2, <3>3
  <2> QED BY <1>1, <2>1 DEF Holds
<1>2. CASE e # Absent
  <2>1. Present(e)
    BY <1>2 DEF Holds
  <2>2. ASSUME NEW i \in DOMAIN T
        PROVE  \/ T[i].window + Window <= e.expires /\ T[i].window < then
               \/ /\ T[i].window = e.expires /\ Len(T) - i < Limit
                  /\ (Len(T) - i < e.value \/ T[Len(T)].at >= e.expires)
    <3>1. /\ i + d \in DOMAIN S /\ T[i] = S[i + d] /\ Len(T) - i = Len(S) - (i + d)
          /\ T[Len(T)] = S[Len(S)] /\ S[i + d].window \in Nat
      <4>1. Came(S, T, d, i)
        BY Origin
      <4> QED BY <4>1 DEF Came
    <3>2. \/ S[i + d].window + Window <= e.expires /\ S[i + d].window < now
          \/ /\ S[i + d].window = e.expires /\ Len(S) - (i + d) < Limit
             /\ (Len(S) - (i + d) < e.value \/ S[Len(S)].at >= e.expires)
      BY <1>2, <3>1 DEF Holds
    <3>3. S[i + d].window < now => S[i + d].window < then
      BY <3>1
    <3> QED BY <3>1, <3>2, <3>3
  <2> QED BY <1>2, <2>1, <2>2 DEF Holds
<1> QED BY <1>1, <1>2

\* Nor is the room that a call has found.
LEMMA RoomKept ==
    ASSUME NEW S \in Seq(Message), NEW T \in Seq(Message), NEW d \in 0..1, Forgotten(S, T, d),
           NEW e, NEW now \in Nat, NEW then \in Nat, now <= then, Room(S, e, now)
    PROVE  Room(T, e, then)
<1>1. CASE e = Absent
  <2>1. ASSUME NEW i \in DOMAIN T PROVE T[i].window < then
    <3>1. Came(S, T, d, i)
      BY Origin
    <3>2. i + d \in DOMAIN S /\ T[i] = S[i + d] /\ S[i + d].window \in Nat
      BY <3>1 DEF Came
    <3>3. S[i + d].window < now
      BY <1>1, <3>2 DEF Room
    <3> QED BY <3>2, <3>3
  <2> QED BY <1>1, <2>1 DEF Room
<1>2. CASE e # Absent
  <2>1. Present(e) /\ e.value < Limit
    BY <1>2 DEF Room
  <2>2. ASSUME NEW i \in DOMAIN T
        PROVE  /\ T[i].at < e.expires
               /\ \/ T[i].window + Window <= e.expires /\ T[i].window < then
                  \/ T[i].window = e.expires /\ Len(T) - i < e.value
    <3>1. i + d \in DOMAIN S /\ T[i] = S[i + d] /\ Len(T) - i = Len(S) - (i + d) /\ S[i + d].window \in Nat
      <4>1. Came(S, T, d, i)
        BY Origin
      <4> QED BY <4>1 DEF Came
    <3>2. /\ S[i + d].at < e.expires
          /\ \/ S[i + d].window + Window <= e.expires /\ S[i + d].window < now
             \/ S[i + d].window = e.expires /\ Len(S) - (i + d) < e.value
      BY <1>2, <3>1 DEF Room
    <3>3. S[i + d].window < now => S[i + d].window < then
      BY <3>1
    <3> QED BY <3>1, <3>2, <3>3
  <2> QED BY <1>2, <2>1, <2>2 DEF Room
<1> QED BY <1>1, <1>2

\* Nor is what a call has taken, also by a later add of the same call.
LEMMA TakenKept ==
    ASSUME NEW S \in Seq(Message), NEW T \in Seq(Message), NEW d \in 0..1, Forgotten(S, T, d),
           NEW e \in Entry, NEW at \in Nat, NEW later \in Nat, at <= later, Taken(S, e, at)
    PROVE  Taken(T, e, later)
<1>1. Present(e) /\ e.expires \in Nat
  BY DEF Taken, Entry
<1>2. ASSUME NEW i \in DOMAIN T
      PROVE  /\ T[i].at < e.expires
             /\ \/ T[i].window + Window <= e.expires /\ T[i].window < later
                \/ /\ T[i].window = e.expires /\ Len(T) + 1 - i < Limit
                   /\ (Len(T) + 1 - i < e.value \/ later >= e.expires)
  <2>1. i + d \in DOMAIN S /\ T[i] = S[i + d] /\ Len(T) + 1 - i = Len(S) + 1 - (i + d) /\ S[i + d].window \in Nat
    <3>1. Came(S, T, d, i)
      BY Origin
    <3> QED BY <3>1 DEF Came
  <2>2. /\ S[i + d].at < e.expires
        /\ \/ S[i + d].window + Window <= e.expires /\ S[i + d].window < at
           \/ /\ S[i + d].window = e.expires /\ Len(S) + 1 - (i + d) < Limit
              /\ (Len(S) + 1 - (i + d) < e.value \/ at >= e.expires)
    BY <2>1 DEF Taken
  <2>3. /\ S[i + d].window < at => S[i + d].window < later
        /\ at >= e.expires => later >= e.expires
    BY <2>1, <1>1
  <2> QED BY <2>1, <2>2, <2>3
<1> QED BY <1>1, <1>2 DEF Taken

\* A call that reads the window below its limit has room in it.
LEMMA AskFindsRoom ==
    ASSUME NEW S \in Seq(Message), NEW e \in Entry, NEW now \in Nat, Holds(S, e, now),
           \A i \in DOMAIN S : S[i].at < now, Kept(e, now).value < Limit
    PROVE  Room(S, Kept(e, now), now)
<1>1. /\ Len(S) \in Nat /\ DOMAIN S = 1..Len(S)
      /\ \A i \in 1..Len(S) : S[i].at \in Nat /\ S[i].window \in Nat
  BY Messages
<1>2. e.value \in Nat /\ e.expires \in Nat
  BY DEF Entry
<1>3. CASE e = Absent
  <2>1. Kept(e, now) = Absent
    BY <1>3 DEF Kept
  <2>2. \A i \in DOMAIN S : S[i].window < now
    BY <1>3 DEF Holds
  <2> QED BY <2>1, <2>2 DEF Room
<1>4. CASE e # Absent
  <2>1. Present(e)
    BY <1>4 DEF Holds
  <2>2. ASSUME NEW i \in DOMAIN S
        PROVE  \/ S[i].window + Window <= e.expires /\ S[i].window < now
               \/ S[i].window = e.expires /\ (Len(S) - i < e.value \/ S[Len(S)].at >= e.expires)
    BY <1>4 DEF Holds
  <2>3. CASE e.expires < now
    <3>1. Kept(e, now) = Absent
      BY <2>3 DEF Kept
    <3>2. \A i \in DOMAIN S : S[i].window < now
      BY <2>2, <2>3
    <3> QED BY <3>1, <3>2 DEF Room
  <2>4. CASE ~ (e.expires < now)
    <3>1. Kept(e, now) = e
      BY <2>4 DEF Kept
    <3>2. ASSUME NEW i \in DOMAIN S
          PROVE  /\ S[i].at < e.expires
                 /\ \/ S[i].window + Window <= e.expires /\ S[i].window < now
                    \/ S[i].window = e.expires /\ Len(S) - i < e.value
      <4>1. Len(S) \in DOMAIN S /\ i \in 1..Len(S)
        BY <1>1
      <4>2. S[Len(S)].at < now /\ S[i].at < now /\ S[i].at \in Nat /\ S[Len(S)].at \in Nat
        BY <4>1, <1>1
      <4>3. S[i].at < e.expires /\ ~ (S[Len(S)].at >= e.expires)
        BY <4>2, <2>4, <1>2
      <4> QED BY <4>3, <2>2
    <3> QED BY <1>4, <2>1, <3>1, <3>2 DEF Room
  <2> QED BY <2>3, <2>4
<1> QED BY <1>3, <1>4

\* An add that inserts the row opens a window with this message in it.
LEMMA InsertTakes ==
    ASSUME NEW S \in Seq(Message), NEW e \in Entry, NEW at \in Nat, Room(S, e, at), Inserts(e, at),
           \A i \in DOMAIN S : S[i].at < at /\ Whole(S[i].window)
    PROVE  Taken(S, Fresh(at, Window), at)
<1> DEFINE f == Fresh(at, Window)
<1>1. /\ DOMAIN S = 1..Len(S)
      /\ \A i \in 1..Len(S) : S[i].at \in Nat /\ S[i].window \in Nat
  BY Messages
<1>2. e.value \in Nat /\ e.expires \in Nat
  BY DEF Entry
<1>3. f # Absent /\ f.value = 1 /\ f.expires = Floor(at) + Window /\ Whole(f.expires)
  BY FreshEntry
<1>4. Floor(at) \in Nat /\ Floor(at) <= at /\ at < Floor(at) + Second
  BY FloorBounds
<1>5. Present(f)
  BY <1>3, Constants DEF Present
<1>6. ASSUME NEW i \in DOMAIN S PROVE S[i].window <= Floor(at) /\ S[i].window < at
  <2>1. S[i].window \in Nat /\ Whole(S[i].window)
    BY <1>1
  <2>2. CASE e = Absent
    <3>1. S[i].window < at
      BY <2>2 DEF Room
    <3>2. S[i].window <= at
      BY <2>1, <3>1
    <3> QED BY <2>1, <3>1, <3>2, FloorKeepsWhole
  <2>3. CASE e # Absent
    <3>1. e.expires < Floor(at)
      BY <2>3 DEF Inserts
    <3>2. S[i].window + Window <= e.expires \/ S[i].window = e.expires
      BY <2>3 DEF Room
    <3>3. Window \in Nat
      BY Constants
    <3> QED BY <2>1, <3>1, <3>2, <3>3, <1>2, <1>4
  <2> QED BY <2>2, <2>3
<1>7. ASSUME NEW i \in DOMAIN S PROVE S[i].at < f.expires /\ S[i].window + Window <= f.expires
  <2>1. S[i].at \in Nat /\ S[i].window \in Nat /\ S[i].at < at
    BY <1>1
  <2>2. Window \in Nat /\ Window >= Second /\ Second \in Nat
    BY Constants, WindowsAreSeconds
  <2>3. S[i].window <= Floor(at)
    BY <1>6
  <2> HIDE DEF f
  <2> QED BY <2>1, <2>2, <2>3, <1>3, <1>4
<1> HIDE DEF f
<1>8. Taken(S, f, at)
  BY <1>5, <1>6, <1>7 DEF Taken
<1> QED BY <1>8 DEF f

\* An increment takes one more of the window.
LEMMA IncrementTakes ==
    ASSUME NEW S \in Seq(Message), NEW e \in Entry, NEW at \in Nat, Room(S, e, at), e # Absent
    PROVE  Taken(S, Incremented(e), at)
<1> DEFINE f == Incremented(e)
           n == Len(S)
<1>1. n \in Nat /\ DOMAIN S = 1..n
  BY Messages
<1>2. /\ e.value \in Nat /\ e.expires \in Nat
      /\ f.value = e.value + 1 /\ f.expires = e.expires /\ f # Absent
  BY EntryTypes
<1>3. Present(e) /\ e.value < Limit /\ Limit \in Nat
  BY Constants DEF Room
<1> HIDE DEF f
<1>4. Present(f)
  BY <1>2, <1>3 DEF Present
<1>5. ASSUME NEW i \in DOMAIN S
      PROVE  /\ S[i].at < f.expires
             /\ \/ S[i].window + Window <= f.expires /\ S[i].window < at
                \/ S[i].window = f.expires /\ n + 1 - i < Limit /\ n + 1 - i < f.value
  <2>1. /\ S[i].at < e.expires
        /\ \/ S[i].window + Window <= e.expires /\ S[i].window < at
           \/ S[i].window = e.expires /\ n - i < e.value
    BY DEF Room
  <2>2. i \in 1..n
    BY <1>1
  <2> HIDE DEF n
  <2>3. n - i < e.value => n + 1 - i < Limit /\ n + 1 - i < f.value
    BY <2>2, <1>1, <1>2, <1>3
  <2> QED BY <2>1, <2>3, <1>2
<1>6. Taken(S, f, at)
  BY <1>4, <1>5 DEF Taken, n
<1> QED BY <1>6 DEF f

\* A message let through uncounted, past the expiry, takes what is left of the window.
LEMMA UncountedTakes ==
    ASSUME NEW S \in Seq(Message), NEW e \in Entry, NEW at \in Nat, Room(S, e, at), e # Absent,
           at >= e.expires
    PROVE  Taken(S, e, at)
<1> DEFINE n == Len(S)
<1>1. n \in Nat /\ DOMAIN S = 1..n
  BY Messages
<1>2. Present(e) /\ e.value < Limit /\ Limit \in Nat /\ e.value \in Nat
  BY Constants DEF Room, Entry
<1>3. ASSUME NEW i \in DOMAIN S
      PROVE  /\ S[i].at < e.expires
             /\ \/ S[i].window + Window <= e.expires /\ S[i].window < at
                \/ S[i].window = e.expires /\ n + 1 - i < Limit
  <2>1. /\ S[i].at < e.expires
        /\ \/ S[i].window + Window <= e.expires /\ S[i].window < at
           \/ S[i].window = e.expires /\ n - i < e.value
    BY <1>2 DEF Room
  <2>2. i \in 1..n
    BY <1>1
  <2> HIDE DEF n
  <2>3. n - i < e.value => n + 1 - i < Limit
    BY <2>2, <1>1, <1>2
  <2> QED BY <2>1, <2>3
<1> QED BY <1>2, <1>3 DEF Taken, n

\* T is S with one more message, of the window of e.
Stores(S, T, e, at) ==
    /\ Len(T) = Len(S) + 1
    /\ \A i \in 1..Len(S) : T[i] = S[i]
    /\ T[Len(S) + 1].at = at /\ T[Len(S) + 1].window = e.expires

\* Storing what the call has taken, the entry counts the messages of its window.
LEMMA CommitHolds ==
    ASSUME NEW S \in Seq(Message), NEW T \in Seq(Message), NEW e \in Entry, NEW at \in Nat,
           Stores(S, T, e, at), Taken(S, e, at), NEW now \in Nat, at <= now
    PROVE  Holds(T, e, now)
<1> DEFINE m == Len(S)
           n == Len(T)
<1>1. /\ m \in Nat /\ DOMAIN S = 1..m /\ n \in Nat /\ DOMAIN T = 1..n
      /\ \A i \in 1..m : S[i].at \in Nat /\ S[i].window \in Nat
  BY Messages
<1>2. Present(e) /\ e # Absent /\ e.value \in 1..Limit /\ Limit \in Nat /\ Limit > 0
  BY Constants DEF Taken, Present
<1>3. /\ n = m + 1 /\ \A i \in 1..m : T[i] = S[i]
      /\ T[n].at = at /\ T[n].window = e.expires
  BY DEF Stores
<1>4. ASSUME NEW i \in DOMAIN T
      PROVE  \/ T[i].window + Window <= e.expires /\ T[i].window < now
             \/ /\ T[i].window = e.expires /\ n - i < Limit
                /\ (n - i < e.value \/ T[n].at >= e.expires)
  <2>1. CASE i = n
    <3>1. n - i = 0
      BY <2>1, <1>1
    <3>2. n - i < Limit /\ n - i < e.value
      BY <3>1, <1>2
    <3> QED BY <2>1, <3>2, <1>3
  <2>2. CASE i # n
    <3>1. i \in 1..m /\ n - i = m + 1 - i
      <4>1. n = m + 1 /\ i \in 1..n /\ m \in Nat
        BY <1>1, <1>3
      <4> HIDE DEF m, n
      <4> QED BY <4>1, <2>2
    <3>2. T[i] = S[i] /\ S[i].window \in Nat /\ i \in DOMAIN S
      BY <3>1, <1>1, <1>3
    <3>3. \/ S[i].window + Window <= e.expires /\ S[i].window < at
          \/ /\ S[i].window = e.expires /\ m + 1 - i < Limit
             /\ (m + 1 - i < e.value \/ at >= e.expires)
      BY <3>2 DEF Taken
    <3>4. S[i].window < at => S[i].window < now
      BY <3>2
    <3> QED BY <3>1, <3>2, <3>3, <3>4, <1>3
  <2> QED BY <2>1, <2>2
<1> QED BY <1>2, <1>4 DEF Holds

\* Room that a call has found is what the entry holds.
LEMMA RoomHolds ==
    ASSUME NEW S \in Seq(Message), NEW e \in Entry, NEW now \in Nat, Room(S, e, now)
    PROVE  Holds(S, e, now)
<1> DEFINE n == Len(S)
<1>1. CASE e = Absent
  BY <1>1 DEF Room, Holds
<1>2. CASE e # Absent
  <2>1. n \in Nat /\ DOMAIN S = 1..n
    BY Messages
  <2>2. Present(e) /\ e.value < Limit /\ e.value \in Nat /\ Limit \in Nat
    BY <1>2, Constants DEF Room, Entry
  <2>3. ASSUME NEW i \in DOMAIN S
        PROVE  \/ S[i].window + Window <= e.expires /\ S[i].window < now
               \/ S[i].window = e.expires /\ n - i < Limit /\ n - i < e.value
    <3>1. \/ S[i].window + Window <= e.expires /\ S[i].window < now
          \/ S[i].window = e.expires /\ n - i < e.value
      BY <1>2 DEF Room
    <3>2. i \in 1..n
      BY <2>1
    <3> HIDE DEF n
    <3>3. n - i < e.value => n - i < Limit
      BY <3>2, <2>1, <2>2
    <3> QED BY <3>1, <3>3
  <2> QED BY <1>2, <2>2, <2>3 DEF Holds, n
<1> QED BY <1>1, <1>2

\* A window found full is left as it was.
LEMMA FullKept ==
    ASSUME NEW e \in Entry, NEW now \in Nat, Kept(e, now).value >= Limit
    PROVE  Kept(e, now) = e
<1>1. Absent.value = 0 /\ Limit > 0 /\ Limit \in Nat
  BY Constants DEF Absent
<1>2. Kept(e, now) # Absent
  BY <1>1
<1> QED BY <1>2 DEF Kept

\* What MessageWindow says of the next state.
LEMMA WindowFrom ==
    ASSUME NEW e, e = entry'["message"],
           send'.pc = "idle" \/ send'.ask = Limits(send'.opens) => Holds(sent', e, clock'),
           send'.pc # "idle" => Holds(sent', send'.before["message"], clock'),
           send'.pc = "ask" /\ send'.ask = <<"thread">> => Room(sent', e, clock'),
           Counting' /\ send'.keys = Limits(send'.opens) =>
               /\ Room(sent', e, IF send'.pc = "time" THEN clock' ELSE send'.at)
               /\ send'.pc \notin {"time", "insert"} => e # Absent
               /\ send'.pc = "time again" => clock' >= e.expires
               /\ send'.pc = "insert again" => send'.at >= e.expires,
           send'.pc = "allowed" \/ (Counting' /\ send'.keys = <<"thread">>) => Taken(sent', e, send'.at)
    PROVE  MessageWindow'
BY DEF MessageWindow

\* A call that has taken its place in the window of messages, and its transaction.
LEMMA TakenWindow ==
    ASSUME Typed', NEW e, e = entry'["message"], Taken(sent', e, send'.at),
           Holds(sent', send'.before["message"], clock'),
           send'.pc = "allowed" \/ (Counting' /\ send'.keys = <<"thread">>)
    PROVE  MessageWindow'
<1>1. send'.ask = <<>> /\ send'.pc \notin {"idle", "ask"}
  BY DEF Typed, TypeOK, Counting
<1>2. Limits(send'.opens) # <<>> /\ Limits(send'.opens) # <<"thread">> /\ send'.keys # Limits(send'.opens)
  <2>1. send'.opens = TRUE \/ send'.opens = FALSE
    BY CallFields DEF Typed, TypeOK
  <2>2. send'.pc = "allowed" => send'.keys = <<>>
    BY DEF Typed, TypeOK
  <2> QED BY <2>1, <2>2, KeysInOrder
<1> QED BY <1>1, <1>2, WindowFrom

\* A call that has found room and counts.
LEMMA RoomWindow ==
    ASSUME Typed', NEW e, e = entry'["message"], Counting', send'.keys = Limits(send'.opens),
           Room(sent', e, IF send'.pc = "time" THEN clock' ELSE send'.at),
           Holds(sent', send'.before["message"], clock'),
           send'.pc \notin {"time", "insert"} => e # Absent,
           send'.pc = "time again" => clock' >= e.expires,
           send'.pc = "insert again" => send'.at >= e.expires
    PROVE  MessageWindow'
<1>1. send'.ask = <<>> /\ send'.pc \notin {"idle", "ask", "allowed"}
  BY DEF Typed, TypeOK, Counting
<1>2. Limits(send'.opens) # <<>> /\ Limits(send'.opens) # <<"thread">>
  <2>1. send'.opens = TRUE \/ send'.opens = FALSE
    BY CallFields DEF Typed, TypeOK
  <2> QED BY <2>1, KeysInOrder
<1> QED BY <1>1, <1>2, WindowFrom

\* No call.
LEMMA IdleWindow ==
    ASSUME send' = Idle, Holds(sent', entry'["message"], clock')
    PROVE  MessageWindow'
<1>1. send'.pc = "idle" /\ send'.ask = <<>> /\ send'.keys = <<>> /\ ~ Counting'
  BY IdleCall DEF Counting
<1> QED BY <1>1, WindowFrom

\* The parts of MessageWindow that concern a call under way.
LEMMA WindowParts ==
    ASSUME Typed, MessageWindow, NEW e, e = entry["message"]
    PROVE  /\ send.pc = "idle" \/ send.ask = Limits(send.opens) => Holds(sent, e, clock)
           /\ send.pc # "idle" => Holds(sent, send.before["message"], clock)
           /\ send.pc = "ask" /\ send.ask = <<"thread">> => Room(sent, e, clock)
           /\ Counting /\ send.keys = Limits(send.opens) =>
               /\ Room(sent, e, IF send.pc = "time" THEN clock ELSE send.at)
               /\ send.pc \notin {"time", "insert"} => e # Absent
               /\ send.pc = "time again" => clock >= e.expires
               /\ send.pc = "insert again" => send.at >= e.expires
           /\ send.pc = "allowed" \/ (Counting /\ send.keys = <<"thread">>) => Taken(sent, e, send.at)
           /\ e \in Entry
BY Parts DEF MessageWindow

\* A call counts on, at the key it is at: what it has found or taken lasts through a
\* step of the clock.
LEMMA WindowTick ==
    ASSUME Typed, Typed', MessageWindow, NEW d \in 0..1, Shifted(d), UNCHANGED <<entry, send>>,
           clock <= clock'
    PROVE  MessageWindow'
<1> DEFINE e == entry["message"]
<1>1. /\ clock \in Nat /\ clock' \in Nat /\ send.at \in Nat /\ sent \in Seq(Message) /\ sent' \in Seq(Message)
  BY Parts DEF Shifted, Typed, TypeOK
<1>2. Forgotten(sent, sent', d)
  BY DEF Shifted, Forgotten
<1>3. e = entry'["message"] /\ e \in Entry
  BY Parts
<1> HIDE DEF e
<1>4. /\ send.pc = "idle" \/ send.ask = Limits(send.opens) => Holds(sent, e, clock)
      /\ send.pc # "idle" => Holds(sent, send.before["message"], clock)
      /\ send.pc = "ask" /\ send.ask = <<"thread">> => Room(sent, e, clock)
      /\ Counting /\ send.keys = Limits(send.opens) =>
          /\ Room(sent, e, IF send.pc = "time" THEN clock ELSE send.at)
          /\ send.pc \notin {"time", "insert"} => e # Absent
          /\ send.pc = "time again" => clock >= e.expires
          /\ send.pc = "insert again" => send.at >= e.expires
      /\ send.pc = "allowed" \/ (Counting /\ send.keys = <<"thread">>) => Taken(sent, e, send.at)
  BY WindowParts DEF e
<1>5. ASSUME NEW f, Holds(sent, f, clock) PROVE Holds(sent', f, clock')
  BY <1>1, <1>2, <1>5, HoldsKept
<1>6. Room(sent, e, clock) => Room(sent', e, clock')
  BY <1>1, <1>2, RoomKept
<1>7. Room(sent, e, send.at) => Room(sent', e, send.at)
  BY <1>1, <1>2, RoomKept
<1>8. Taken(sent, e, send.at) => Taken(sent', e, send.at)
  BY <1>1, <1>2, <1>3, TakenKept
<1>9. clock >= e.expires => clock' >= e.expires
  <2>1. e.expires \in Nat
    BY <1>3 DEF Entry
  <2> QED BY <1>1, <2>1
<1>10. Counting' <=> Counting
  BY DEF Counting
<1>11. send' = send
  OBVIOUS
<1>12. Counting /\ send.keys = Limits(send.opens) => Room(sent', e, IF send.pc = "time" THEN clock' ELSE send.at)
  BY <1>4, <1>6, <1>7
<1>13. send.pc # "idle" => Holds(sent', send.before["message"], clock')
  BY <1>4, <1>5
<1>14. send.pc = "idle" \/ send.ask = Limits(send.opens) => Holds(sent', e, clock')
  BY <1>4, <1>5
<1> QED BY <1>3, <1>4, <1>6, <1>8, <1>9, <1>10, <1>11, <1>12, <1>13, <1>14, WindowFrom

\* The window of messages, step by step.
LEMMA WindowStep ==
    ASSUME Typed, Typed', Vacant, Later, MessageWindow, [Next]_vars
    PROVE  MessageWindow'
<1> DEFINE e == entry["message"]
           b == send.before["message"]
<1>t. /\ clock \in Nat /\ clock \in 0..MaxClock /\ send.at \in Nat /\ send.at <= clock
      /\ sent \in Seq(Message) /\ e \in Entry
      /\ "message" \in Keys /\ "thread" \in Keys /\ "message" # "thread"
  BY Parts DEF Typed, TypeOK
<1>c. /\ send.pc = "idle" \/ send.ask = Limits(send.opens) => Holds(sent, e, clock)
      /\ send.pc # "idle" => Holds(sent, b, clock)
      /\ send.pc = "ask" /\ send.ask = <<"thread">> => Room(sent, e, clock)
      /\ Counting /\ send.keys = Limits(send.opens) =>
          /\ Room(sent, e, IF send.pc = "time" THEN clock ELSE send.at)
          /\ send.pc \notin {"time", "insert"} => e # Absent
          /\ send.pc = "time again" => clock >= e.expires
          /\ send.pc = "insert again" => send.at >= e.expires
      /\ send.pc = "allowed" \/ (Counting /\ send.keys = <<"thread">>) => Taken(sent, e, send.at)
  BY WindowParts
<1>m. \A i \in DOMAIN sent : Whole(sent[i].window) /\ (send.pc # "idle" => sent[i].at < clock)
  BY DEF Later
<1>l. send.pc \in {"insert", "insert again", "incr"} => \A i \in DOMAIN sent : sent[i].at < send.at
  BY DEF Later, Timed
<1> HIDE DEF e, b
<1>1. CASE Begin
  <2>1. /\ UNCHANGED <<clock, entry, sent>> /\ send.pc = "idle" /\ send'.pc = "ask" /\ send'.before = entry
        /\ send'.ask = Limits(send'.opens)
    BY <1>1, BeginEffect
  <2>2. e = entry'["message"] /\ send'.before["message"] = e
    BY <2>1 DEF e
  <2>3. Limits(send'.opens) # <<"thread">> /\ ~ Counting'
    <3>1. send'.opens = TRUE \/ send'.opens = FALSE
      BY CallFields DEF Typed, TypeOK
    <3> QED BY <2>1, <3>1, KeysInOrder DEF Counting
  <2>4. Holds(sent', e, clock')
    BY <2>1, <1>c
  <2> QED BY <2>1, <2>2, <2>3, <2>4, WindowFrom
<1>2. CASE Ask
  <2>1. PICK k \in Keys :
            /\ k = Head(send.ask)
            /\ entry'[k] = Kept(entry[k], clock)
            /\ \A m \in Keys \ {k} : entry'[m] = entry[m]
            /\ Full(k) => send' = Idle
            /\ ~ Full(k) =>
                   /\ send'.keys = send.keys /\ send'.opens = send.opens
                   /\ send'.before = send.before
                   /\ send'.ask = Tail(send.ask)
                   /\ send'.pc = IF Len(send.ask) = 1 THEN "time" ELSE "ask"
    BY <1>2, AskEffect
  <2>2. send.pc = "ask" /\ UNCHANGED <<clock, sent>>
    BY <1>2, AskEffect
  <2>3. \A i \in DOMAIN sent : sent[i].at < clock
    BY <2>2, <1>m
  <2>4. Holds(sent, b, clock) /\ send.keys = Limits(send.opens)
    BY <2>2, <1>c, Asking
  <2>5. CASE send.ask = Limits(send.opens) /\ k = "message"
    <3> DEFINE f == Kept(e, clock)
    <3>1. f = entry'["message"] /\ Holds(sent, e, clock)
      BY <2>1, <2>5, <1>c DEF e
    <3>2. Full("message") <=> f.value >= Limit
      BY DEF Full, LimitOf, e
    <3>3. f.value \in Nat /\ Limit \in Nat
      <4>1. f \in Entry
        BY <1>t, EntryTypes
      <4> HIDE DEF f
      <4> QED BY <4>1, Constants DEF Entry
    <3>4. CASE Full("message")
      <4>1. f = e
        BY <3>2, <3>4, <1>t, FullKept
      <4>2. Holds(sent', entry'["message"], clock')
        BY <3>1, <4>1, <2>2
      <4> QED BY <2>1, <2>5, <3>4, <4>2, IdleWindow
    <3>5. CASE ~ Full("message")
      <4>0. f.value < Limit
        <5> HIDE DEF f
        <5> QED BY <3>2, <3>3, <3>5
      <4>1. Room(sent, f, clock)
        BY <4>0, <3>1, <2>3, <1>t, AskFindsRoom
      <4> HIDE DEF f
      <4>2. /\ send'.keys = send.keys /\ send'.opens = send.opens /\ send'.before = send.before
            /\ send'.ask = Tail(send.ask) /\ send'.pc = IF Len(send.ask) = 1 THEN "time" ELSE "ask"
        BY <2>1, <2>5, <3>5
      <4>3. Holds(sent', send'.before["message"], clock')
        BY <2>2, <2>4, <4>2 DEF b
      <4>4. CASE send.opens
        <5>0. send.opens = TRUE /\ send.ask = Limits(TRUE)
          BY <2>5, <4>4, Parts
        <5>1. send'.ask = <<"thread">> /\ send'.pc = "ask"
          <6>1. Tail(send.ask) = <<"thread">> /\ Len(send.ask) = 2
            BY <5>0, KeysInOrder
          <6> QED BY <6>1, <4>2
        <5>2. Limits(send'.opens) # <<"thread">> /\ ~ Counting'
          <6>1. send'.opens = TRUE \/ send'.opens = FALSE
            BY CallFields DEF Typed, TypeOK
          <6> QED BY <5>1, <6>1, KeysInOrder DEF Counting
        <5> QED BY <2>2, <3>1, <4>1, <4>3, <5>1, <5>2, WindowFrom
      <4>5. CASE ~ send.opens
        <5>1. send'.pc = "time" /\ send'.keys = Limits(send'.opens)
          BY <2>2, <2>4, <2>5, <4>2, <4>5, Asking, Parts
        <5>2. Counting'
          BY <5>1 DEF Counting
        <5>3. Room(sent', f, IF send'.pc = "time" THEN clock' ELSE send'.at)
          BY <2>2, <4>1, <5>1
        <5> QED BY <3>1, <4>3, <5>1, <5>2, <5>3, RoomWindow
      <4> QED BY <4>4, <4>5
    <3> QED BY <3>4, <3>5
  <2>6. CASE send.ask = <<"thread">> /\ k = "thread"
    <3>1. e = entry'["message"] /\ Room(sent, e, clock)
      BY <2>1, <2>2, <2>6, <1>c, <1>t DEF e
    <3>2. CASE Full(k)
      <4>1. Holds(sent', entry'["message"], clock')
        BY <3>1, <2>2, <1>t, RoomHolds
      <4> QED BY <2>1, <3>2, <4>1, IdleWindow
    <3>3. CASE ~ Full(k)
      <4>1. send'.pc = "time" /\ send'.keys = Limits(send'.opens) /\ send'.before = send.before
        BY <2>1, <2>4, <2>6, <3>3, KeysInOrder
      <4>2. Counting'
        BY <4>1 DEF Counting
      <4>3. Room(sent', e, IF send'.pc = "time" THEN clock' ELSE send'.at)
        BY <2>2, <3>1, <4>1
      <4>4. Holds(sent', send'.before["message"], clock')
        BY <2>2, <2>4, <4>1 DEF b
      <4> QED BY <3>1, <4>1, <4>2, <4>3, <4>4, RoomWindow
    <3> QED BY <3>2, <3>3
  <2>7. \/ send.ask = Limits(send.opens) /\ k = "message"
        \/ send.ask = <<"thread">> /\ k = "thread"
    BY <2>1, <2>2, Asking
  <2> QED BY <2>5, <2>6, <2>7
<1>3. CASE Time
  <2>1. /\ send.pc \in {"time", "time again"} /\ UNCHANGED <<clock, entry, sent>> /\ send'.at = clock
        /\ send'.pc = IF send.pc = "time" THEN "insert" ELSE "insert again"
        /\ send'.keys = send.keys /\ send'.opens = send.opens /\ send'.before = send.before
    BY <1>3, TimeEffect
  <2>2. Counting /\ Counting'
    BY <2>1 DEF Counting
  <2>3. e = entry'["message"] /\ Forgotten(sent, sent, 0)
    <3>1. Shifted(0)
      BY <2>1, NothingForgotten
    <3> QED BY <2>1, <3>1 DEF e, Shifted, Forgotten
  <2>4. Holds(sent', send'.before["message"], clock')
    BY <2>1, <1>c DEF b
  <2>5. CASE send.keys = Limits(send.opens)
    <3>1. Room(sent, e, clock)
      <4>1. CASE send.pc = "time"
        BY <2>2, <2>5, <4>1, <1>c
      <4>2. CASE send.pc = "time again"
        <5>1. Room(sent, e, send.at)
          BY <2>2, <2>5, <4>2, <1>c
        <5> QED BY <5>1, <2>3, <1>t, RoomKept
      <4> QED BY <2>1, <4>1, <4>2
    <3>2. send'.pc \notin {"time", "insert", "time again"} => e # Absent /\ clock >= e.expires
      BY <2>1, <2>2, <2>5, <1>c
    <3>3. Room(sent', e, IF send'.pc = "time" THEN clock' ELSE send'.at)
      BY <2>1, <3>1
    <3>4. send'.pc # "time again"
      BY <2>1
    <3> QED BY <2>1, <2>2, <2>3, <2>4, <2>5, <3>2, <3>3, <3>4, RoomWindow
  <2>6. CASE send.keys = <<"thread">>
    <3>1. Taken(sent, e, send.at)
      BY <2>2, <2>6, <1>c
    <3>2. Taken(sent, e, clock)
      BY <3>1, <2>3, <1>t, TakenKept
    <3>3. Taken(sent', e, send'.at)
      BY <3>2, <2>1
    <3> QED BY <2>1, <2>2, <2>3, <2>4, <2>6, <3>3, TakenWindow
  <2> QED BY <2>2, <2>5, <2>6, CountingKeys
<1>4. CASE Insert
  <2>1. Counting /\ send.pc \in {"insert", "insert again"} /\ UNCHANGED <<clock, sent>>
    BY <1>4, InsertEffect
  <2>2. PICK k \in Keys :
          /\ k = Head(send.keys)
          /\ \/ /\ Inserts(entry[k], send.at) /\ GoesOnward
                /\ entry' = [entry EXCEPT ![k] = Fresh(send.at, WindowOf[k])]
             \/ /\ ~ Inserts(entry[k], send.at) /\ send.pc = "insert" /\ Goes("incr")
                /\ UNCHANGED entry
             \/ /\ ~ Inserts(entry[k], send.at) /\ send.pc = "insert again" /\ GoesOnward
                /\ UNCHANGED entry
    BY <1>4, InsertEffect
  <2>3. Holds(sent', send'.before["message"], clock') /\ send'.at = send.at /\ send'.opens = send.opens
    <3>1. send'.before = send.before /\ send'.at = send.at /\ send'.opens = send.opens
      BY <2>2 DEF Goes, GoesOnward
    <3>2. Holds(sent, b, clock)
      BY <2>1, <1>c DEF Counting
    <3> QED BY <2>1, <3>1, <3>2 DEF b
  <2>4. GoesOnward => send'.pc = "allowed" \/ (Counting' /\ send'.keys = <<"thread">>)
    <3>1. \/ Len(send.keys) = 1
          \/ Tail(send.keys) = <<"thread">> /\ Len(send.keys) = 2
      BY <2>1, CountingKeys, Parts
    <3> QED BY <3>1 DEF GoesOnward, Counting
  <2>5. CASE send.keys = Limits(send.opens) /\ k = "message"
    <3>1. Room(sent, e, send.at)
      BY <2>1, <2>5, <1>c
    <3>2. CASE Inserts(entry[k], send.at)
      <4> DEFINE f == Fresh(send.at, Window)
      <4>1. Inserts(e, send.at) /\ GoesOnward /\ entry' = [entry EXCEPT !["message"] = f]
        <5>1. GoesOnward /\ entry' = [entry EXCEPT ![k] = Fresh(send.at, WindowOf[k])]
          BY <2>2, <3>2
        <5>2. WindowOf[k] = Window
          BY <2>5 DEF WindowOf
        <5> QED BY <5>1, <5>2, <2>5, <3>2 DEF e
      <4>2. \A i \in DOMAIN sent : sent[i].at < send.at /\ Whole(sent[i].window)
        BY <2>1, <1>l, <1>m
      <4>3. Taken(sent, f, send.at)
        BY <3>1, <4>1, <4>2, <1>t, InsertTakes
      <4>4. f \in Entry
        BY <1>t, FreshEntry
      <4> HIDE DEF f
      <4>5. f = entry'["message"]
        BY <4>1, <4>4, <1>t, Written
      <4>6. Taken(sent', f, send'.at)
        BY <4>3, <2>1, <2>3
      <4> QED BY <2>3, <2>4, <4>1, <4>5, <4>6, TakenWindow
    <3>3. CASE ~ Inserts(entry[k], send.at) /\ send.pc = "insert"
      <4>1. Goes("incr") /\ UNCHANGED entry
        BY <2>2, <3>3
      <4>2. e = entry'["message"] /\ e # Absent
        BY <4>1, <3>3, <2>5 DEF e, Inserts
      <4>3. send'.pc = "incr" /\ send'.keys = Limits(send'.opens) /\ Counting'
        BY <4>1, <2>5 DEF Goes, Counting
      <4>4. Room(sent', e, IF send'.pc = "time" THEN clock' ELSE send'.at)
        BY <3>1, <4>3, <2>1, <2>3
      <4> QED BY <2>3, <4>2, <4>3, <4>4, RoomWindow
    <3>4. CASE ~ Inserts(entry[k], send.at) /\ send.pc = "insert again"
      <4>1. GoesOnward /\ UNCHANGED entry
        BY <2>2, <3>4
      <4>2. e = entry'["message"] /\ e # Absent /\ send.at >= e.expires
        BY <4>1, <3>4, <2>1, <2>5, <1>c DEF e
      <4>3. Taken(sent, e, send.at)
        BY <3>1, <4>2, <1>t, UncountedTakes
      <4>4. Taken(sent', e, send'.at)
        BY <4>3, <2>1, <2>3
      <4> QED BY <2>3, <2>4, <4>1, <4>2, <4>4, TakenWindow
    <3> QED BY <2>1, <3>2, <3>3, <3>4
  <2>6. CASE send.opens /\ send.keys = <<"thread">> /\ k = "thread"
    <3>1. entry[k] = Absent
      BY <2>1, <2>6 DEF Vacant
    <3>2. Inserts(entry[k], send.at)
      BY <3>1 DEF Inserts
    <3> DEFINE f == Fresh(send.at, ThreadWindow)
    <3>3. GoesOnward /\ entry' = [entry EXCEPT !["thread"] = f]
      <4>1. GoesOnward /\ entry' = [entry EXCEPT ![k] = Fresh(send.at, WindowOf[k])]
        BY <2>2, <3>2
      <4>2. WindowOf[k] = ThreadWindow
        BY <2>6 DEF WindowOf
      <4> QED BY <4>1, <4>2, <2>6
    <3>4. f \in Entry
      BY <1>t, FreshEntry
    <3> HIDE DEF f
    <3>5. e = entry'["message"]
      BY <3>3, <3>4, <1>t, Written DEF e
    <3>6. Taken(sent', e, send'.at)
      BY <2>1, <2>3, <2>6, <1>c
    <3> QED BY <2>3, <2>4, <3>3, <3>5, <3>6, TakenWindow
  <2>7. \/ send.keys = Limits(send.opens) /\ k = "message"
        \/ send.opens /\ send.keys = <<"thread">> /\ k = "thread"
    BY <2>1, <2>2, CountingKeys
  <2> QED BY <2>5, <2>6, <2>7
<1>5. CASE Incr
  <2>1. Counting /\ send.pc = "incr" /\ UNCHANGED <<clock, sent>> /\ send.keys = Limits(send.opens)
    BY <1>5, IncrEffect
  <2>2. Room(sent, e, send.at) /\ e # Absent /\ Holds(sent, b, clock)
    BY <2>1, <1>c
  <2>3. CASE /\ Counts(entry["message"], clock) /\ GoesOnward
             /\ entry' = [entry EXCEPT !["message"] = Incremented(entry["message"])]
    <3> DEFINE f == Incremented(e)
    <3>1. Taken(sent, f, send.at) /\ f \in Entry
      BY <2>2, <1>t, IncrementTakes, EntryTypes
    <3>2. entry' = [entry EXCEPT !["message"] = f]
      BY <2>3 DEF e
    <3> HIDE DEF f
    <3>3. f = entry'["message"]
      BY <3>1, <3>2, <1>t, Written
    <3>4. send'.before = send.before /\ send'.at = send.at
      BY <2>3 DEF GoesOnward
    <3>5. send'.pc = "allowed" \/ (Counting' /\ send'.keys = <<"thread">>)
      <4>1. \/ Len(send.keys) = 1
            \/ Tail(send.keys) = <<"thread">> /\ Len(send.keys) = 2
        BY <2>1, CountingKeys, Parts
      <4> QED BY <2>3, <4>1 DEF GoesOnward, Counting
    <3>6. Taken(sent', f, send'.at) /\ Holds(sent', send'.before["message"], clock')
      BY <3>1, <3>4, <2>1, <2>2 DEF b
    <3> QED BY <3>3, <3>5, <3>6, TakenWindow
  <2>4. CASE ~ Counts(entry["message"], clock) /\ Goes("time again") /\ UNCHANGED entry
    <3>1. /\ send'.pc = "time again" /\ send'.keys = Limits(send'.opens) /\ send'.before = send.before
          /\ send'.at = send.at /\ Counting'
      BY <2>1, <2>4 DEF Goes, Counting
    <3>2. e = entry'["message"]
      BY <2>4 DEF e
    <3>3. clock' >= e.expires
      <4>1. ~ (clock < e.expires) /\ e.expires \in Nat
        BY <2>2, <2>4, <1>t DEF e, Counts, Entry
      <4> QED BY <4>1, <2>1, <1>t
    <3>4. Room(sent', e, IF send'.pc = "time" THEN clock' ELSE send'.at)
      BY <2>1, <2>2, <3>1
    <3>5. Holds(sent', send'.before["message"], clock')
      BY <2>1, <2>2, <3>1 DEF b
    <3> QED BY <2>2, <3>1, <3>2, <3>3, <3>4, <3>5, RoomWindow
  <2> QED BY <1>5, <2>3, <2>4, IncrEffect
<1>6. CASE Commit
  <2>1. /\ send.pc = "allowed" /\ UNCHANGED <<clock, entry>> /\ send' = Idle /\ sent' \in Seq(Message)
    BY <1>6, CommitEffect
  <2>2. Stores(sent, sent', e, send.at)
    BY <1>6, CommitEffect DEF Stores, e
  <2>3. Taken(sent, e, send.at)
    BY <2>1, <1>c
  <2>4. Holds(sent', e, clock)
    BY <2>1, <2>2, <2>3, <1>t, CommitHolds
  <2>5. Holds(sent', entry'["message"], clock')
    BY <2>1, <2>4 DEF e
  <2> QED BY <2>1, <2>5, IdleWindow
<1>7. CASE Rollback
  <2>1. send.pc # "idle" /\ entry' = send.before /\ send' = Idle /\ UNCHANGED <<clock, sent>>
    BY <1>7 DEF Rollback
  <2>2. Holds(sent', entry'["message"], clock')
    BY <2>1, <1>c DEF b
  <2> QED BY <2>1, <2>2, IdleWindow
<1>8. CASE Tick
  <2>1. clock' = clock + 1 /\ UNCHANGED <<entry, send>>
    BY <1>8, TickEffect
  <2>2. PICK d \in 0..1 : Shifted(d)
    BY <1>8, TickEffect
  <2>3. clock <= clock'
    BY <2>1, <1>t
  <2> QED BY <2>1, <2>2, <2>3, WindowTick
<1>9. CASE UNCHANGED vars
  <2>1. Shifted(0) /\ UNCHANGED <<entry, send>> /\ clock <= clock'
    BY <1>9, <1>t, NothingForgotten DEF vars
  <2> QED BY <2>1, WindowTick
<1> QED BY <1>1, <1>2, <1>3, <1>4, <1>5, <1>6, <1>7, <1>8, <1>9 DEF Next

----------------------------------------------------------------------------
(* Old messages, and the distance between messages.                        *)

\* A call comes to have read the clock for an add by Time only, and then it reads it.
LEMMA TimedStep ==
    ASSUME Typed, [Next]_vars, Timed'
    PROVE  \/ Timed /\ send'.at = send.at
           \/ send'.at = clock /\ clock' = clock
<1>1. CASE Begin
  BY <1>1, BeginEffect DEF Timed
<1>2. CASE Ask
  <2>1. send' # Idle
    BY IdleCall DEF Timed
  <2>2. send.pc = "ask" /\ send'.keys = Limits(send'.opens) /\ send'.pc \in {"time", "ask"}
    <3>1. send.pc = "ask"
      BY <1>2, AskEffect
    <3>2. send'.keys = send.keys /\ send'.opens = send.opens /\ send'.pc \in {"time", "ask"}
      BY <1>2, <2>1, AskEffect
    <3> QED BY <3>1, <3>2, Asking
  <2> QED BY <2>2 DEF Timed
<1>3. CASE Time
  BY <1>3, TimeEffect
<1>4. CASE Insert \/ Incr
  BY <1>4, InsertEffect, IncrEffect DEF Goes, GoesOnward, Timed
<1>5. CASE Commit \/ Rollback
  <2>1. send' = Idle
    BY <1>5 DEF Commit, Rollback
  <2> QED BY <2>1, IdleCall DEF Timed
<1>6. CASE Tick
  <2>1. send' = send
    BY <1>6, TickEffect
  <2> QED BY <2>1 DEF Timed
<1>7. CASE UNCHANGED vars
  BY <1>7 DEF vars, Timed
<1> QED BY <1>1, <1>2, <1>3, <1>4, <1>5, <1>6, <1>7 DEF Next

\* Messages are forgotten at their age, step by step.
LEMMA RecentStep ==
    ASSUME Typed, Typed', Later, Spaced, Recent, [Next]_vars
    PROVE  Recent'
<1> SUFFICES ASSUME sent' # <<>>, sent'[1].at + Window <= clock'
             PROVE  /\ \A i \in DOMAIN sent' : i = 1 \/ sent'[i].at = clock'
                    /\ Timed' => send'.at = clock'
  BY DEF Recent
<1>t. /\ clock \in Nat /\ send.at \in Nat /\ send.at <= clock /\ Window \in Nat /\ Window > 0
      /\ Len(sent) \in Nat /\ DOMAIN sent = 1..Len(sent)
      /\ \A i \in 1..Len(sent) : sent[i].at \in Nat
  BY Parts, Constants
<1>u. sent' \in Seq(Message) /\ Len(sent') \in Nat /\ DOMAIN sent' = 1..Len(sent') /\ Len(sent') # 0
  BY DEF Typed, TypeOK
<1>1. CASE UNCHANGED <<clock, sent>>
  <2>1. /\ \A i \in DOMAIN sent : i = 1 \/ sent[i].at = clock
        /\ Timed => send.at = clock
    BY <1>1 DEF Recent
  <2>2. Timed' => send'.at = clock'
    BY <2>1, <1>1, TimedStep
  <2> QED BY <2>1, <2>2, <1>1
<1>2. CASE Commit
  <2>1. /\ send.pc = "allowed" /\ clock' = clock /\ send' = Idle
        /\ Len(sent') = Len(sent) + 1
        /\ \A i \in 1..Len(sent) : sent'[i] = sent[i]
        /\ sent'[Len(sent) + 1].at = send.at
    BY <1>2, CommitEffect
  <2>2. ~ Timed' /\ Timed
    BY <2>1, IdleCall DEF Timed
  <2>3. CASE Len(sent) = 0
    BY <2>1, <2>2, <2>3, <1>u
  <2>4. CASE Len(sent) # 0
    <3>1. sent # <<>> /\ sent'[1] = sent[1]
      BY <2>1, <2>4, <1>t
    <3>2. /\ \A i \in DOMAIN sent : i = 1 \/ sent[i].at = clock
          /\ send.at = clock
      BY <2>1, <2>2, <3>1 DEF Recent
    <3>3. ASSUME NEW i \in DOMAIN sent' PROVE i = 1 \/ sent'[i].at = clock
      <4>1. i \in 1..Len(sent) \/ i = Len(sent) + 1
        BY <2>1, <1>t, <1>u
      <4> QED BY <4>1, <2>1, <3>2, <1>t
    <3> QED BY <2>1, <2>2, <3>3
  <2> QED BY <2>3, <2>4
<1>3. CASE Tick
  <2>1. PICK d \in 0..1 : Shifted(d) /\ (d = 0 /\ sent # <<>> => sent[1].at + Window > clock + 1)
    BY <1>3, TickEffect
  <2>2. clock' = clock + 1 /\ send' = send
    BY <1>3, TickEffect
  <2>3. Len(sent') = Len(sent) - d /\ sent'[1] = sent[1 + d] /\ 1 + d \in 1..Len(sent)
    <3>1. 1 \in 1..Len(sent')
      BY <1>u
    <3> QED BY <3>1, <2>1, Persists
  <2>4. d = 1
    <3>1. SUFFICES ASSUME d = 0 PROVE FALSE
      BY <2>1
    <3>2. sent # <<>> /\ sent'[1] = sent[1]
      BY <2>3, <3>1, <1>t
    <3>3. sent[1].at + Window > clock + 1
      BY <2>1, <3>1, <3>2
    <3> QED BY <2>2, <3>2, <3>3, <2>3, <3>1, <1>t
  <2>5. 1 \in DOMAIN sent /\ 2 \in DOMAIN sent /\ sent'[1] = sent[2] /\ sent # <<>>
    BY <2>3, <2>4, <1>t
  <2>6. sent[1].at < sent[2].at /\ sent[1].at \in Nat /\ sent[2].at \in Nat
    BY <2>5, <1>t DEF Spaced
  <2>7. sent[1].at + Window <= clock
    BY <2>2, <2>5, <2>6, <1>t
  <2>8. /\ \A i \in DOMAIN sent : i = 1 \/ sent[i].at = clock
        /\ Timed => send.at = clock
    BY <2>5, <2>7 DEF Recent
  <2>9. Len(sent) = 2
    <3>1. SUFFICES ASSUME Len(sent) # 2 PROVE FALSE
      OBVIOUS
    <3>2. 3 \in DOMAIN sent
      BY <3>1, <2>5, <1>t
    <3>3. sent[2].at < sent[3].at
      BY <3>2, <2>5 DEF Spaced
    <3>4. sent[2].at = clock /\ sent[3].at = clock
      BY <3>2, <2>5, <2>8
    <3> QED BY <3>3, <3>4, <1>t
  <2>10. ~ Timed
    <3>1. sent[2].at = clock
      BY <2>5, <2>8
    <3>2. Timed => sent[2].at < send.at
      BY <2>5 DEF Later
    <3> QED BY <3>1, <3>2, <1>t
  <2>11. ~ Timed'
    BY <2>2, <2>10 DEF Timed
  <2>12. Len(sent') = 1
    BY <2>3, <2>4, <2>9
  <2> QED BY <2>11, <2>12, <1>u
<1>4. CASE ~ Commit /\ ~ Tick
  BY <1>1, <1>4, NoneAdded
<1> QED BY <1>2, <1>3, <1>4

\* The distance between two messages is kept by forgetting.
LEMMA SpacedKept ==
    ASSUME Typed, Spaced, NEW d \in 0..1, Shifted(d)
    PROVE  Spaced'
<1>1. SUFFICES ASSUME NEW i \in DOMAIN sent', NEW j \in DOMAIN sent', i < j
               PROVE  /\ sent'[i].at < sent'[j].at /\ sent'[i].at < sent'[j].window
                      /\ \/ sent'[i].window = sent'[j].window /\ j - i < Limit
                         \/ sent'[i].window + Window <= sent'[j].window /\ sent'[i].window < sent'[j].at
  BY DEF Spaced
<1>2. /\ i \in Nat /\ j \in Nat /\ i + d \in DOMAIN sent /\ j + d \in DOMAIN sent
      /\ sent'[i] = sent[i + d] /\ sent'[j] = sent[j + d]
  <2>1. DOMAIN sent' = 1..Len(sent') /\ Len(sent') \in Nat
    BY Persists
  <2>2. i \in 1..Len(sent') /\ j \in 1..Len(sent')
    BY <2>1
  <2>3. DOMAIN sent = 1..Len(sent)
    BY Parts
  <2>4. i + d \in 1..Len(sent) /\ sent'[i] = sent[i + d]
    BY <2>2, Persists
  <2>5. j + d \in 1..Len(sent) /\ sent'[j] = sent[j + d]
    BY <2>2, Persists
  <2>6. i \in Nat /\ j \in Nat
    BY <2>1, <2>2
  <2> QED BY <2>3, <2>4, <2>5, <2>6
<1>3. i + d < j + d /\ (j + d) - (i + d) = j - i
  BY <1>1, <1>2
<1>4. /\ sent[i + d].at < sent[j + d].at /\ sent[i + d].at < sent[j + d].window
      /\ \/ sent[i + d].window = sent[j + d].window /\ (j + d) - (i + d) < Limit
         \/ /\ sent[i + d].window + Window <= sent[j + d].window
            /\ sent[i + d].window < sent[j + d].at
  BY <1>2, <1>3 DEF Spaced
<1> QED BY <1>2, <1>3, <1>4

\* Storing a message keeps the distance: the call has taken its place in the window.
LEMMA SpacedStep ==
    ASSUME Typed, Typed', Later, Spaced, MessageWindow, [Next]_vars
    PROVE  Spaced'
<1>1. CASE ~ Commit
  BY <1>1, NoneAdded, SpacedKept
<1>2. CASE Commit
  <2> DEFINE n == Len(sent)
             e == entry["message"]
  <2>1. /\ send.pc = "allowed" /\ Len(sent') = n + 1
        /\ \A i \in 1..n : sent'[i] = sent[i]
        /\ sent'[n + 1].at = send.at /\ sent'[n + 1].window = e.expires
    BY <1>2, CommitEffect
  <2>2. Taken(sent, e, send.at)
    BY <2>1, WindowParts
  <2>3. n \in Nat /\ DOMAIN sent = 1..n /\ DOMAIN sent' = 1..(n + 1)
    <3>1. sent' \in Seq(Message)
      BY DEF Typed, TypeOK
    <3> QED BY <3>1, <2>1, Parts
  <2>4. Timed
    BY <2>1 DEF Timed
  <2>5. ASSUME NEW i \in DOMAIN sent', NEW j \in DOMAIN sent', i < j
        PROVE  /\ sent'[i].at < sent'[j].at /\ sent'[i].at < sent'[j].window
               /\ \/ sent'[i].window = sent'[j].window /\ j - i < Limit
                  \/ sent'[i].window + Window <= sent'[j].window /\ sent'[i].window < sent'[j].at
    <3>1. i \in DOMAIN sent /\ i \in 1..n /\ (j \in 1..n \/ j = n + 1)
      <4> HIDE DEF n
      <4> QED BY <2>3, <2>5
    <3>2. sent'[i] = sent[i]
      BY <3>1, <2>1
    <3>3. CASE j \in 1..n
      <4>1. j \in DOMAIN sent /\ sent'[j] = sent[j]
        BY <3>3, <2>1, <2>3
      <4> QED BY <4>1, <3>1, <3>2, <2>5 DEF Spaced
    <3>4. CASE j = n + 1
      <4>1. sent[i].at < send.at
        BY <3>1, <2>4 DEF Later
      <4>2. /\ sent[i].at < e.expires
            /\ \/ sent[i].window + Window <= e.expires /\ sent[i].window < send.at
               \/ sent[i].window = e.expires /\ n + 1 - i < Limit
        BY <3>1, <2>2 DEF Taken
      <4>3. sent'[j].at = send.at /\ sent'[j].window = e.expires /\ j - i = n + 1 - i
        BY <3>4, <2>1
      <4> QED BY <4>1, <4>2, <4>3, <3>2
    <3> QED BY <3>1, <3>3, <3>4
  <2> QED BY <2>5 DEF Spaced
<1> QED BY <1>1, <1>2

----------------------------------------------------------------------------
(* The distance of new conversations.                                      *)

\* A call whose last add began at the time at comes after all new conversations.
Clear(S, at) == \A i \in DOMAIN S : S[i].opens => S[i].at + ThreadWindow < at + Second

\* The distance kept by the entry lasts while the clock runs and messages are forgotten.
LEMMA ApartKept ==
    ASSUME NEW S \in Seq(Message), NEW T \in Seq(Message), NEW d \in 0..1, Forgotten(S, T, d),
           NEW e, NEW now \in Nat, NEW later \in Nat, now <= later, Apart(S, e, now)
    PROVE  Apart(T, e, later)
<1>1. ASSUME NEW i \in DOMAIN T, T[i].opens
      PROVE  \/ T[i].at + ThreadWindow < later + Second
             \/ e # Absent /\ T[i].at + ThreadWindow < e.expires + Second
  <2>1. i + d \in DOMAIN S /\ T[i] = S[i + d] /\ S[i + d].at \in Nat
    <3>1. Came(S, T, d, i)
      BY Origin
    <3> QED BY <3>1 DEF Came
  <2>2. \/ S[i + d].at + ThreadWindow < now + Second
        \/ e # Absent /\ S[i + d].at + ThreadWindow < e.expires + Second
    BY <2>1, <1>1 DEF Apart
  <2>3. S[i + d].at + ThreadWindow < now + Second => S[i + d].at + ThreadWindow < later + Second
    BY <2>1, Constants
  <2> QED BY <2>1, <2>2, <2>3
<1> QED BY <1>1 DEF Apart

\* So does the distance of a call.
LEMMA ClearKept ==
    ASSUME NEW S \in Seq(Message), NEW T \in Seq(Message), NEW d \in 0..1, Forgotten(S, T, d),
           NEW at \in Nat, Clear(S, at)
    PROVE  Clear(T, at)
<1>1. ASSUME NEW i \in DOMAIN T, T[i].opens PROVE T[i].at + ThreadWindow < at + Second
  <2>1. i + d \in DOMAIN S /\ T[i] = S[i + d]
    <3>1. Came(S, T, d, i)
      BY Origin
    <3> QED BY <3>1 DEF Came
  <2> QED BY <2>1, <1>1 DEF Clear
<1> QED BY <1>1 DEF Clear

\* Reading the entry keeps it.
LEMMA ApartRead ==
    ASSUME NEW S \in Seq(Message), NEW e \in Entry, NEW now \in Nat, Apart(S, e, now)
    PROVE  Apart(S, Kept(e, now), now)
<1>1. CASE e.expires < now
  <2>1. Kept(e, now) = Absent
    BY <1>1 DEF Kept
  <2>2. ASSUME NEW i \in DOMAIN S, S[i].opens PROVE S[i].at + ThreadWindow < now + Second
    <3>1. S[i].at \in Nat
      BY Messages
    <3>2. S[i].at + ThreadWindow < now + Second \/ S[i].at + ThreadWindow < e.expires + Second
      BY <2>2 DEF Apart
    <3>3. e.expires \in Nat
      BY DEF Entry
    <3> QED BY <1>1, <3>1, <3>2, <3>3, Constants
  <2> QED BY <2>1, <2>2 DEF Apart
<1>2. CASE ~ (e.expires < now)
  BY <1>2 DEF Kept
<1> QED BY <1>1, <1>2

\* ThreadWindowKept of the next state, from its parts.
LEMMA ThreadFrom ==
    ASSUME NEW e, e = entry'["thread"], Apart(sent', e, clock'),
           send'.pc # "idle" => Apart(sent', send'.before["thread"], clock'),
           send'.opens /\ (send'.pc = "allowed" \/ (send'.pc = "insert" /\ send'.keys = <<"thread">>)) =>
               Clear(sent', send'.at),
           send'.opens /\ send'.pc = "allowed" =>
               e # Absent /\ send'.at + ThreadWindow < e.expires + Second
    PROVE  ThreadWindowKept'
BY DEF ThreadWindowKept, Clear

\* The window of new conversations, step by step.
LEMMA ThreadStep ==
    ASSUME Typed, Typed', Vacant, ThreadWindowKept, [Next]_vars
    PROVE  ThreadWindowKept'
<1> DEFINE e == entry["thread"]
           b == send.before["thread"]
<1>t. /\ clock \in Nat /\ clock \in 0..MaxClock /\ send.at \in Nat /\ send.at <= clock
      /\ sent \in Seq(Message) /\ e \in Entry
      /\ "message" \in Keys /\ "thread" \in Keys /\ "message" # "thread"
  BY Parts DEF Typed, TypeOK
<1>c. /\ Apart(sent, e, clock)
      /\ send.pc # "idle" => Apart(sent, b, clock)
      /\ send.opens /\ (send.pc = "allowed" \/ (send.pc = "insert" /\ send.keys = <<"thread">>)) =>
             Clear(sent, send.at)
      /\ send.opens /\ send.pc = "allowed" =>
             e # Absent /\ send.at + ThreadWindow < e.expires + Second
  BY DEF ThreadWindowKept, Clear
<1>i. ASSUME send' = Idle, Apart(sent', entry'["thread"], clock') PROVE ThreadWindowKept'
  <2>1. send'.pc = "idle"
    BY <1>i, IdleCall
  <2> QED BY <2>1, <1>i, ThreadFrom
<1> HIDE DEF e, b
<1>1. CASE Begin
  <2>1. UNCHANGED <<clock, entry, sent>> /\ send'.pc = "ask" /\ send'.before = entry
    BY <1>1, BeginEffect
  <2>2. e = entry'["thread"] /\ send'.before["thread"] = e
    BY <2>1 DEF e
  <2> QED BY <2>1, <2>2, <1>c, ThreadFrom
<1>2. CASE Ask
  <2>1. PICK k \in Keys :
            /\ entry'[k] = Kept(entry[k], clock)
            /\ \A m \in Keys \ {k} : entry'[m] = entry[m]
            /\ Full(k) => send' = Idle
            /\ ~ Full(k) => /\ send'.before = send.before
                            /\ send'.pc = IF Len(send.ask) = 1 THEN "time" ELSE "ask"
    BY <1>2, AskEffect
  <2>2. send.pc = "ask" /\ UNCHANGED <<clock, sent>>
    BY <1>2, AskEffect
  <2>3. entry'["thread"] = e \/ entry'["thread"] = Kept(e, clock)
    BY <2>1, <1>t DEF e
  <2>4. Apart(sent, Kept(e, clock), clock)
    BY <1>c, <1>t, ApartRead
  <2>5. Apart(sent', entry'["thread"], clock')
    BY <2>2, <2>3, <2>4, <1>c
  <2>6. CASE Full(k)
    BY <2>1, <2>5, <2>6, <1>i
  <2>7. CASE ~ Full(k)
    <3>1. send'.before["thread"] = b /\ send'.pc \in {"time", "ask"}
      BY <2>1, <2>7 DEF b
    <3>2. Apart(sent', send'.before["thread"], clock')
      BY <3>1, <2>2, <1>c
    <3> QED BY <2>5, <3>1, <3>2, ThreadFrom
  <2> QED BY <2>6, <2>7
<1>3. CASE Time
  <2>1. /\ send.pc \in {"time", "time again"} /\ UNCHANGED <<clock, entry, sent>>
        /\ send'.at = clock /\ send'.pc \in {"insert", "insert again"}
        /\ send'.keys = send.keys /\ send'.opens = send.opens /\ send'.before = send.before
    BY <1>3, TimeEffect
  <2>2. e = entry'["thread"] /\ send'.before["thread"] = b
    BY <2>1 DEF e, b
  <2>3. ASSUME send.opens PROVE Clear(sent', send'.at)
    <3>1. e = Absent
      BY <2>1, <2>3 DEF Vacant, Counting, e
    <3> QED BY <3>1, <2>1, <1>c DEF Apart, Clear
  <2> QED BY <2>1, <2>2, <2>3, <1>c, ThreadFrom
\* A call that leaves the entry of new conversations alone and does not return, or opens none.
<1>u. ASSUME UNCHANGED <<clock, sent>>, entry'["thread"] = e, send'.before = send.before,
             send'.opens = send.opens, send.pc # "idle",
             send.opens => send'.pc \in {"incr", "time", "time again"}
      PROVE  ThreadWindowKept'
  <2>1. send'.before["thread"] = b
    BY <1>u DEF b
  <2> QED BY <2>1, <1>u, <1>c, ThreadFrom
<1>4. CASE Insert
  <2>1. /\ Counting /\ send.pc \in {"insert", "insert again"} /\ UNCHANGED <<clock, sent>>
        /\ send'.opens = send.opens /\ send'.before = send.before /\ send'.at = send.at
    BY <1>4, InsertEffect DEF Goes, GoesOnward
  <2>2. PICK k \in Keys :
            /\ k = Head(send.keys)
            /\ \/ /\ Inserts(entry[k], send.at) /\ GoesOnward
                  /\ entry' = [entry EXCEPT ![k] = Fresh(send.at, WindowOf[k])]
               \/ /\ ~ Inserts(entry[k], send.at) /\ send.pc = "insert" /\ Goes("incr")
                  /\ UNCHANGED entry
               \/ /\ ~ Inserts(entry[k], send.at) /\ send.pc = "insert again" /\ GoesOnward
                  /\ UNCHANGED entry
    BY <1>4, InsertEffect
  <2>3. CASE k = "message"
    <3>1. entry'["thread"] = e
      <4>1. Fresh(send.at, WindowOf["message"]) \in Entry
        <5>1. WindowOf["message"] = Window
          BY DEF WindowOf
        <5> QED BY <5>1, <1>t, FreshEntry
      <4>2. UNCHANGED entry \/ entry' = [entry EXCEPT !["message"] = Fresh(send.at, WindowOf["message"])]
        BY <2>2, <2>3
      <4> QED BY <4>1, <4>2, <1>t, Written DEF e
    <3>2. send.opens => send'.pc \in {"incr", "time"}
      <4>1. SUFFICES ASSUME send.opens PROVE send'.pc = "incr" \/ send'.pc = "time"
        OBVIOUS
      <4>2. Len(send.keys) = 2
        BY <4>1, <2>1, <2>2, <2>3, <1>t, CountingKeys
      <4>3. GoesOnward => send'.pc = "time"
        BY <4>2 DEF GoesOnward
      <4>4. Goes("incr") => send'.pc = "incr"
        BY DEF Goes
      <4> QED BY <4>3, <4>4, <2>2
    <3> QED BY <2>1, <3>1, <3>2, <1>u
  <2>4. CASE k = "thread"
    <3>1. send.opens /\ send.keys = <<"thread">> /\ Len(send.keys) = 1 /\ send.pc = "insert"
      <4>1. send.opens /\ send.keys = <<"thread">> /\ Len(send.keys) = 1
        BY <2>1, <2>2, <2>4, <1>t, CountingKeys
      <4>2. send.pc \in {"time", "insert"}
        BY <4>1, <2>1 DEF Typed, Stages
      <4> QED BY <4>1, <4>2, <2>1
    <3>2. e = Absent
      BY <2>1, <3>1 DEF Vacant, e
    <3> DEFINE f == Fresh(send.at, ThreadWindow)
    <3>3. entry' = [entry EXCEPT !["thread"] = f] /\ GoesOnward
      <4>1. Inserts(entry[k], send.at)
        BY <2>4, <3>2 DEF Inserts, e
      <4>2. WindowOf["thread"] = ThreadWindow
        BY DEF WindowOf
      <4> QED BY <4>1, <4>2, <2>2, <2>4
    <3>4. f \in Entry /\ f # Absent /\ f.expires = Floor(send.at) + ThreadWindow
      BY <1>t, FreshEntry
    <3>5. Floor(send.at) \in Nat /\ send.at < Floor(send.at) + Second
      BY <1>t, FloorBounds
    <3> HIDE DEF f
    <3>6. send.at + ThreadWindow < f.expires + Second
      BY <3>4, <3>5, <1>t, Constants
    <3>7. entry'["thread"] = f
      BY <3>3, <3>4, <1>t, Written
    <3>8. Clear(sent, send.at)
      BY <3>1, <1>c
    <3>9. Apart(sent, f, clock)
      <4>1. ASSUME NEW i \in DOMAIN sent, sent[i].opens PROVE sent[i].at + ThreadWindow < clock + Second
        <5>1. sent[i].at + ThreadWindow < send.at + Second
          BY <3>8, <4>1 DEF Clear
        <5>2. sent[i].at \in Nat
          BY Parts
        <5> QED BY <5>1, <5>2, <1>t, Constants
      <4> QED BY <4>1 DEF Apart
    <3>10. send'.pc = "allowed"
      BY <3>1, <3>3 DEF GoesOnward
    <3>11. send'.before["thread"] = b /\ Apart(sent, b, clock)
      BY <2>1, <1>c DEF b
    <3>12. /\ Apart(sent', f, clock') /\ Apart(sent', send'.before["thread"], clock')
           /\ Clear(sent', send'.at) /\ send'.at + ThreadWindow < f.expires + Second
      BY <2>1, <3>6, <3>8, <3>9, <3>11
    <3> QED BY <3>4, <3>7, <3>10, <3>12, ThreadFrom
  <2> QED BY <2>3, <2>4 DEF Keys
<1>5. CASE Incr
  <2>1. /\ send.pc = "incr" /\ Counting /\ UNCHANGED <<clock, sent>>
        /\ Head(send.keys) = "message"
        /\ send'.opens = send.opens /\ send'.before = send.before
    BY <1>5, IncrEffect DEF Goes, GoesOnward
  <2>2. entry'["thread"] = e
    <3>1. entry' = entry \/ entry' = [entry EXCEPT !["message"] = Incremented(entry["message"])]
      BY <1>5, IncrEffect
    <3>2. Incremented(entry["message"]) \in Entry
      BY Parts, EntryTypes
    <3> QED BY <3>1, <3>2, <1>t, Written DEF e
  <2>3. send.opens => send'.pc \in {"time", "time again"}
    <3>1. SUFFICES ASSUME send.opens PROVE send'.pc = "time" \/ send'.pc = "time again"
      OBVIOUS
    <3>2. Len(send.keys) = 2
      BY <3>1, <2>1, CountingKeys
    <3>3. GoesOnward => send'.pc = "time"
      BY <3>2 DEF GoesOnward
    <3>4. Goes("time again") => send'.pc = "time again"
      BY DEF Goes
    <3> QED BY <3>3, <3>4, <1>5, IncrEffect
  <2> QED BY <2>1, <2>2, <2>3, <1>u
<1>6. CASE Commit
  <2> DEFINE n == Len(sent)
  <2>1. /\ send.pc = "allowed" /\ UNCHANGED <<clock, entry>> /\ send' = Idle
        /\ sent' \in Seq(Message) /\ Len(sent') = n + 1
        /\ \A i \in 1..n : sent'[i] = sent[i]
        /\ sent'[n + 1].at = send.at /\ sent'[n + 1].opens = send.opens
    BY <1>6, CommitEffect
  <2>2. n \in Nat /\ DOMAIN sent = 1..n /\ DOMAIN sent' = 1..(n + 1)
    BY <2>1, Parts
  <2>3. ASSUME NEW i \in DOMAIN sent', sent'[i].opens
        PROVE  \/ sent'[i].at + ThreadWindow < clock + Second
               \/ e # Absent /\ sent'[i].at + ThreadWindow < e.expires + Second
    <3>1. i \in 1..n \/ i = n + 1
      <4> HIDE DEF n
      <4> QED BY <2>2
    <3>2. CASE i \in 1..n
      BY <3>2, <2>1, <2>2, <2>3, <1>c DEF Apart
    <3>3. CASE i = n + 1
      BY <3>3, <2>1, <2>3, <1>c
    <3> QED BY <3>1, <3>2, <3>3
  <2>4. Apart(sent', entry'["thread"], clock')
    BY <2>1, <2>3 DEF Apart, e
  <2> QED BY <2>1, <2>4, <1>i
<1>7. CASE Rollback
  <2>1. send.pc # "idle" /\ entry' = send.before /\ send' = Idle /\ UNCHANGED <<clock, sent>>
    BY <1>7 DEF Rollback
  <2>2. Apart(sent', entry'["thread"], clock')
    BY <2>1, <1>c DEF b
  <2> QED BY <2>1, <2>2, <1>i
<1>8. CASE Tick
  <2>1. clock' = clock + 1 /\ UNCHANGED <<entry, send>> /\ \E d \in 0..1 : Shifted(d)
    BY <1>8, TickEffect
  <2>2. PICK d \in 0..1 : Shifted(d)
    BY <2>1
  <2>3. Forgotten(sent, sent', d) /\ sent' \in Seq(Message)
    BY <2>2 DEF Shifted, Forgotten
  <2>4. clock' \in Nat /\ clock <= clock'
    BY <2>1, <1>t
  <2>5. ASSUME NEW f, Apart(sent, f, clock) PROVE Apart(sent', f, clock')
    BY <2>3, <2>4, <2>5, <1>t, ApartKept
  <2>6. Clear(sent, send.at) => Clear(sent', send.at)
    BY <2>3, <1>t, ClearKept
  <2>7. e = entry'["thread"] /\ send' = send
    BY <2>1 DEF e
  <2>8. Apart(sent', e, clock')
    BY <2>5, <1>c
  <2>9. send.pc # "idle" => Apart(sent', send.before["thread"], clock')
    BY <2>5, <1>c DEF b
  <2> QED BY <2>6, <2>7, <2>8, <2>9, <1>c, ThreadFrom
<1>9. CASE UNCHANGED vars
  BY <1>9 DEF vars, ThreadWindowKept
<1> QED BY <1>1, <1>2, <1>3, <1>4, <1>5, <1>6, <1>7, <1>8, <1>9 DEF Next

\* Storing a new conversation keeps the distance: the call comes after the others.
LEMMA DistanceStep ==
    ASSUME Typed, Typed', ThreadWindowKept, ConversationsKeepTheirDistance, [Next]_vars
    PROVE  ConversationsKeepTheirDistance'
<1>1. CASE ~ Commit
  <2>1. PICK d \in 0..1 : Shifted(d)
    BY <1>1, NoneAdded
  <2>2. SUFFICES ASSUME NEW i \in DOMAIN sent', NEW j \in DOMAIN sent', i < j,
                        sent'[i].opens, sent'[j].opens
                 PROVE  sent'[j].at > sent'[i].at + ThreadWindow - Second
    BY DEF ConversationsKeepTheirDistance
  <2>3. Forgotten(sent, sent', d) /\ sent \in Seq(Message) /\ sent' \in Seq(Message)
    BY <2>1, Parts DEF Shifted, Forgotten
  <2>4. Came(sent, sent', d, i) /\ Came(sent, sent', d, j)
    BY <2>3, Origin
  <2>5. /\ i + d \in DOMAIN sent /\ sent'[i] = sent[i + d] /\ i \in Nat
        /\ j + d \in DOMAIN sent /\ sent'[j] = sent[j + d] /\ j \in Nat
    BY <2>4 DEF Came
  <2>6. i + d < j + d
    BY <2>2, <2>5
  <2>7. sent[i + d].opens /\ sent[j + d].opens
    BY <2>2, <2>5
  <2>8. sent[j + d].at > sent[i + d].at + ThreadWindow - Second
    BY <2>5, <2>6, <2>7 DEF ConversationsKeepTheirDistance
  <2> QED BY <2>5, <2>8
<1>2. CASE Commit
  <2> DEFINE n == Len(sent)
  <2>1. /\ send.pc = "allowed" /\ Len(sent') = n + 1 /\ sent' \in Seq(Message)
        /\ \A i \in 1..n : sent'[i] = sent[i]
        /\ sent'[n + 1].at = send.at /\ sent'[n + 1].opens = send.opens
    BY <1>2, CommitEffect
  <2>2. n \in Nat /\ DOMAIN sent = 1..n /\ DOMAIN sent' = 1..(n + 1)
    BY <2>1, Parts
  <2>3. send.at \in Nat /\ \A i \in 1..n : sent[i].at \in Nat
    BY Parts
  <2>4. ASSUME NEW i \in DOMAIN sent', NEW j \in DOMAIN sent', i < j, sent'[i].opens, sent'[j].opens
        PROVE  sent'[j].at > sent'[i].at + ThreadWindow - Second
    <3>1. i \in 1..n /\ (j \in 1..n \/ j = n + 1)
      <4> HIDE DEF n
      <4> QED BY <2>2, <2>4
    <3>2. sent'[i] = sent[i] /\ sent[i].opens
      BY <3>1, <2>1, <2>4
    <3>3. CASE j \in 1..n
      <4>1. sent'[j] = sent[j] /\ sent[j].opens
        BY <3>3, <2>1, <2>4
      <4> QED BY <4>1, <3>1, <3>2, <3>3, <2>2, <2>4 DEF ConversationsKeepTheirDistance
    <3>4. CASE j = n + 1
      <4>1. sent'[j].at = send.at /\ send.opens
        BY <3>4, <2>1, <2>4
      <4>2. sent[i].at + ThreadWindow < send.at + Second
        BY <4>1, <3>1, <3>2, <2>1, <2>2 DEF ThreadWindowKept
      <4> QED BY <4>1, <4>2, <3>1, <3>2, <2>3, Constants
    <3> QED BY <3>1, <3>3, <3>4
  <2> QED BY <2>4 DEF ConversationsKeepTheirDistance
<1> QED BY <1>1, <1>2

----------------------------------------------------------------------------
(* The invariant.                                                          *)

\* Nothing is counted and nothing sent at the start.
LEMMA InductiveInit == Init => Inductive
<1> SUFFICES ASSUME Init PROVE Inductive
  OBVIOUS
<1>1. clock = 0 /\ entry = NoEntries /\ send = Idle /\ sent = <<>>
  BY DEF Init
<1>2. Absent \in Entry /\ Absent.value = 0 /\ Absent.expires = 0
  BY DEF Absent, Entry
<1>3. entry \in [Keys -> Entry] /\ entry["message"] = Absent /\ entry["thread"] = Absent
  BY <1>1, <1>2 DEF NoEntries, Keys
<1>4. /\ send \in Call /\ send.pc = "idle" /\ send.ask = <<>> /\ send.keys = <<>>
      /\ send.opens = FALSE /\ send.at = 0 /\ send.before = NoEntries
  <2>1. Idle \in Call
    BY IdleCall
  <2> QED BY <2>1, <1>1 DEF Idle
<1>5. sent \in Seq(Message) /\ DOMAIN sent = {} /\ sent = <<>>
  BY <1>1
<1>6. clock \in 0..MaxClock
  BY <1>1, Constants
<1>7. ~ Counting /\ ~ Timed
  BY <1>4 DEF Counting, Timed
<1>8. TypeOK /\ Stages
  BY <1>1, <1>3, <1>4, <1>5, <1>6, <1>7 DEF TypeOK, Stages
<1>9. send.before["thread"] = Absent
  BY <1>1, <1>3, <1>4
<1>10. Vacant
  BY <1>3, <1>7, <1>9 DEF Vacant
<1>11. Later /\ Recent /\ Spaced /\ ConversationsKeepTheirDistance
  BY <1>5 DEF Later, Recent, Spaced, ConversationsKeepTheirDistance
<1>12. Holds(sent, entry["message"], clock)
  BY <1>3, <1>5 DEF Holds
<1>13. send.ask # <<"thread">> /\ MessageWindow
  BY <1>4, <1>7, <1>12 DEF MessageWindow
<1>14. ThreadWindowKept
  BY <1>4, <1>5, <1>7 DEF ThreadWindowKept, Apart
<1> QED BY <1>8, <1>10, <1>11, <1>13, <1>14 DEF Inductive

\* Every step keeps the invariant.
LEMMA InductiveStep == Inductive /\ [Next]_vars => Inductive'
<1> SUFFICES ASSUME Inductive, [Next]_vars PROVE Inductive'
  OBVIOUS
<1>1. /\ Typed /\ Vacant /\ Later /\ Recent /\ Spaced
      /\ MessageWindow /\ ThreadWindowKept /\ ConversationsKeepTheirDistance
  BY DEF Inductive, Typed
<1>2. Typed'
  BY <1>1, TypeStep
<1>3. Vacant' /\ Later' /\ Recent' /\ Spaced'
  BY <1>1, <1>2, VacantStep, LaterStep, RecentStep, SpacedStep
<1>4. MessageWindow' /\ ThreadWindowKept' /\ ConversationsKeepTheirDistance'
  BY <1>1, <1>2, WindowStep, ThreadStep, DistanceStep
<1> QED BY <1>2, <1>3, <1>4 DEF Inductive, Typed

\* The invariant holds throughout.
LEMMA AlwaysInductive == Spec => []Inductive
<1> QED BY InductiveInit, InductiveStep, PTL DEF Spec

\* Two windows and one message more are all that the times of the messages of a minute
\* leave room for.
LEMMA MinuteFromSpacing ==
    ASSUME Typed, Later, Recent, Spaced
    PROVE  AMinuteHoldsTwoWindowsAndOne
<1> DEFINE n == Len(sent)
<1>1. SUFFICES ASSUME ~ (n <= 2 * Limit + 1) PROVE FALSE
  BY DEF AMinuteHoldsTwoWindowsAndOne
<1>2. n \in Nat /\ DOMAIN sent = 1..n /\ Limit \in Nat /\ Limit > 0 /\ Window \in Nat /\ clock \in Nat
  BY Parts, Constants
<1>3. \A i \in DOMAIN sent : sent[i].at \in Nat /\ sent[i].window \in Nat
  BY Parts
<1>4. /\ 1 \in DOMAIN sent /\ 2 \in DOMAIN sent /\ 3 \in DOMAIN sent
      /\ Limit + 2 \in DOMAIN sent /\ 2 * Limit + 2 \in DOMAIN sent
  <2> HIDE DEF n
  <2> QED BY <1>1, <1>2
\* The first message is younger than a window, or the second and third came at once.
<1>5. sent[1].at + Window > clock
  <2>1. SUFFICES ASSUME sent[1].at + Window <= clock PROVE FALSE
    BY <1>2, <1>3, <1>4
  <2>2. sent # <<>>
    BY <1>4
  <2>3. \A i \in DOMAIN sent : i = 1 \/ sent[i].at = clock
    BY <2>1, <2>2 DEF Recent
  <2>4. sent[2].at = clock /\ sent[3].at = clock
    BY <2>3, <1>4
  <2>5. sent[2].at < sent[3].at
    BY <1>4 DEF Spaced
  <2> QED BY <2>4, <2>5, <1>2
<1>6. sent[1].at < sent[2].window
  BY <1>4 DEF Spaced
\* The second and the message Limit after it are of different windows ...
<1>7. sent[2].window + Window <= sent[Limit + 2].window
  <2>1. 2 < Limit + 2 /\ ~ ((Limit + 2) - 2 < Limit)
    BY <1>2
  <2> QED BY <2>1, <1>4 DEF Spaced
\* ... and that one and the message Limit after it.
<1>8. sent[Limit + 2].window < sent[2 * Limit + 2].at
  <2>1. Limit + 2 < 2 * Limit + 2 /\ ~ ((2 * Limit + 2) - (Limit + 2) < Limit)
    BY <1>2
  <2> QED BY <2>1, <1>4 DEF Spaced
<1>9. sent[2 * Limit + 2].at <= clock
  BY <1>4 DEF Later
<1>10. /\ sent[1].at \in Nat /\ sent[2].window \in Nat /\ sent[Limit + 2].window \in Nat
       /\ sent[2 * Limit + 2].at \in Nat
  BY <1>3, <1>4
<1>11. clock < sent[2].window + Window
  BY <1>2, <1>5, <1>6, <1>10
<1>12. clock < sent[Limit + 2].window
  BY <1>2, <1>7, <1>10, <1>11
<1>13. clock < sent[2 * Limit + 2].at
  BY <1>2, <1>8, <1>10, <1>12
<1> QED BY <1>2, <1>9, <1>10, <1>13

----------------------------------------------------------------------------
(* Theorems.                                                               *)

\* The clock, the entries, the call being served and the messages keep their types, and
\* a call that counts has read all its windows.
THEOREM TypeCorrect == Spec => []TypeOK
<1>1. Inductive => TypeOK
  BY DEF Inductive
<1> QED BY <1>1, AlwaysInductive, PTL

\* Whatever the windows, the limit and the length of a second, and however long a call
\* takes between its statements, a minute holds no more than two windows of messages
\* and one.
THEOREM MinuteBounded == Spec => []AMinuteHoldsTwoWindowsAndOne
<1>1. Inductive => AMinuteHoldsTwoWindowsAndOne
  BY MinuteFromSpacing DEF Inductive, Typed
<1> QED BY <1>1, AlwaysInductive, PTL

\* New conversations of a sender are a window apart, less the second cut off the expiry:
\* their entry is never counted up, only replaced once it is over.
THEOREM ConversationsApart == Spec => []ConversationsKeepTheirDistance
<1>1. Inductive => ConversationsKeepTheirDistance
  BY DEF Inductive
<1> QED BY <1>1, AlwaysInductive, PTL
=============================================================================
