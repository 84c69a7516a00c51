------------------------- MODULE RequestLimitProofs -------------------------
(***************************************************************************)
(* Proofs about RequestLimit, for any workers, windows and limits: a       *)
(* counter outlives its window, and the prompt requests of a window get    *)
(* exactly the limit.                                                      *)
(***************************************************************************)
EXTENDS RequestLimit, TLAPS

USE SecondAssumption, RequestLimitAssumption

----------------------------------------------------------------------------
(* Arithmetic of whole seconds and windows.                                *)

\* Division with remainder.
LEMMA Division ==
    ASSUME NEW t \in Nat, NEW d \in Nat \ {0}
    PROVE  /\ t \div d \in Nat /\ t % d \in 0..(d - 1)
           /\ t = d * (t \div d) + (t % d)
OBVIOUS

\* Products keep the order of their factors.
LEMMA TimesMonotone ==
    ASSUME NEW d \in Nat, NEW a \in Nat, NEW b \in Nat, a <= b
    PROVE  d * a <= d * b
OBVIOUS

\* Cutting a time to its second never goes below a whole second before it.
LEMMA FloorKeepsSeconds ==
    ASSUME NEW t \in Nat, NEW k \in Nat, t >= Second * k
    PROVE  Floor(t) >= Second * k
<1> DEFINE q == t \div Second
<1>1. q \in Nat /\ t % Second \in 0..(Second - 1) /\ t = Second * q + (t % Second)
  BY Division
<1>2. Floor(t) = Second * q
  BY <1>1 DEF Floor
<1>3. k <= q
  <2>1. SUFFICES ASSUME q + 1 <= k PROVE FALSE
    BY <1>1
  <2>2. Second * (q + 1) <= Second * k
    BY <2>1, <1>1, TimesMonotone
  <2>3. Second * (q + 1) = Second * q + Second
    BY <1>1
  <2> QED BY <2>2, <2>3, <1>1
<1> QED BY <1>1, <1>2, <1>3, TimesMonotone

\* What Floor returns.
LEMMA FloorBounds ==
    ASSUME NEW t \in Nat
    PROVE  Floor(t) \in Nat /\ Floor(t) <= t /\ Floor(t) > t - Second
<1>1. t % Second \in 0..(Second - 1) /\ t \div Second \in Nat /\ t = Second * (t \div Second) + (t % Second)
  BY Division
<1>2. Second * (t \div Second) \in Nat
  BY <1>1
<1> QED BY <1>1, <1>2 DEF Floor

\* The number of a window is in Windows while the clock runs.
LEMMA WindowOfInWindows ==
    ASSUME NEW t \in 0..MaxClock
    PROVE  WindowOf(t) \in Windows
<1> DEFINE q == t \div Window
           m == MaxClock \div Window
<1>0. t \in Nat /\ Window \in Nat \ {0}
  OBVIOUS
<1>1. q \in Nat /\ t % Window \in 0..(Window - 1) /\ t = Window * q + (t % Window)
  BY <1>0, Division
<1>2. m \in Nat /\ MaxClock % Window \in 0..(Window - 1) /\ MaxClock = Window * m + (MaxClock % Window)
  BY Division
<1>3. q <= m
  <2>1. SUFFICES ASSUME m + 1 <= q PROVE FALSE
    BY <1>1, <1>2
  <2>2. Window * (m + 1) <= Window * q
    BY <2>1, <1>1, <1>2, TimesMonotone
  <2>3. Window * (m + 1) = Window * m + Window
    BY <1>2
  <2>4. t <= MaxClock /\ t \in Nat
    OBVIOUS
  <2> HIDE DEF q, m
  <2> QED BY <2>2, <2>3, <2>4, <1>1, <1>2
<1> QED BY <1>1, <1>2, <1>3 DEF WindowOf, Windows

\* The wait of a request reaches the end of its window.
LEMMA WaitReachesTheEnd ==
    ASSUME NEW t \in Nat
    PROVE  Wait(t) \in Nat /\ t + Wait(t) >= EndOf(WindowOf(t))
<1> DEFINE r == t % Window
           q == t \div Window
           z == Window - r + Second - 1
<1>1. r \in 0..(Window - 1) /\ q \in Nat /\ t = Window * q + r
  BY Division
<1>2. z \in Nat /\ Wait(t) = Floor(z)
  BY <1>1 DEF Wait
<1>3. Floor(z) \in Nat /\ Floor(z) > z - Second
  BY <1>2, FloorBounds
<1>4. EndOf(WindowOf(t)) = Window * q + Window
  BY <1>1 DEF EndOf, WindowOf
<1> HIDE DEF r, q
<1> QED BY <1>1, <1>2, <1>3, <1>4

\* An expiry that lies a second past the end of a window stays there when it is cut.
LEMMA CutExpiry ==
    ASSUME NEW n \in Nat, NEW t \in Nat, t >= EndOf(n) + Second
    PROVE  Floor(t) >= EndOf(n) + Second
<1> DEFINE k == Window \div Second
           j == (n + 1) * k + 1
<1>1. k \in Nat /\ Window = Second * k
  <2>1. Window % Second = 0
    OBVIOUS
  <2>2. k \in Nat /\ Window = Second * k + (Window % Second)
    BY Division
  <2>3. Second * k \in Nat
    BY <2>2
  <2> HIDE DEF k
  <2> QED BY <2>1, <2>2, <2>3
<1>2. j \in Nat
  BY <1>1
<1>3. EndOf(n) + Second = Second * j
  <2>1. (n + 1) * (Second * k) = Second * ((n + 1) * k)
    BY <1>1
  <2>2. Second * j = Second * ((n + 1) * k) + Second
    BY <1>1
  <2> QED BY <1>1, <2>1, <2>2 DEF EndOf
<1> HIDE DEF j
<1> QED BY <1>2, <1>3, FloorKeepsSeconds
\* A window ends at a time.
LEMMA EndIsNat ==
    ASSUME NEW n \in Nat
    PROVE  EndOf(n) \in Nat
BY DEF EndOf

----------------------------------------------------------------------------
(* Type correctness.                                                       *)

\* Every step keeps the types.
LEMMA TypeStep == TypeOK /\ [Next]_vars => TypeOK'
<1> SUFFICES ASSUME TypeOK, [Next]_vars PROVE TypeOK'
  OBVIOUS
<1>t. /\ clock \in 0..MaxClock /\ clock \in Nat
      /\ entry \in [Windows -> Entry]
      /\ req \in [Workers -> Served]
      /\ begun \in [Windows -> Nat]
      /\ answered \in [Windows -> [through : Nat, refused : Nat]]
  BY DEF TypeOK
<1>i. Idle \in Served
  BY <1>t DEF Idle, Served, Windows
<1>r. ASSUME NEW w \in Workers
      PROVE  /\ req[w] \in Served /\ req[w].window \in Windows /\ req[w].wait \in Nat
             /\ req[w].at \in 0..MaxClock /\ req[w].at \in Nat /\ req[w].tries \in {0, 1}
  BY <1>t DEF Served
<1>a. ASSUME NEW w \in Workers, NEW kind \in {"through", "refused"}, Answer(w, kind)
      PROVE  /\ req' \in [Workers -> Served]
             /\ answered' \in [Windows -> [through : Nat, refused : Nat]]
  <2>1. req' \in [Workers -> Served]
    BY <1>a, <1>i, <1>t DEF Answer, Become
  <2>2. answered[req[w].window] \in [through : Nat, refused : Nat]
    BY <1>t, <1>r
  <2> DEFINE n == req[w].window
             a == [answered[n] EXCEPT ![kind] = answered[n][kind] + 1]
  <2>3. a \in [through : Nat, refused : Nat]
    BY <2>2, <1>a
  <2>4. answered' = answered \/ answered' = [answered EXCEPT ![n] = a]
    BY <1>a DEF Answer
  <2>5. [answered EXCEPT ![n] = a] \in [Windows -> [through : Nat, refused : Nat]]
    <3> HIDE DEF a
    <3> QED BY <2>3, <1>t, <1>r
  <2> HIDE DEF a, n
  <2> QED BY <2>1, <2>4, <2>5, <1>t
<1>1. ASSUME NEW w \in Workers, Stamp(w) PROVE TypeOK'
  <2>1. WindowOf(clock) \in Windows /\ Wait(clock) \in Nat
    BY <1>t, WindowOfInWindows, WaitReachesTheEnd
  <2>2. [Idle EXCEPT !.pc = "time", !.window = WindowOf(clock), !.wait = Wait(clock)] \in Served
    BY <2>1, <1>i DEF Idle, Served
  <2> QED BY <1>1, <1>t, <2>1, <2>2 DEF Stamp, Become, TypeOK
<1>2. ASSUME NEW w \in Workers, Time(w) PROVE TypeOK'
  <2>1. [req[w] EXCEPT !.pc = "insert", !.at = clock] \in Served
    BY <1>r, <1>t DEF Served
  <2> QED BY <1>2, <1>t, <2>1 DEF Time, Become, TypeOK
<1>3. ASSUME NEW w \in Workers, Insert(w) PROVE TypeOK'
  <2> DEFINE n == req[w].window
             e == Fresh(req[w].at, Timeout(req[w]))
  <2>1. [req[w] EXCEPT !.pc = "incr"] \in Served
    BY <1>r DEF Served
  <2>2. e \in Entry
    <3>1. req[w].at + Timeout(req[w]) \in Nat
      BY <1>r DEF Timeout
    <3>2. Floor(req[w].at + Timeout(req[w])) \in Nat
      BY <3>1, FloorBounds
    <3> QED BY <3>2 DEF Fresh, Entry
  <2>3. UNCHANGED <<clock, begun>>
    BY <1>3 DEF Insert
  <2>4. CASE Inserts(entry[n], req[w].at)
    <3>1. entry' = [entry EXCEPT ![n] = e] /\ Answer(w, "through")
      BY <1>3, <2>4 DEF Insert
    <3>2. entry' \in [Windows -> Entry]
      BY <3>1, <2>2, <1>t
    <3> QED BY <3>1, <3>2, <2>3, <1>a, <1>t DEF TypeOK
  <2>5. CASE ~ Inserts(entry[n], req[w].at)
    <3>1. Become(w, [req[w] EXCEPT !.pc = "incr"]) /\ UNCHANGED <<entry, answered>>
      BY <1>3, <2>5 DEF Insert
    <3> QED BY <3>1, <2>1, <2>3, <1>t DEF TypeOK, Become
  <2> QED BY <2>4, <2>5
<1>4. ASSUME NEW w \in Workers, Incr(w) PROVE TypeOK'
  <2> DEFINE n == req[w].window
  <2>1. entry[n] \in Entry /\ Incremented(entry[n]) \in Entry
    BY <1>t, <1>r DEF Entry, Incremented
  <2>2. UNCHANGED <<clock, begun>>
    BY <1>4 DEF Incr
  <2>3. CASE Counts(entry[n], clock)
    <3>1. /\ entry' = [entry EXCEPT ![n] = Incremented(entry[n])]
          /\ Answer(w, Verdict(entry[n].value + 1))
      BY <1>4, <2>3 DEF Incr
    <3>2. Verdict(entry[n].value + 1) \in {"through", "refused"}
      BY DEF Verdict
    <3>3. entry' \in [Windows -> Entry]
      BY <3>1, <2>1, <1>t
    <3> QED BY <3>1, <3>2, <3>3, <2>2, <1>a, <1>t DEF TypeOK
  <2>4. CASE ~ Counts(entry[n], clock)
    <3>1. Expired(w) /\ UNCHANGED entry
      BY <1>4, <2>4 DEF Incr
    <3>2. CASE req[w].tries = 0
      <4>1. [req[w] EXCEPT !.pc = "time", !.tries = 1] \in Served
        BY <1>r DEF Served
      <4> QED BY <3>1, <3>2, <4>1, <2>2, <1>t DEF Expired, Become, TypeOK
    <3>3. CASE req[w].tries # 0
      <4>1. Answer(w, "refused")
        BY <3>1, <3>3 DEF Expired
      <4> QED BY <3>1, <4>1, <2>2, <1>a, <1>t DEF TypeOK
    <3> QED BY <3>2, <3>3
  <2> QED BY <2>3, <2>4
<1>5. CASE Tick
  BY <1>5, <1>t DEF Tick, TypeOK
<1>6. CASE UNCHANGED vars
  BY <1>6, <1>t DEF vars, TypeOK
<1> QED BY <1>1, <1>2, <1>3, <1>4, <1>5, <1>6 DEF Next

\* The variables keep their types and the loop of request_limit_wait ends after its
\* second turn, for any number of workers and any windows.
THEOREM TypeCorrect == Spec => []TypeOK
<1>1. Init => TypeOK
  <2>1. 0 \in Windows /\ 0 \in 0..MaxClock
    BY Division DEF Windows
  <2> QED BY <2>1 DEF Init, TypeOK, Served, Idle, Entry, Absent
<1> QED BY <1>1, TypeStep, PTL DEF Spec
----------------------------------------------------------------------------
(* The inductive invariant.                                                *)

\* A request under way will wait past the end of its window, also when it reads the
\* clock for its expiry later; one that increments has seen an entry.
OnTheWay ==
    \A w \in Workers :
        LET r == req[w]
        IN  /\ r.pc # "idle" => clock + r.wait >= EndOf(r.window)
            /\ r.pc = "insert" => r.at <= clock /\ r.at + r.wait >= EndOf(r.window)
            /\ r.pc = "incr" => entry[r.window] # Absent

\* While its requests are prompt, a counter holds the number of those answered.
Tally ==
    \A n \in Windows :
        /\ entry[n] = Absent => answered[n].through = 0 /\ answered[n].refused = 0
        /\ Prompt(n) => entry[n].value = answered[n].through + answered[n].refused

Ready == TypeOK /\ OnTheWay /\ CountersOutliveTheirWindow

Safe == Ready /\ Tally /\ PromptRequestsGetTheLimit

\* The types of a request and of its counter.
LEMMA RequestTypes ==
    ASSUME TypeOK, NEW w \in Workers
    PROVE  /\ req[w].window \in Windows /\ req[w].window \in Nat /\ req[w].wait \in Nat
           /\ req[w].at \in Nat /\ clock \in Nat /\ entry[req[w].window] \in Entry
           /\ req[w] \in Served
<1>1. req[w] \in Served
  BY DEF TypeOK
<1>2. req[w].window \in Windows /\ req[w].wait \in Nat /\ req[w].at \in 0..MaxClock
  BY <1>1 DEF Served
<1>3. MaxClock \div Window \in Nat
  BY Division
<1>4. req[w].window \in Nat /\ req[w].at \in Nat
  BY <1>2, <1>3 DEF Windows
<1>5. clock \in Nat /\ entry[req[w].window] \in Entry
  BY <1>2 DEF TypeOK
<1> QED BY <1>1, <1>2, <1>4, <1>5

\* What a worker's own step does to the entries and to the requests of the others.
LEMMA OthersWait ==
    ASSUME TypeOK, NEW w \in Workers, NEW r, Become(w, r)
    PROVE  /\ req'[w] = r
           /\ \A v \in Workers \ {w} : req'[v] = req[v]
BY DEF TypeOK, Become

\* Entries present stay present when a step writes one.
LEMMA WrittenEntry ==
    ASSUME TypeOK, NEW n \in Windows, NEW e, e # Absent, entry' = [entry EXCEPT ![n] = e]
    PROVE  /\ entry'[n] = e
           /\ \A m \in Windows \ {n} : entry'[m] = entry[m]
           /\ \A m \in Windows : entry[m] # Absent => entry'[m] # Absent
BY DEF TypeOK

\* OnTheWay through a step that leaves the clock, makes w's request r and removes no entry.
LEMMA OnTheWayStep ==
    ASSUME TypeOK, OnTheWay, NEW w \in Workers, NEW r, Become(w, r), clock' = clock,
           \A m \in Windows : entry[m] # Absent => entry'[m] # Absent,
           r.pc # "idle" => clock + r.wait >= EndOf(r.window),
           r.pc = "insert" => r.at <= clock /\ r.at + r.wait >= EndOf(r.window),
           r.pc = "incr" => entry'[r.window] # Absent
    PROVE  OnTheWay'
<1>1. \A v \in Workers : req[v].window \in Windows
  BY RequestTypes
<1>2. req'[w] = r /\ \A v \in Workers \ {w} : req'[v] = req[v]
  BY OthersWait
<1> QED BY <1>1, <1>2 DEF OnTheWay

\* What Insert and Incr write.
LEMMA FreshOutlives ==
    ASSUME Ready, NEW w \in Workers, req[w].pc = "insert"
    PROVE  LET e == Fresh(req[w].at, Timeout(req[w]))
           IN  e # Absent /\ e.value = 1 /\ e.expires >= EndOf(req[w].window) + Second
<1> DEFINE r == req[w]
<1>1. r.at \in Nat /\ r.wait \in Nat /\ r.window \in Nat
  BY RequestTypes DEF Ready
<1>2. r.at + r.wait >= EndOf(r.window) /\ EndOf(r.window) \in Nat
  BY <1>1, EndIsNat DEF Ready, OnTheWay
<1>3. r.at + Timeout(r) \in Nat /\ r.at + Timeout(r) >= EndOf(r.window) + Second
  BY <1>1, <1>2 DEF Timeout
<1>4. Floor(r.at + Timeout(r)) >= EndOf(r.window) + Second
  BY <1>1, <1>3, CutExpiry
<1>5. Fresh(r.at, Timeout(r)) = [value |-> 1, expires |-> Floor(r.at + Timeout(r))]
  BY DEF Fresh
<1> QED BY <1>4, <1>5 DEF Absent

LEMMA IncrementedOutlives ==
    ASSUME NEW e \in Entry
    PROVE  /\ Incremented(e) # Absent
           /\ Incremented(e).value = e.value + 1 /\ Incremented(e).expires = e.expires
BY DEF Entry, Incremented, Absent
\* Counters outlive their windows and requests wait for their ends, step by step.
LEMMA ReadyStep == Ready /\ [Next]_vars => Ready'
<1> SUFFICES ASSUME Ready, [Next]_vars PROVE Ready'
  OBVIOUS
<1>t. TypeOK /\ TypeOK'
  BY TypeStep DEF Ready
<1>w. ASSUME NEW w \in Workers
      PROVE  /\ req[w].window \in Windows /\ req[w].wait \in Nat
             /\ clock \in Nat /\ entry[req[w].window] \in Entry
  BY <1>t, RequestTypes
<1>i. Idle.pc = "idle"
  BY DEF Idle
<1>o. OnTheWay /\ CountersOutliveTheirWindow
  BY DEF Ready
<1>s. ASSUME UNCHANGED entry PROVE CountersOutliveTheirWindow'
  BY <1>s, <1>o DEF CountersOutliveTheirWindow
<1>1. ASSUME NEW w \in Workers, Stamp(w) PROVE Ready'
  <2> DEFINE r == [Idle EXCEPT !.pc = "time", !.window = WindowOf(clock), !.wait = Wait(clock)]
  <2>1. Become(w, r) /\ clock' = clock /\ UNCHANGED entry
    BY <1>1 DEF Stamp
  <2>2. r.pc = "time" /\ r.window = WindowOf(clock) /\ r.wait = Wait(clock)
    BY DEF Idle
  <2>3. clock + Wait(clock) >= EndOf(WindowOf(clock))
    BY <1>w, WaitReachesTheEnd
  <2> HIDE DEF r
  <2>4. OnTheWay'
    BY <2>1, <2>2, <2>3, <1>t, <1>o, OnTheWayStep
  <2> QED BY <2>1, <2>4, <1>s, <1>t DEF Ready
<1>2. ASSUME NEW w \in Workers, Time(w) PROVE Ready'
  <2> DEFINE r == [req[w] EXCEPT !.pc = "insert", !.at = clock]
  <2>1. Become(w, r) /\ clock' = clock /\ UNCHANGED entry /\ req[w].pc = "time"
    BY <1>2 DEF Time
  <2>2. r.pc = "insert" /\ r.window = req[w].window /\ r.wait = req[w].wait /\ r.at = clock
    BY <1>t, RequestTypes DEF Served
  <2>3. clock + req[w].wait >= EndOf(req[w].window)
    BY <2>1, <1>o DEF OnTheWay
  <2> HIDE DEF r
  <2>4. OnTheWay'
    BY <2>1, <2>2, <2>3, <1>t, <1>o, <1>w, OnTheWayStep
  <2> QED BY <2>1, <2>4, <1>s, <1>t DEF Ready
<1>3. ASSUME NEW w \in Workers, Insert(w) PROVE Ready'
  <2> DEFINE n == req[w].window
             e == Fresh(req[w].at, Timeout(req[w]))
             r == [req[w] EXCEPT !.pc = "incr"]
  <2>1. clock' = clock /\ req[w].pc = "insert"
    BY <1>3 DEF Insert
  <2>2. e # Absent /\ e.expires >= EndOf(n) + Second
    BY <2>1, FreshOutlives
  <2>3. CASE Inserts(entry[n], req[w].at)
    <3>1. entry' = [entry EXCEPT ![n] = e] /\ Become(w, Idle)
      BY <1>3, <2>3 DEF Insert, Answer
    <3> HIDE DEF e
    <3>2. /\ entry'[n] = e /\ \A m \in Windows \ {n} : entry'[m] = entry[m]
          /\ \A m \in Windows : entry[m] # Absent => entry'[m] # Absent
      BY <3>1, <2>2, <1>t, <1>w, WrittenEntry
    <3>3. OnTheWay'
      BY <3>1, <3>2, <2>1, <1>i, <1>t, <1>o, OnTheWayStep
    <3>4. CountersOutliveTheirWindow'
      BY <3>2, <2>2, <1>o DEF CountersOutliveTheirWindow
    <3> QED BY <3>3, <3>4, <1>t DEF Ready
  <2>4. CASE ~ Inserts(entry[n], req[w].at)
    <3>1. Become(w, r) /\ UNCHANGED entry
      BY <1>3, <2>4 DEF Insert
    <3>2. r.pc = "incr" /\ r.window = n /\ r.wait = req[w].wait
      BY <1>t, RequestTypes DEF Served
    <3>3. entry[n] # Absent
      BY <2>4 DEF Inserts
    <3>4. clock + req[w].wait >= EndOf(n)
      BY <2>1, <1>o DEF OnTheWay
    <3> HIDE DEF r
    <3>5. OnTheWay'
      BY <3>1, <3>2, <3>3, <3>4, <2>1, <1>t, <1>o, OnTheWayStep
    <3> QED BY <3>1, <3>5, <1>s, <1>t DEF Ready
  <2> QED BY <2>3, <2>4
<1>4. ASSUME NEW w \in Workers, Incr(w) PROVE Ready'
  <2> DEFINE n == req[w].window
             e == Incremented(entry[n])
             r == [req[w] EXCEPT !.pc = "time", !.tries = 1]
  <2>1. clock' = clock /\ req[w].pc = "incr" /\ entry[n] # Absent
    BY <1>4, <1>o DEF Incr, OnTheWay
  <2>2. e # Absent /\ e.expires >= EndOf(n) + Second
    BY <2>1, <1>w, <1>o, IncrementedOutlives DEF CountersOutliveTheirWindow
  <2>3. CASE Counts(entry[n], clock)
    <3>1. entry' = [entry EXCEPT ![n] = e] /\ Become(w, Idle)
      BY <1>4, <2>3 DEF Incr, Answer
    <3> HIDE DEF e
    <3>2. /\ entry'[n] = e /\ \A m \in Windows \ {n} : entry'[m] = entry[m]
          /\ \A m \in Windows : entry[m] # Absent => entry'[m] # Absent
      BY <3>1, <2>2, <1>t, <1>w, WrittenEntry
    <3>3. OnTheWay'
      BY <3>1, <3>2, <2>1, <1>i, <1>t, <1>o, OnTheWayStep
    <3>4. CountersOutliveTheirWindow'
      BY <3>2, <2>2, <1>o DEF CountersOutliveTheirWindow
    <3> QED BY <3>3, <3>4, <1>t DEF Ready
  <2>4. CASE ~ Counts(entry[n], clock)
    <3>1. UNCHANGED entry /\ (Become(w, r) \/ Become(w, Idle))
      BY <1>4, <2>4 DEF Incr, Expired, Answer
    <3>2. r.pc = "time" /\ r.window = n /\ r.wait = req[w].wait
      BY <1>t, RequestTypes DEF Served
    <3>3. clock + req[w].wait >= EndOf(n)
      BY <2>1, <1>o DEF OnTheWay
    <3> HIDE DEF r
    <3>4. CASE Become(w, r)
      <4>1. OnTheWay'
        BY <3>1, <3>2, <3>3, <3>4, <2>1, <1>t, <1>o, OnTheWayStep
      <4> QED BY <3>1, <4>1, <1>s, <1>t DEF Ready
    <3>5. CASE Become(w, Idle)
      <4>1. OnTheWay'
        BY <3>1, <3>5, <2>1, <1>i, <1>t, <1>o, OnTheWayStep
      <4> QED BY <3>1, <4>1, <1>s, <1>t DEF Ready
    <3> QED BY <3>1, <3>4, <3>5
  <2> QED BY <2>3, <2>4
<1>5. CASE Tick
  <2>1. clock' = clock + 1 /\ req' = req /\ UNCHANGED entry
    BY <1>5 DEF Tick
  <2>2. ASSUME NEW w \in Workers
        PROVE  /\ req[w].wait \in Nat /\ EndOf(req[w].window) \in Nat
               /\ req[w].at \in Nat /\ clock \in Nat
    <3>1. req[w].window \in Nat /\ req[w].wait \in Nat /\ req[w].at \in Nat /\ clock \in Nat
      BY <1>t, RequestTypes
    <3> QED BY <3>1, EndIsNat
  <2>3. OnTheWay'
    BY <2>1, <2>2, <1>o DEF OnTheWay
  <2> QED BY <2>1, <2>3, <1>s, <1>t DEF Ready
<1>6. CASE UNCHANGED vars
  <2>1. OnTheWay'
    BY <1>6, <1>o DEF vars, OnTheWay
  <2> QED BY <1>6, <2>1, <1>s, <1>t DEF vars, Ready
<1> QED BY <1>1, <1>2, <1>3, <1>4, <1>5, <1>6 DEF Next

\* The initial state.
LEMMA SafeInit == Init => Safe
<1> SUFFICES ASSUME Init PROVE Safe
  OBVIOUS
<1>1. 0 \in Windows /\ 0 \in 0..MaxClock
  BY Division DEF Windows
<1>2. TypeOK
  BY <1>1 DEF Init, TypeOK, Served, Idle, Entry, Absent
<1>3. OnTheWay /\ CountersOutliveTheirWindow
  BY DEF Init, OnTheWay, CountersOutliveTheirWindow, Idle
<1>4. Tally /\ PromptRequestsGetTheLimit
  BY DEF Init, Tally, PromptRequestsGetTheLimit, Absent
<1> QED BY <1>2, <1>3, <1>4 DEF Safe, Ready

\* A counter lives to the end of its window and a second more, whatever the pace of
\* the workers and wherever in a second they read the clock.
THEOREM CountersOutlive == Spec => []CountersOutliveTheirWindow
<1>1. Init => Ready
  BY SafeInit DEF Safe
<1>2. Ready => CountersOutliveTheirWindow
  BY DEF Ready
<1> QED BY <1>1, <1>2, ReadyStep, PTL DEF Spec
----------------------------------------------------------------------------
(* The tally of the prompt requests.                                       *)

\* The answer of w to a request of window n.
LEMMA AnswerTally ==
    ASSUME TypeOK, NEW w \in Workers, NEW kind \in {"through", "refused"}, Answer(w, kind)
    PROVE  LET n == req[w].window
           IN  /\ \A m \in Windows \ {n} : answered'[m] = answered[m]
               /\ ~ Prompt(n) => answered' = answered
               /\ Prompt(n) /\ kind = "through" =>
                      /\ answered'[n].through = answered[n].through + 1
                      /\ answered'[n].refused = answered[n].refused
               /\ Prompt(n) /\ kind = "refused" =>
                      /\ answered'[n].through = answered[n].through
                      /\ answered'[n].refused = answered[n].refused + 1
<1>1. req[w].window \in Windows
  BY RequestTypes
<1>2. answered \in [Windows -> [through : Nat, refused : Nat]]
  BY DEF TypeOK
<1> QED BY <1>1, <1>2 DEF Answer

\* A prompt request finds its counter alive: no add replaces it, no incr refuses it.
LEMMA PromptFindsItsCounter ==
    ASSUME Ready, NEW w \in Workers, Prompt(req[w].window), entry[req[w].window] # Absent
    PROVE  /\ Counts(entry[req[w].window], clock)
           /\ req[w].pc = "insert" => ~ Inserts(entry[req[w].window], req[w].at)
<1> DEFINE n == req[w].window
<1>1. n \in Windows /\ n \in Nat /\ req[w].at \in Nat /\ clock \in Nat /\ entry[n] \in Entry
  BY RequestTypes DEF Ready
<1>2. entry[n].expires >= EndOf(n) + Second /\ EndOf(n) \in Nat /\ entry[n].expires \in Nat
  BY <1>1, EndIsNat DEF Ready, CountersOutliveTheirWindow, Entry
<1>3. clock < EndOf(n) + Second
  BY DEF Prompt
<1>4. Counts(entry[n], clock)
  BY <1>1, <1>2, <1>3 DEF Counts
<1>5. ASSUME req[w].pc = "insert" PROVE ~ Inserts(entry[n], req[w].at)
  <2>1. req[w].at <= clock
    BY <1>5 DEF Ready, OnTheWay
  <2>2. Floor(req[w].at) <= req[w].at /\ Floor(req[w].at) \in Nat
    BY <1>1, FloorBounds
  <2> HIDE DEF n
  <2>3. ~ (entry[n].expires < Floor(req[w].at))
    BY <2>1, <2>2, <1>1, <1>2, <1>3
  <2> QED BY <2>3 DEF Inserts, n
<1> QED BY <1>4, <1>5

\* A step that leaves entries and answers alone, with the clock where it was or later.
LEMMA TallyUndisturbed ==
    ASSUME Safe, UNCHANGED <<entry, answered>>, clock' = clock \/ clock' = clock + 1
    PROVE  Tally' /\ PromptRequestsGetTheLimit'
<1>1. \A n \in Windows : Prompt(n)' => Prompt(n)
  <2> TAKE n \in Windows
  <2>1. clock \in Nat /\ EndOf(n) \in Nat
    BY EndIsNat DEF Safe, Ready, TypeOK, Windows
  <2> QED BY <2>1 DEF Prompt
<1> QED BY <1>1 DEF Safe, Tally, PromptRequestsGetTheLimit

\* A step that writes the entry of a late request.
LEMMA TallyLate ==
    ASSUME Safe, NEW n \in Windows, ~ Prompt(n), NEW e, e # Absent,
           entry' = [entry EXCEPT ![n] = e], UNCHANGED <<answered, clock>>
    PROVE  Tally' /\ PromptRequestsGetTheLimit'
<1>1. entry'[n] # Absent /\ \A m \in Windows \ {n} : entry'[m] = entry[m]
  BY WrittenEntry DEF Safe, Ready
<1>2. \A m \in Windows : Prompt(m)' <=> Prompt(m)
  BY DEF Prompt
<1>3. Tally'
  BY <1>1, <1>2 DEF Safe, Tally
<1> QED BY <1>3 DEF Safe, PromptRequestsGetTheLimit

\* Every step keeps the tally.
LEMMA TallyStep == Safe /\ [Next]_vars => Tally' /\ PromptRequestsGetTheLimit'
<1> SUFFICES ASSUME Safe, [Next]_vars PROVE Tally' /\ PromptRequestsGetTheLimit'
  OBVIOUS
<1>r. Ready /\ TypeOK
  BY DEF Safe, Ready
<1>w. ASSUME NEW n \in Windows
      PROVE  /\ entry[n] \in Entry /\ entry[n].value \in Nat /\ n \in Nat
             /\ answered[n].through \in Nat /\ answered[n].refused \in Nat
  BY <1>r DEF TypeOK, Entry, Windows
<1>1. ASSUME NEW w \in Workers, Stamp(w) \/ Time(w) PROVE Tally' /\ PromptRequestsGetTheLimit'
  BY <1>1, TallyUndisturbed DEF Stamp, Time
<1>2. ASSUME NEW w \in Workers, Insert(w) PROVE Tally' /\ PromptRequestsGetTheLimit'
  <2> DEFINE n == req[w].window
             e == Fresh(req[w].at, Timeout(req[w]))
  <2>1. clock' = clock /\ req[w].pc = "insert" /\ n \in Windows
    BY <1>2, <1>r, RequestTypes DEF Insert
  <2>2. CASE ~ Inserts(entry[n], req[w].at)
    <3>1. UNCHANGED <<entry, answered>>
      BY <1>2, <2>2 DEF Insert
    <3> QED BY <3>1, <2>1, TallyUndisturbed
  <2>3. CASE Inserts(entry[n], req[w].at)
    <3>1. entry' = [entry EXCEPT ![n] = e] /\ Answer(w, "through")
      BY <1>2, <2>3 DEF Insert
    <3>2. e # Absent /\ e.value = 1
      BY <2>1, <1>r, FreshOutlives
    <3> HIDE DEF e
    <3>3. CASE ~ Prompt(n)
      <4>1. answered' = answered
        BY <3>1, <3>3, <1>r, AnswerTally
      <4> QED BY <4>1, <3>1, <3>2, <3>3, <2>1, TallyLate
    <3>4. CASE Prompt(n)
      <4>1. entry[n] = Absent
        BY <3>4, <2>1, <2>3, <1>r, PromptFindsItsCounter
      <4>2. answered[n].through = 0 /\ answered[n].refused = 0
        BY <4>1, <2>1 DEF Safe, Tally
      <4>3. /\ answered'[n].through = 1 /\ answered'[n].refused = 0
            /\ \A m \in Windows \ {n} : answered'[m] = answered[m]
        BY <3>1, <3>4, <4>2, <1>r, AnswerTally
      <4>4. entry'[n] = e /\ \A m \in Windows \ {n} : entry'[m] = entry[m]
        BY <3>1, <3>2, <2>1, <1>r, WrittenEntry
      <4> HIDE DEF n
      <4>5. Tally'
        BY <4>3, <4>4, <3>2, <2>1 DEF Safe, Tally, Prompt
      <4>6. PromptRequestsGetTheLimit'
        BY <4>3, <2>1 DEF Safe, PromptRequestsGetTheLimit
      <4> QED BY <4>5, <4>6
    <3> QED BY <3>3, <3>4
  <2> QED BY <2>2, <2>3
<1>3. ASSUME NEW w \in Workers, Incr(w) PROVE Tally' /\ PromptRequestsGetTheLimit'
  <2> DEFINE n == req[w].window
             e == Incremented(entry[n])
             kind == Verdict(entry[n].value + 1)
  <2>1. clock' = clock /\ req[w].pc = "incr" /\ n \in Windows /\ entry[n] # Absent
    BY <1>3, <1>r, RequestTypes DEF Incr, Ready, OnTheWay
  <2>2. CASE Counts(entry[n], clock)
    <3>1. entry' = [entry EXCEPT ![n] = e] /\ Answer(w, kind)
      BY <1>3, <2>2 DEF Incr
    <3>2. e # Absent /\ e.value = entry[n].value + 1
      BY <2>1, <1>w, IncrementedOutlives
    <3>3. /\ kind \in {"through", "refused"}
          /\ kind = "refused" <=> entry[n].value + 1 > Limit
      BY DEF Verdict
    <3> HIDE DEF e, kind
    <3>4. CASE ~ Prompt(n)
      <4>1. answered' = answered
        BY <3>1, <3>3, <3>4, <1>r, AnswerTally
      <4> QED BY <4>1, <3>1, <3>2, <3>4, <2>1, TallyLate
    <3>5. CASE Prompt(n)
      <4>1. entry[n].value = answered[n].through + answered[n].refused
        BY <3>5, <2>1 DEF Safe, Tally
      <4>2. answered[n].through <= Limit /\ (answered[n].refused > 0 => answered[n].through = Limit)
        BY <2>1 DEF Safe, PromptRequestsGetTheLimit
      <4>3. /\ \A m \in Windows \ {n} : answered'[m] = answered[m]
            /\ kind = "through" => /\ answered'[n].through = answered[n].through + 1
                                   /\ answered'[n].refused = answered[n].refused
            /\ kind = "refused" => /\ answered'[n].through = answered[n].through
                                   /\ answered'[n].refused = answered[n].refused + 1
        BY <3>1, <3>3, <3>5, <1>r, AnswerTally
      <4>4. entry'[n] = e /\ \A m \in Windows \ {n} : entry'[m] = entry[m]
        BY <3>1, <3>2, <2>1, <1>r, WrittenEntry
      <4>5. /\ answered[n].through \in Nat /\ answered[n].refused \in Nat
            /\ Limit \in Nat
        BY <2>1, <1>w
      <4> HIDE DEF n
      <4>6. /\ entry'[n].value = answered'[n].through + answered'[n].refused
            /\ answered'[n].through <= Limit
            /\ answered'[n].refused > 0 => answered'[n].through = Limit
        BY <4>1, <4>2, <4>3, <4>4, <4>5, <3>2, <3>3
      <4>7. Tally'
        BY <4>3, <4>4, <4>6, <3>2, <2>1 DEF Safe, Tally, Prompt
      <4>8. PromptRequestsGetTheLimit'
        BY <4>3, <4>6, <2>1 DEF Safe, PromptRequestsGetTheLimit
      <4> QED BY <4>7, <4>8
    <3> QED BY <3>4, <3>5
  <2>3. CASE ~ Counts(entry[n], clock)
    <3>1. ~ Prompt(n)
      BY <2>1, <2>3, <1>r, PromptFindsItsCounter
    <3>2. UNCHANGED entry /\ Expired(w)
      BY <1>3, <2>3 DEF Incr
    <3>3. answered' = answered \/ Answer(w, "refused")
      BY <3>2 DEF Expired
    <3>4. answered' = answered
      BY <3>1, <3>3, <1>r, AnswerTally
    <3> QED BY <3>2, <3>4, <2>1, TallyUndisturbed
  <2> QED BY <2>2, <2>3
<1>4. CASE Tick
  BY <1>4, TallyUndisturbed DEF Tick
<1>5. CASE UNCHANGED vars
  BY <1>5, TallyUndisturbed DEF vars
<1> QED BY <1>1, <1>2, <1>3, <1>4, <1>5 DEF Next

\* Of the prompt requests of a window exactly Limit are let through before the first
\* is refused, for any number of workers, any windows and any limit.
THEOREM PromptRequestsCounted == Spec => []PromptRequestsGetTheLimit
<1>1. Safe /\ [Next]_vars => Safe'
  BY ReadyStep, TallyStep DEF Safe
<1>2. Safe => PromptRequestsGetTheLimit
  BY DEF Safe
<1> QED BY <1>1, <1>2, SafeInit, PTL DEF Spec
=============================================================================
