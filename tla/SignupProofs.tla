----------------------------- MODULE SignupProofs -----------------------------
(***************************************************************************)
(* Proofs about Signup, for any number of workers and addresses: the pause *)
(* between letters works as a lock, letters carry current links, and an    *)
(* account comes from the request that waits for its address.              *)
(***************************************************************************)
EXTENDS Signup, FiniteSetTheorems, TLAPS

(***************************************************************************)
(* Values.                                                                 *)
(***************************************************************************)
LEMMA ValueTypes ==
  /\ NoRequest \in RequestRow /\ NoRequest.token = 0
  /\ NoAccount \in AccountRow
  /\ Idle \in Served /\ Idle.pc = "idle" /\ Idle.op = "none" /\ Idle.row = NoRequest
  /\ Idle.began = 0 /\ Idle.now = 0 /\ Idle.tries = 0
<1> USE SignupAssumption DEF SignupAssumption
<1>1. NoRequest \in RequestRow /\ NoRequest.token = 0
  BY DEF NoRequest, Request, RequestRow
<1>2. NoAccount \in AccountRow
  BY DEF NoAccount, AccountRow, ByHand
<1>3. (CHOOSE e \in Emails : TRUE) \in Emails
  OBVIOUS
<1>4. Idle \in Served
  BY <1>1, <1>3 DEF Idle, Served, Attempts
<1> QED BY <1>1, <1>2, <1>4 DEF Idle

LEMMA PhasesOf ==
  /\ Phases("none") = {"idle"}
  /\ Phases("submit") = {"reserve", "select", "check", "delete", "insert", "commit", "mail"}
  /\ Phases("resend") = {"reserve", "mail"}
  /\ Phases("confirm") = {"check", "create", "commit"}
  BY DEF Phases

Pcs == {"idle", "reserve", "select", "check", "delete", "insert", "create", "commit", "mail"}

\* What a step of a request at work writes: its next statement, its clock, its
\* attempts and its row.
Moved(r, pc, now, tries, row) ==
    [r EXCEPT !.pc = pc, !.now = now, !.tries = tries, !.row = row]

LEMMA MovedFields ==
  ASSUME NEW r \in Served, NEW pc \in Pcs, NEW now \in 0..MaxClock, NEW tries \in 0..Attempts - 1,
         NEW row \in RequestRow
  PROVE  LET q == Moved(r, pc, now, tries, row)
         IN  /\ q \in Served /\ q.pc = pc /\ q.op = r.op /\ q.email = r.email /\ q.began = r.began
             /\ q.now = now /\ q.tries = tries /\ q.row = row
  BY DEF Served, Pcs, Moved

LEMMA GotoFields ==
  ASSUME NEW r \in Served, NEW pc
  PROVE  [r EXCEPT !.pc = pc] = Moved(r, pc, r.now, r.tries, r.row)
  BY DEF Served, Moved

\* A request as it comes in.
Started(w, op, e, pc, row) == [Begin(w, op, e) EXCEPT !.pc = pc, !.row = row]

LEMMA BeginFields ==
  ASSUME clock \in 0..MaxClock, NEW w \in Workers, NEW op \in {"submit", "resend", "confirm"}, NEW e \in Emails,
         NEW pc \in Pcs, NEW row \in RequestRow
  PROVE  LET q == Started(w, op, e, pc, row)
         IN  /\ q \in Served /\ q.pc = pc /\ q.op = op /\ q.email = e /\ q.began = clock
             /\ q.now = clock /\ q.row = row
<1>1. Idle \in Served
  BY ValueTypes
<1> QED BY <1>1 DEF Started, Begin, Served, Pcs

(***************************************************************************)
(* TypeOK: what it says of one worker, and of the submissions in flight.   *)
(***************************************************************************)
LEMMA WorkerFacts ==
  ASSUME TypeOK, NEW w \in Workers
  PROVE  /\ req[w] \in Served /\ ServedOK(w) /\ w # NoWorker
         /\ req[w].email \in Emails /\ req[w].row \in RequestRow /\ req[w].pc \in Pcs
         /\ req[w].tries \in 0..Attempts - 1 /\ req[w].now \in 0..MaxClock
         /\ req[w].began \in 0..MaxClock
         /\ requests[req[w].email] \in RequestRow /\ deadline[req[w].email] \in Nat
<1>1. req[w] \in Served /\ ServedOK(w)
  BY DEF TypeOK
<1>2. w # NoWorker
  BY SignupAssumption DEF SignupAssumption
<1>3. /\ req[w].email \in Emails /\ req[w].row \in RequestRow /\ req[w].pc \in Pcs
      /\ req[w].tries \in 0..Attempts - 1 /\ req[w].now \in 0..MaxClock
      /\ req[w].began \in 0..MaxClock
  BY <1>1 DEF Served, Pcs
<1>4. requests[req[w].email] \in RequestRow /\ deadline[req[w].email] \in Nat
  BY <1>3, SignupAssumption DEF TypeOK, SignupAssumption
<1> QED BY <1>1, <1>2, <1>3, <1>4

Flies(r) == r.op = "submit" /\ r.pc # "mail"

LEMMA FlightFinite ==
  /\ IsFiniteSet({w \in Workers : Flies(req[w])})
  /\ InFlight = Cardinality({w \in Workers : Flies(req[w])}) /\ InFlight \in Nat
<1>1. IsFiniteSet({w \in Workers : Flies(req[w])})
  <2>1. {w \in Workers : Flies(req[w])} \subseteq Workers
    OBVIOUS
  <2> QED BY <2>1, FS_Subset, SignupAssumption DEF SignupAssumption
<1>2. {w \in Workers : Flies(req[w])} = {w \in Workers : req[w].op = "submit" /\ req[w].pc # "mail"}
  BY DEF Flies
<1> QED BY <1>1, <1>2, FS_CardinalityType DEF InFlight

\* The same after a step that leaves no more requests in flight.
LEMMA FlightShrinks ==
  ASSUME \A w \in Workers : Flies(req'[w]) => Flies(req[w])
  PROVE  InFlight' \in Nat /\ InFlight' <= InFlight
<1> DEFINE F == {w \in Workers : Flies(req[w])}
           G == {w \in Workers : Flies(req'[w])}
<1>1. IsFiniteSet(F) /\ InFlight = Cardinality(F)
  BY FlightFinite
<1>2. InFlight' = Cardinality(G)
  <2>1. G = {w \in Workers : req'[w].op = "submit" /\ req'[w].pc # "mail"}
    BY DEF Flies
  <2> QED BY <2>1 DEF InFlight
<1>3. G \subseteq F
  OBVIOUS
<1> HIDE DEF F, G
<1> QED BY <1>1, <1>2, <1>3, FS_Subset, FS_CardinalityType

LEMMA FlightAdds ==
  ASSUME NEW w \in Workers, ~ Flies(req[w]), \A v \in Workers \ {w} : req'[v] = req[v]
  PROVE  InFlight' \in Nat /\ InFlight' <= InFlight + 1
<1> DEFINE F == {v \in Workers : Flies(req[v])}
           G == {v \in Workers : Flies(req'[v])}
<1>1. IsFiniteSet(F) /\ InFlight = Cardinality(F)
  BY FlightFinite
<1>2. InFlight' = Cardinality(G)
  <2>1. G = {v \in Workers : req'[v].op = "submit" /\ req'[v].pc # "mail"}
    BY DEF Flies
  <2> QED BY <2>1 DEF InFlight
<1>3. G \subseteq F \cup {w} /\ w \notin F
  OBVIOUS
<1> HIDE DEF F, G
<1>4. IsFiniteSet(F \cup {w}) /\ Cardinality(F \cup {w}) = Cardinality(F) + 1
  BY <1>1, <1>3, FS_AddElement
<1> QED BY <1>1, <1>2, <1>3, <1>4, FS_Subset, FS_CardinalityType

LEMMA FlightLands ==
  ASSUME NEW w \in Workers, Flies(req[w]), ~ Flies(req'[w]),
         \A v \in Workers \ {w} : req'[v] = req[v]
  PROVE  InFlight' \in Nat /\ InFlight' + 1 <= InFlight
<1> DEFINE F == {v \in Workers : Flies(req[v])}
           G == {v \in Workers : Flies(req'[v])}
<1>1. IsFiniteSet(F) /\ InFlight = Cardinality(F)
  BY FlightFinite
<1>2. InFlight' = Cardinality(G)
  <2>1. G = {v \in Workers : req'[v].op = "submit" /\ req'[v].pc # "mail"}
    BY DEF Flies
  <2> QED BY <2>1 DEF InFlight
<1>3. G \subseteq F \ {w} /\ w \in F
  OBVIOUS
<1> HIDE DEF F, G
<1>4. IsFiniteSet(F \ {w}) /\ Cardinality(F \ {w}) = Cardinality(F) - 1
  BY <1>1, <1>3, FS_RemoveElement
<1> QED BY <1>1, <1>2, <1>3, <1>4, FS_Subset, FS_CardinalityType

LEMMA MintedFacts ==
  ASSUME TypeOK
  PROVE  /\ minted \in Nat /\ InFlight \in Nat /\ MaxTokens \in Nat
         /\ minted + InFlight <= MaxTokens
<1>1. minted \in Nat /\ minted + InFlight <= MaxTokens
  BY DEF TypeOK
<1> QED BY <1>1, FlightFinite, SignupAssumption DEF SignupAssumption

(***************************************************************************)
(* One step of one worker, or of nobody, at a standing clock.              *)
(***************************************************************************)
SharedOK ==
    /\ requests \in [Emails -> RequestRow]
    /\ accounts \in [Emails -> AccountRow]
    /\ lock \in [Emails -> Workers \cup {NoWorker}]
    /\ deadline \in [Emails -> 0..MaxClock + Cooldown]
    /\ culled \in BOOLEAN
    /\ letters \subseteq Tokens
    /\ clock \in 0..MaxClock
    /\ minted \in Nat
    /\ \A e \in Emails : requests[e] = NoRequest \/ requests[e].token \in 1..minted

LEMMA TypeOKShared == TypeOK => SharedOK
  BY DEF TypeOK, SharedOK

\* What the others rely on: rows they have locked stay, an address without a
\* row at which they are committing stays so, and w takes or leaves only its own locks.
OthersKeep(w) ==
    /\ \A e \in Emails : lock[e] \notin {w, NoWorker} => lock'[e] = lock[e] /\ requests'[e] = requests[e]
    /\ \A e \in Emails : lock[e] \in {w, NoWorker} => lock'[e] \in {w, NoWorker}
    /\ \A v \in Workers \ {w} : At(v, "submit", "commit") /\ requests[req[v].email] = NoRequest =>
           requests'[req[v].email] = NoRequest

LEMMA StepKeepsTypes ==
  ASSUME TypeOK, NEW w \in Workers, NEW q \in Served, req' = [req EXCEPT ![w] = q],
         clock' = clock, SharedOK', minted' + InFlight' <= MaxTokens, OthersKeep(w),
         \A e \in Emails : lock'[e] = w => q.email = e /\ q.pc \in InTransaction /\ requests'[e] # NoRequest,
         ServedOK(w)'
  PROVE  TypeOK'
<1>1. /\ req' \in [Workers -> Served] /\ req'[w] = q
      /\ \A v \in Workers \ {w} : req'[v] = req[v]
  BY DEF TypeOK
<1>2. ASSUME NEW e \in Emails, lock'[e] # NoWorker
      PROVE  /\ req'[lock'[e]].email = e /\ req'[lock'[e]].pc \in InTransaction
             /\ requests'[e] # NoRequest
  <2>1. CASE lock'[e] = w
    BY <2>1, <1>1
  <2>2. CASE lock'[e] # w
    <3>1. lock[e] = lock'[e] /\ lock[e] \in Workers \ {w}
      BY <1>2, <2>2 DEF OthersKeep, TypeOK
    <3>2. requests'[e] = requests[e]
      BY <3>1, WorkerFacts DEF OthersKeep
    <3> QED BY <3>1, <3>2, <1>1, <1>2 DEF TypeOK
  <2> QED BY <2>1, <2>2
<1>3. ASSUME NEW v \in Workers PROVE ServedOK(v)'
  <2>1. CASE v = w
    BY <2>1
  <2>2. CASE v # w
    <3> DEFINE r == req[v]
    <3>1. req'[v] = r /\ ServedOK(v) /\ r.email \in Emails /\ v # NoWorker
      BY <1>1, <2>2, WorkerFacts
    <3>2. lock[r.email] = v => lock'[r.email] = v /\ requests'[r.email] = requests[r.email]
      BY <3>1, <2>2 DEF OthersKeep
    <3>3. ASSUME At(v, "submit", "commit")
          PROVE  /\ requests'[r.email] = NoRequest \/ lock'[r.email] = v
                 /\ \A u \in Workers \ {v} : At(u, "submit", "commit")' => req'[u].email # r.email
      <4>1. requests[r.email] = NoRequest \/ lock[r.email] = v
        BY <3>1, <3>3 DEF ServedOK
      <4>2. requests'[r.email] = NoRequest \/ lock'[r.email] = v
        BY <4>1, <3>2, <3>3, <2>2 DEF OthersKeep
      <4>3. ASSUME NEW u \in Workers \ {v}, At(u, "submit", "commit")'
            PROVE  req'[u].email # r.email
        <5>1. CASE u = w
          <6>1. At(v, "submit", "commit")'
            BY <3>1, <3>3 DEF At
          <6>2. \A x \in Workers \ {w} : At(x, "submit", "commit")' => req'[x].email # req'[w].email
            BY <5>1, <4>3 DEF ServedOK
          <6> QED BY <6>1, <6>2, <5>1, <2>2, <3>1
        <5>2. CASE u # w
          <6>1. req'[u] = req[u]
            BY <5>2, <1>1
          <6> QED BY <6>1, <3>1, <3>3, <4>3 DEF ServedOK, At
        <5> QED BY <5>1, <5>2
      <4> QED BY <4>2, <4>3
    <3>4. At(v, "submit", "commit")' = At(v, "submit", "commit")
      BY <3>1 DEF At
    <3>5. (Idle = Idle') /\ (Tokens' = Tokens)
      BY DEF Tokens, Idle, NoRequest, Request
    <3> QED BY <3>1, <3>2, <3>3, <3>4, <3>5 DEF ServedOK
  <2> QED BY <2>1, <2>2
<1> QED BY <1>1, <1>2, <1>3 DEF TypeOK, SharedOK

LEMMA UnlockKeeps ==
  ASSUME TypeOK, NEW w \in Workers, Unlock({w})
  PROVE  /\ lock' \in [Emails -> Workers \cup {NoWorker}]
         /\ \A e \in Emails : lock'[e] # w /\ (lock[e] # w => lock'[e] = lock[e])
         /\ \A e \in Emails : lock[e] = w => lock'[e] = NoWorker
<1>1. w # NoWorker
  BY WorkerFacts
<1>2. lock' = [e \in Emails |-> IF lock[e] \in {w} THEN NoWorker ELSE lock[e]]
  BY DEF Unlock
<1> QED BY <1>1, <1>2 DEF TypeOK

LEMMA LocksKeeps ==
  ASSUME TypeOK, NEW w \in Workers, NEW e \in Emails, Locks(w, e)
  PROVE  /\ lock' \in [Emails -> Workers \cup {NoWorker}]
         /\ \A f \in Emails : lock'[f] = w => (lock[f] = w \/ f = e) /\ requests[f] # NoRequest
         /\ \A f \in Emails : lock'[f] # lock[f] => lock[f] = NoWorker /\ lock'[f] = w
         /\ requests[e] # NoRequest => lock'[e] = w
<1>1. lock \in [Emails -> Workers \cup {NoWorker}] /\ w # NoWorker
  BY WorkerFacts DEF TypeOK
<1>2. \A f \in Emails : lock[f] = w => requests[f] # NoRequest
  BY <1>1 DEF TypeOK
<1>3. CASE requests[e] = NoRequest
  BY <1>1, <1>2, <1>3 DEF Locks
<1>4. CASE requests[e] # NoRequest
  <2>1. lock[e] \in {NoWorker, w} /\ lock' = [lock EXCEPT ![e] = w]
    BY <1>4 DEF Locks, Free
  <2> QED BY <1>1, <1>2, <1>4, <2>1
<1> QED BY <1>3, <1>4

\* A request that ends unlocks what it had and is idle.
LEMMA IdleOK ==
  ASSUME TypeOK, NEW w \in Workers, req' = [req EXCEPT ![w] = Idle], clock' = clock
  PROVE  ServedOK(w)'
<1>1. req'[w] = Idle
  BY DEF TypeOK
<1>2. Idle = Idle'
  BY DEF Idle, NoRequest, Request
<1>3. ~ At(w, "submit", "commit")'
  BY <1>1, ValueTypes DEF At
<1>4. clock \in Nat
  BY SignupAssumption DEF TypeOK, SignupAssumption
<1> QED BY <1>1, <1>2, <1>3, <1>4, ValueTypes, PhasesOf DEF ServedOK

LEMMA AbandonStep ==
  ASSUME TypeOK, NEW w \in Workers, Abandon(w), UNCHANGED <<deadline, culled, letters, clock, minted>>
  PROVE  TypeOK'
<1>1. req' = [req EXCEPT ![w] = Idle] /\ Unlock({w}) /\ UNCHANGED <<requests, accounts>>
  BY DEF Abandon, Become
<1>2. /\ req'[w] = Idle
      /\ \A v \in Workers \ {w} : req'[v] = req[v]
  BY <1>1 DEF TypeOK
<1>3. InFlight' \in Nat /\ InFlight' <= InFlight /\ InFlight \in Nat
  <2>1. ~ Flies(req'[w])
    BY <1>2, ValueTypes DEF Flies
  <2> QED BY <1>2, <2>1, FlightShrinks, FlightFinite
<1>4. SharedOK'
  BY <1>1, UnlockKeeps DEF TypeOK, SharedOK, Tokens
<1>5. OthersKeep(w)
  BY <1>1, UnlockKeeps DEF OthersKeep, TypeOK
<1>6. minted' + InFlight' <= MaxTokens
  BY <1>3, MintedFacts
<1>7. ServedOK(w)' /\ Idle \in Served
  BY <1>1, IdleOK, ValueTypes
<1> QED BY <1>1, <1>4, <1>5, <1>6, <1>7, UnlockKeeps, StepKeepsTypes

\* A request that moves on, with requests, accounts and letters as they are.
LEMMA MoveStep ==
  ASSUME TypeOK, NEW w \in Workers, NEW pc \in Pcs, NEW now \in 0..MaxClock,
         NEW tries \in 0..Attempts - 1, NEW row \in RequestRow,
         req' = [req EXCEPT ![w] = Moved(req[w], pc, now, tries, row)],
         lock' \in [Emails -> Workers \cup {NoWorker}], deadline' \in [Emails -> 0..MaxClock + Cooldown],
         UNCHANGED <<requests, accounts, culled, letters, clock, minted>>,
         \A f \in Emails : lock'[f] # lock[f] => lock[f] \in {NoWorker, w} /\ lock'[f] \in {NoWorker, w},
         \A f \in Emails : lock'[f] = w =>
             f = req[w].email /\ pc \in InTransaction /\ requests[f] # NoRequest,
         req[w].pc # "idle", req[w].pc # "mail", pc # "idle",
         pc \in Phases(req[w].op), req[w].now <= now, now <= clock,
         req[w].op \in {"resend", "confirm"} => row = req[w].row,
         req[w].op = "confirm" => lock'[req[w].email] = w,
         pc = "mail" => req[w].op = "resend",
         req[w].op = "submit" /\ pc = "commit" =>
             /\ requests[req[w].email] = NoRequest \/ lock'[req[w].email] = w
             /\ \A v \in Workers \ {w} : At(v, "submit", "commit") => req[v].email # req[w].email
  PROVE  TypeOK'
<1> DEFINE r == req[w]
           q == Moved(r, pc, now, tries, row)
<1>1. r \in Served /\ ServedOK(w)
  BY WorkerFacts
<1>2. /\ q \in Served /\ q.pc = pc /\ q.op = r.op /\ q.email = r.email /\ q.began = r.began
      /\ q.now = now /\ q.tries = tries /\ q.row = row
  BY <1>1, MovedFields
<1>3. req' = [req EXCEPT ![w] = q]
  OBVIOUS
<1> HIDE DEF q
<1>4. req'[w] = q /\ \A v \in Workers \ {w} : req'[v] = req[v]
  BY <1>3 DEF TypeOK
<1>5. SharedOK'
  BY DEF TypeOK, SharedOK, Tokens
<1>6. InFlight' \in Nat /\ InFlight' <= InFlight /\ InFlight \in Nat
  <2>1. Flies(q) => Flies(r)
    BY <1>2 DEF Flies
  <2> QED BY <1>4, <2>1, FlightShrinks, FlightFinite
<1>7. minted' + InFlight' <= MaxTokens
  BY <1>6, MintedFacts
<1>8. OthersKeep(w)
  BY DEF OthersKeep, TypeOK
<1>9. ServedOK(w)'
  <2>1. r.began <= now /\ clock < r.began + Timeout
    <3>1. r.began \in Int /\ r.now \in Int /\ now \in Int
      BY <1>1 DEF Served
    <3> QED BY <1>1, <3>1 DEF ServedOK
  <2>2. r.op \in {"resend", "confirm"} => r.row.token \in Tokens
    BY <1>1 DEF ServedOK
  <2>3. r.op = "confirm" => requests[r.email] = r.row
    BY <1>1 DEF ServedOK
  <2>4. At(w, "submit", "commit")' => r.op = "submit" /\ pc = "commit"
    BY <1>2, <1>4 DEF At
  <2>5. \A v \in Workers \ {w} : At(v, "submit", "commit")' = At(v, "submit", "commit")
    BY <1>4 DEF At
  <2> QED BY <1>2, <1>4, <2>1, <2>2, <2>3, <2>4, <2>5 DEF ServedOK, Tokens
<1>10. \A f \in Emails : lock'[f] = w => q.email = f /\ q.pc \in InTransaction /\ requests'[f] # NoRequest
  BY <1>2
<1> QED BY <1>2, <1>3, <1>5, <1>7, <1>8, <1>9, <1>10, StepKeepsTypes

LEMMA UnlockSame ==
  ASSUME TypeOK, NEW w, ~ \E e \in Emails : lock[e] = w, lock' = lock
  PROVE  Unlock({w})
<1>1. lock = [e \in Emails |-> lock[e]]
  BY DEF TypeOK
<1>2. \A e \in Emails : lock[e] = IF lock[e] \in {w} THEN NoWorker ELSE lock[e]
  OBVIOUS
<1> QED BY <1>1, <1>2 DEF Unlock

(***************************************************************************)
(* The steps of a worker, one lemma each.                                  *)
(***************************************************************************)
LEMMA ReserveStep == ASSUME TypeOK, NEW w \in Workers, Reserve(w) PROVE TypeOK'
<1> DEFINE r == req[w]
<1>1. /\ r \in Served /\ ServedOK(w) /\ r.email \in Emails /\ r.row \in RequestRow
      /\ r.now \in 0..MaxClock /\ r.tries \in 0..Attempts - 1 /\ deadline[r.email] \in Nat
  BY WorkerFacts
<1>2. r.pc = "reserve" /\ UNCHANGED <<requests, accounts, lock, culled, letters, clock, minted>>
  BY DEF Reserve
<1>3. clock \in 0..MaxClock /\ r.now <= clock /\ MaxClock \in Nat /\ Cooldown \in Nat
  BY <1>1, SignupAssumption DEF TypeOK, ServedOK, SignupAssumption
<1>4. r.op \in {"submit", "resend"}
  BY <1>1, <1>2, PhasesOf DEF ServedOK, Served
<1>5. ~ \E e \in Emails : lock[e] = w
  BY <1>2, WorkerFacts DEF TypeOK, InTransaction
<1>6. ASSUME req' = [req EXCEPT ![w] = Idle], deadline' = deadline PROVE TypeOK'
  <2>1. Unlock({w})
    BY <1>5, <1>2, UnlockSame
  <2> QED BY <2>1, <1>2, <1>6, AbandonStep DEF Abandon, Become
<1>7. PICK now \in r.now..clock :
        \/ /\ deadline[r.email] <= now
           /\ deadline' = [deadline EXCEPT ![r.email] = Pause(now)]
           /\ Become(w, [r EXCEPT !.pc = IF r.op = "submit" THEN "select" ELSE "mail",
                                  !.now = now, !.tries = 0])
        \/ /\ deadline[r.email] > now /\ deadline[r.email] <= clock
           /\ Become(w, IF r.tries = 0 THEN [r EXCEPT !.now = clock, !.tries = 1] ELSE Idle)
           /\ UNCHANGED deadline
        \/ /\ deadline[r.email] > clock
           /\ Become(w, Idle)
           /\ UNCHANGED deadline
  BY DEF Reserve
<1>8. CASE deadline[r.email] <= now /\ deadline' = [deadline EXCEPT ![r.email] = Pause(now)]
           /\ Become(w, [r EXCEPT !.pc = IF r.op = "submit" THEN "select" ELSE "mail",
                                  !.now = now, !.tries = 0])
  <2> DEFINE pc == IF r.op = "submit" THEN "select" ELSE "mail"
  <2>1. pc \in Pcs /\ pc \in Phases(r.op) /\ pc # "idle" /\ (pc = "mail" => r.op = "resend") /\ pc # "commit"
    BY <1>4, PhasesOf DEF Pcs
  <2>2. [r EXCEPT !.pc = pc, !.now = now, !.tries = 0] = Moved(r, pc, now, 0, r.row)
    BY <1>1 DEF Moved, Served
  <2>3. req' = [req EXCEPT ![w] = Moved(r, pc, now, 0, r.row)]
    BY <1>8, <2>2 DEF Become
  <2>4. deadline' \in [Emails -> 0..MaxClock + Cooldown]
    <3>1. Pause(now) \in 0..MaxClock + Cooldown
      BY <1>1, <1>3 DEF Pause
    <3> QED BY <1>8, <3>1 DEF TypeOK
  <2>5. now \in 0..MaxClock /\ r.now <= now /\ now <= clock
    BY <1>1, <1>3
  <2>6. 0 \in 0..Attempts - 1
    BY DEF Attempts
  <2>7. lock' \in [Emails -> Workers \cup {NoWorker}]
    BY <1>2 DEF TypeOK
  <2> HIDE DEF pc
  <2> QED BY <1>1, <1>2, <1>4, <1>5, <2>1, <2>3, <2>4, <2>5, <2>6, <2>7, MoveStep
<1>9. CASE /\ deadline[r.email] > now /\ deadline[r.email] <= clock
           /\ Become(w, IF r.tries = 0 THEN [r EXCEPT !.now = clock, !.tries = 1] ELSE Idle)
           /\ UNCHANGED deadline
  <2>1. CASE r.tries = 0
    <3>1. [r EXCEPT !.now = clock, !.tries = 1] = Moved(r, "reserve", clock, 1, r.row)
      BY <1>1, <1>2 DEF Moved, Served
    <3>2. req' = [req EXCEPT ![w] = Moved(r, "reserve", clock, 1, r.row)]
      BY <1>9, <2>1, <3>1 DEF Become
    <3>3. 1 \in 0..Attempts - 1 /\ "reserve" \in Pcs
      BY DEF Attempts, Pcs
    <3>4. "reserve" \in Phases(r.op)
      BY <1>4, PhasesOf
    <3>5. lock' \in [Emails -> Workers \cup {NoWorker}] /\ deadline' \in [Emails -> 0..MaxClock + Cooldown]
      BY <1>2, <1>9 DEF TypeOK
    <3>6. clock <= clock
      BY <1>3
    <3> QED BY <1>1, <1>2, <1>3, <1>4, <1>5, <3>2, <3>3, <3>4, <3>5, <3>6, MoveStep
  <2>2. CASE r.tries # 0
    BY <1>6, <1>9, <2>2 DEF Become
  <2> QED BY <2>1, <2>2
<1> QED BY <1>6, <1>7, <1>8, <1>9 DEF Become

\* Steps that go on to the next statement and may lock their own address.
LEMMA GotoStep ==
  ASSUME TypeOK, NEW w \in Workers, NEW pc \in Pcs, Goto(w, pc),
         UNCHANGED <<requests, accounts, deadline, culled, letters, clock, minted>>,
         Locks(w, req[w].email) \/ lock' = lock,
         req[w].op \in {"submit", "confirm"}, pc \in Phases(req[w].op),
         pc \in InTransaction, req[w].op = "submit" => pc # "commit",
         req[w].pc \in InTransaction \cup {"select"}
  PROVE  TypeOK'
<1> DEFINE r == req[w]
<1>1. /\ r \in Served /\ ServedOK(w) /\ r.email \in Emails /\ r.row \in RequestRow
      /\ r.now \in 0..MaxClock /\ r.tries \in 0..Attempts - 1
  BY WorkerFacts
<1>2. req' = [req EXCEPT ![w] = Moved(r, pc, r.now, r.tries, r.row)]
  BY <1>1, GotoFields DEF Goto, Become
<1>3. /\ lock' \in [Emails -> Workers \cup {NoWorker}]
      /\ \A f \in Emails : lock'[f] # lock[f] => lock[f] \in {NoWorker, w} /\ lock'[f] \in {NoWorker, w}
      /\ \A f \in Emails : lock'[f] = w => f = r.email /\ requests[f] # NoRequest
      /\ lock[r.email] = w => lock'[r.email] = w
  <2>1. \A f \in Emails : lock[f] = w => f = r.email /\ requests[f] # NoRequest
    BY WorkerFacts DEF TypeOK
  <2>2. CASE Locks(w, r.email)
    BY <1>1, <2>1, <2>2, WorkerFacts, LocksKeeps
  <2>3. CASE lock' = lock
    BY <2>1, <2>3 DEF TypeOK
  <2> QED BY <2>2, <2>3
<1>4. r.now <= r.now /\ r.now <= clock /\ (r.op = "confirm" => lock[r.email] = w)
  <2>1. r.now \in Int
    BY <1>1
  <2> QED BY <1>1, <2>1 DEF ServedOK
<1>5. deadline' \in [Emails -> 0..MaxClock + Cooldown]
  BY DEF TypeOK
<1>6. /\ r.pc # "idle" /\ r.pc # "mail" /\ pc # "idle" /\ pc # "mail"
      /\ ~ (r.op = "submit" /\ pc = "commit")
  BY DEF InTransaction
<1>7. \A f \in Emails : lock'[f] = w => f = r.email /\ pc \in InTransaction /\ requests[f] # NoRequest
  BY <1>3
<1>8. /\ r.op \in {"resend", "confirm"} => r.row = r.row
      /\ r.op = "confirm" => lock'[r.email] = w
  BY <1>3, <1>4
<1> QED BY <1>1, <1>2, <1>3, <1>4, <1>5, <1>6, <1>7, <1>8, MoveStep

\* The operation of a worker at a statement that only one operation has.
LEMMA OpOf ==
  ASSUME TypeOK, NEW w \in Workers
  PROVE  /\ req[w].pc \in {"select", "delete", "insert"} => req[w].op = "submit"
         /\ req[w].pc = "create" => req[w].op = "confirm"
         /\ req[w].pc = "mail" => req[w].op \in {"submit", "resend"}
         /\ req[w].pc = "idle" <=> req[w].op = "none"
<1>1. req[w].op \in {"none", "submit", "resend", "confirm"} /\ req[w].pc \in Phases(req[w].op)
  BY WorkerFacts DEF Served, ServedOK
<1> QED BY <1>1, PhasesOf

LEMMA SelectStep == ASSUME TypeOK, NEW w \in Workers, Select(w) PROVE TypeOK'
<1>1. req[w].pc = "select" /\ Locks(w, req[w].email) /\ Goto(w, "check")
      /\ UNCHANGED <<requests, accounts, deadline, culled, letters, clock, minted>>
  BY DEF Select
<1>2. "check" \in Pcs /\ "check" \in InTransaction /\ "check" \in Phases("submit")
  BY PhasesOf DEF Pcs, InTransaction
<1> QED BY <1>1, <1>2, OpOf, GotoStep

LEMMA DeleteStep == ASSUME TypeOK, NEW w \in Workers, Delete(w) PROVE TypeOK'
<1>1. req[w].pc = "delete" /\ Locks(w, req[w].email) /\ Goto(w, "insert")
      /\ UNCHANGED <<requests, accounts, deadline, culled, letters, clock, minted>>
  BY DEF Delete
<1>2. /\ "insert" \in Pcs /\ "insert" \in InTransaction /\ "insert" \in Phases("submit")
      /\ "delete" \in InTransaction
  BY PhasesOf DEF Pcs, InTransaction
<1> QED BY <1>1, <1>2, OpOf, GotoStep

LEMMA CheckStep == ASSUME TypeOK, NEW w \in Workers, Check(w) PROVE TypeOK'
<1>1. req[w].op = "submit" /\ req[w].pc = "check" /\ UNCHANGED <<deadline, culled, letters, clock, minted>>
  BY DEF Check, At
<1>2. CASE Available(req[w].email, req[w].row.phone)
  <2>1. Goto(w, "delete") /\ UNCHANGED <<requests, accounts, lock>>
    BY <1>2 DEF Check
  <2>2. /\ "delete" \in Pcs /\ "delete" \in InTransaction /\ "delete" \in Phases("submit")
        /\ "check" \in InTransaction
    BY PhasesOf DEF Pcs, InTransaction
  <2> QED BY <1>1, <2>1, <2>2, GotoStep
<1>3. CASE ~ Available(req[w].email, req[w].row.phone)
  BY <1>1, <1>3, AbandonStep DEF Check
<1> QED BY <1>2, <1>3

LEMMA ConfirmCheckStep == ASSUME TypeOK, NEW w \in Workers, ConfirmCheck(w) PROVE TypeOK'
<1>1. req[w].op = "confirm" /\ req[w].pc = "check" /\ UNCHANGED <<deadline, culled, letters, clock, minted>>
  BY DEF ConfirmCheck, At
<1>2. CASE Available(req[w].email, req[w].row.phone)
  <2>1. Goto(w, "create") /\ UNCHANGED <<requests, accounts, lock>>
    BY <1>2 DEF ConfirmCheck
  <2>2. /\ "create" \in Pcs /\ "create" \in InTransaction /\ "create" \in Phases("confirm")
        /\ "check" \in InTransaction
    BY PhasesOf DEF Pcs, InTransaction
  <2> QED BY <1>1, <2>1, <2>2, GotoStep
<1>3. CASE ~ Available(req[w].email, req[w].row.phone)
  BY <1>1, <1>3, AbandonStep DEF ConfirmCheck
<1> QED BY <1>2, <1>3

LEMMA ConfirmCreateStep == ASSUME TypeOK, NEW w \in Workers, ConfirmCreate(w) PROVE TypeOK'
<1>1. req[w].pc = "create" /\ UNCHANGED <<deadline, culled, letters, clock, minted>>
  BY DEF ConfirmCreate
<1>2. CASE ~ accounts[req[w].email].exists
  <2>1. Goto(w, "commit") /\ UNCHANGED <<requests, accounts, lock>>
    BY <1>2 DEF ConfirmCreate
  <2>2. /\ "commit" \in Pcs /\ "commit" \in InTransaction /\ "commit" \in Phases("confirm")
        /\ "create" \in InTransaction
    BY PhasesOf DEF Pcs, InTransaction
  <2> QED BY <1>1, <2>1, <2>2, OpOf, GotoStep
<1>3. CASE accounts[req[w].email].exists
  BY <1>1, <1>3, AbandonStep DEF ConfirmCreate
<1> QED BY <1>2, <1>3

LEMMA InsertStep == ASSUME TypeOK, NEW w \in Workers, Insert(w) PROVE TypeOK'
<1> DEFINE r == req[w]
           e == r.email
<1>1. /\ r \in Served /\ ServedOK(w) /\ e \in Emails /\ r.row \in RequestRow
      /\ r.now \in 0..MaxClock /\ r.tries \in 0..Attempts - 1 /\ r.op = "submit"
  BY WorkerFacts, OpOf DEF Insert
<1>2. /\ r.pc = "insert" /\ \A v \in Workers \ {w} : ~ Rewrites(v, e)
      /\ UNCHANGED <<requests, accounts, deadline, culled, letters, clock, minted>>
  BY DEF Insert
<1>3. r.now <= clock /\ clock \in 0..MaxClock /\ r.now \in Int
  BY <1>1 DEF ServedOK, TypeOK
<1>4. deadline' \in [Emails -> 0..MaxClock + Cooldown]
  BY <1>2 DEF TypeOK
<1>5. CASE requests[e] = NoRequest \/ lock[e] = w
  <2> DEFINE row == [r.row EXCEPT !.created = clock]
  <2>1. row \in RequestRow
    BY <1>1, <1>3 DEF RequestRow
  <2>2. [r EXCEPT !.pc = "commit", !.row.created = clock] = Moved(r, "commit", r.now, r.tries, row)
    BY <1>1 DEF Moved, Served
  <2>3. req' = [req EXCEPT ![w] = Moved(r, "commit", r.now, r.tries, row)] /\ lock' = lock
    BY <1>5, <2>2 DEF Insert, Become
  <2>4. \A v \in Workers \ {w} : At(v, "submit", "commit") => req[v].email # e
    BY <1>2 DEF Rewrites
  <2>5. /\ lock' \in [Emails -> Workers \cup {NoWorker}]
        /\ \A f \in Emails : lock'[f] = w => f = e /\ requests[f] # NoRequest
    BY <2>3, WorkerFacts DEF TypeOK
  <2>6. "commit" \in Pcs /\ "commit" \in Phases("submit") /\ "commit" \in InTransaction
    BY PhasesOf DEF Pcs, InTransaction
  <2>7. \A f \in Emails : lock'[f] # lock[f] => lock[f] \in {NoWorker, w} /\ lock'[f] \in {NoWorker, w}
    BY <2>3
  <2>8. requests[e] = NoRequest \/ lock'[e] = w
    BY <1>5, <2>3
  <2>9. \A f \in Emails : lock'[f] = w => f = e /\ "commit" \in InTransaction /\ requests[f] # NoRequest
    BY <2>5, <2>6
  <2>10. r.now <= r.now
    BY <1>3
  <2> HIDE DEF row
  <2> QED BY <1>1, <1>2, <1>3, <1>4, <2>1, <2>3, <2>4, <2>5, <2>6, <2>7, <2>8, <2>9, <2>10, MoveStep
<1>6. CASE ~ (requests[e] = NoRequest \/ lock[e] = w)
  <2>1. Unlock({w}) /\ Become(w, IF r.tries + 1 < Attempts
                                 THEN [r EXCEPT !.pc = "select", !.tries = @ + 1]
                                 ELSE Idle)
    BY <1>6 DEF Insert
  <2>2. CASE r.tries + 1 < Attempts
    <3>1. [r EXCEPT !.pc = "select", !.tries = @ + 1] = Moved(r, "select", r.now, r.tries + 1, r.row)
      BY <1>1 DEF Moved, Served
    <3>2. req' = [req EXCEPT ![w] = Moved(r, "select", r.now, r.tries + 1, r.row)]
      BY <2>1, <2>2, <3>1 DEF Become
    <3>3. r.tries + 1 \in 0..Attempts - 1
      BY <1>1, <2>2 DEF Attempts
    <3>4. "select" \in Pcs /\ "select" \in Phases("submit")
      BY PhasesOf DEF Pcs
    <3>5. /\ lock' \in [Emails -> Workers \cup {NoWorker}]
          /\ \A f \in Emails : lock'[f] # w /\ (lock'[f] # lock[f] => lock[f] = w /\ lock'[f] = NoWorker)
      BY <2>1, UnlockKeeps
    <3>6. r.now <= r.now
      BY <1>3
    <3>7. \A f \in Emails : lock'[f] # lock[f] => lock[f] \in {NoWorker, w} /\ lock'[f] \in {NoWorker, w}
      BY <3>5
    <3>8. \A f \in Emails :
            lock'[f] = w => f = r.email /\ "select" \in InTransaction /\ requests[f] # NoRequest
      BY <3>5
    <3> QED BY <1>1, <1>2, <1>3, <1>4, <3>2, <3>3, <3>4, <3>5, <3>6, <3>7, <3>8, MoveStep
  <2>3. CASE ~ (r.tries + 1 < Attempts)
    BY <1>2, <2>1, <2>3, AbandonStep DEF Abandon
  <2> QED BY <2>2, <2>3
<1> QED BY <1>5, <1>6

\* A request comes in: an idle worker takes q.
LEMMA BeginStep ==
  ASSUME TypeOK, NEW w \in Workers, NEW op \in {"submit", "resend", "confirm"}, NEW e \in Emails,
         NEW pc \in Pcs, NEW row \in RequestRow,
         req[w].pc = "idle", req' = [req EXCEPT ![w] = [Begin(w, op, e) EXCEPT !.pc = pc, !.row = row]],
         UNCHANGED <<requests, accounts, deadline, culled, letters, clock, minted>>,
         pc \in Phases(op), pc # "mail", pc # "commit",
         op = "submit" => minted + InFlight < MaxTokens,
         op \in {"resend", "confirm"} => row.token \in Tokens,
         op # "confirm" => lock' = lock,
         op = "confirm" => Locks(w, e) /\ row = requests[e] /\ pc \in InTransaction
  PROVE  TypeOK'
<1> DEFINE q == Started(w, op, e, pc, row)
<1>1. clock \in 0..MaxClock /\ clock \in Nat /\ Timeout \in Nat /\ Timeout > 0
  BY SignupAssumption DEF TypeOK, SignupAssumption
<1>2. /\ q \in Served /\ q.pc = pc /\ q.op = op /\ q.email = e /\ q.began = clock
      /\ q.now = clock /\ q.row = row
  BY <1>1, BeginFields
<1>3. req' = [req EXCEPT ![w] = q]
  BY DEF Started
<1> HIDE DEF q
<1>4. req'[w] = q /\ \A v \in Workers \ {w} : req'[v] = req[v]
  BY <1>3 DEF TypeOK
<1>5. \A f \in Emails : lock[f] # w
  BY WorkerFacts DEF TypeOK, InTransaction
<1>6. /\ lock' \in [Emails -> Workers \cup {NoWorker}]
      /\ \A f \in Emails : lock'[f] # lock[f] => lock[f] = NoWorker /\ lock'[f] = w
      /\ \A f \in Emails : lock'[f] = w => f = e /\ op = "confirm" /\ requests[f] # NoRequest
      /\ op = "confirm" => lock'[e] = w
  <2>1. CASE op = "confirm"
    <3>1. requests[e] # NoRequest
      BY <2>1, ValueTypes DEF Tokens
    <3> QED BY <2>1, <3>1, <1>5, LocksKeeps
  <2>2. CASE op # "confirm"
    BY <2>2, <1>5 DEF TypeOK
  <2> QED BY <2>1, <2>2
<1>7. SharedOK'
  BY <1>6 DEF TypeOK, SharedOK, Tokens
<1>8. minted' + InFlight' <= MaxTokens
  <2>1. ~ Flies(req[w])
    BY OpOf DEF Flies
  <2>2. CASE op = "submit"
    BY <1>4, <2>1, <2>2, FlightAdds, MintedFacts
  <2>3. CASE op # "submit"
    <3>1. \A v \in Workers : Flies(req'[v]) => Flies(req[v])
      BY <1>2, <1>4, <2>3 DEF Flies
    <3> QED BY <3>1, FlightShrinks, MintedFacts
  <2> QED BY <2>2, <2>3
<1>9. OthersKeep(w)
  BY <1>6 DEF OthersKeep, TypeOK
<1>10. ServedOK(w)'
  <2>1. ~ At(w, "submit", "commit")'
    BY <1>2, <1>4 DEF At
  <2>2. pc # "idle"
    BY PhasesOf
  <2>3. clock <= clock /\ clock < clock + Timeout
    BY <1>1
  <2>4. op = "confirm" => lock'[e] = w /\ requests[e] = row
    BY <1>6
  <2> QED BY <1>2, <1>4, <2>1, <2>2, <2>3, <2>4 DEF ServedOK, Tokens
<1>11. \A f \in Emails : lock'[f] = w => q.email = f /\ q.pc \in InTransaction /\ requests'[f] # NoRequest
  BY <1>2, <1>6
<1> QED BY <1>2, <1>3, <1>7, <1>8, <1>9, <1>10, <1>11, StepKeepsTypes

LEMMA SubmitStep == ASSUME TypeOK, NEW w \in Workers, Submit(w) PROVE TypeOK'
<1>1. PICK e \in Registering, p \in Phones \cup {NoPhone} :
        Become(w, [Begin(w, "submit", e) EXCEPT !.pc = "reserve", !.row = RequestFields(p)])
  BY DEF Submit
<1>2. e \in Emails /\ 0 \in 0..MaxTokens /\ 0 \in 0..MaxClock
  BY SignupAssumption DEF SignupAssumption
<1>3. RequestFields(p) \in RequestRow
  BY <1>2 DEF RequestFields, Request, RequestRow
<1>4. /\ req[w].pc = "idle" /\ minted + InFlight < MaxTokens
      /\ UNCHANGED <<requests, accounts, lock, deadline, culled, letters, clock, minted>>
  BY DEF Submit
<1>5. "reserve" \in Pcs /\ "reserve" \in Phases("submit")
  BY PhasesOf DEF Pcs
<1>6. req' = [req EXCEPT ![w] = [Begin(w, "submit", e) EXCEPT !.pc = "reserve", !.row = RequestFields(p)]]
  BY <1>1 DEF Become
<1> QED BY <1>2, <1>3, <1>4, <1>5, <1>6, BeginStep

\* A row that is there has a token, and one with a token is there.
LEMMA RowsHaveTokens ==
  ASSUME TypeOK, NEW e \in Emails
  PROVE  /\ requests[e] \in RequestRow
         /\ requests[e] # NoRequest => requests[e].token \in Tokens
         /\ requests[e].token \in letters => requests[e] # NoRequest
<1>1. requests[e] \in RequestRow
  BY DEF TypeOK
<1>2. requests[e] # NoRequest => requests[e].token \in 1..minted
  BY DEF TypeOK
<1>3. minted <= MaxTokens /\ minted \in Nat /\ MaxTokens \in Nat
  BY MintedFacts
<1>4. requests[e] # NoRequest => requests[e].token \in Tokens
  BY <1>2, <1>3 DEF Tokens
<1>5. 0 \notin letters
  BY DEF TypeOK, Tokens
<1> QED BY <1>1, <1>4, <1>5, ValueTypes

LEMMA ResendStep == ASSUME TypeOK, NEW w \in Workers, Resend(w) PROVE TypeOK'
<1>1. PICK e \in Emails :
        /\ requests[e] # NoRequest
        /\ Become(w, [Begin(w, "resend", e) EXCEPT !.pc = "reserve", !.row = requests[e]])
  BY DEF Resend
<1>2. requests[e] \in RequestRow /\ requests[e].token \in Tokens
  BY <1>1, RowsHaveTokens
<1>3. /\ req[w].pc = "idle"
      /\ UNCHANGED <<requests, accounts, lock, deadline, culled, letters, clock, minted>>
  BY DEF Resend
<1>4. "reserve" \in Pcs /\ "reserve" \in Phases("resend")
  BY PhasesOf DEF Pcs
<1>5. req' = [req EXCEPT ![w] = [Begin(w, "resend", e) EXCEPT !.pc = "reserve", !.row = requests[e]]]
  BY <1>1 DEF Become
<1> QED BY <1>2, <1>3, <1>4, <1>5, BeginStep

LEMMA ConfirmSelectStep == ASSUME TypeOK, NEW w \in Workers, ConfirmSelect(w) PROVE TypeOK'
<1>1. PICK e \in Emails :
        /\ requests[e].token \in letters /\ Locks(w, e)
        /\ Become(w, [Begin(w, "confirm", e) EXCEPT !.pc = "check", !.row = requests[e]])
  BY DEF ConfirmSelect
<1>2. requests[e] \in RequestRow /\ requests[e].token \in Tokens
  BY <1>1, RowsHaveTokens
<1>3. /\ req[w].pc = "idle"
      /\ UNCHANGED <<requests, accounts, deadline, culled, letters, clock, minted>>
  BY DEF ConfirmSelect
<1>4. "check" \in Pcs /\ "check" \in Phases("confirm") /\ "check" \in InTransaction
  BY PhasesOf DEF Pcs, InTransaction
<1>5. req' = [req EXCEPT ![w] = [Begin(w, "confirm", e) EXCEPT !.pc = "check", !.row = requests[e]]]
  BY <1>1 DEF Become
<1> QED BY <1>1, <1>2, <1>3, <1>4, <1>5, BeginStep

LEMMA CommitRequestStep == ASSUME TypeOK, NEW w \in Workers, CommitRequest(w) PROVE TypeOK'
<1> DEFINE r == req[w]
           e == r.email
           row == [r.row EXCEPT !.token = minted + 1]
           q == Moved(r, "mail", r.now, r.tries, row)
<1>1. /\ r \in Served /\ ServedOK(w) /\ e \in Emails /\ r.row \in RequestRow
      /\ r.now \in 0..MaxClock /\ r.began \in 0..MaxClock /\ r.tries \in 0..Attempts - 1
  BY WorkerFacts
<1>2. /\ r.op = "submit" /\ r.pc = "commit"
      /\ requests' = [requests EXCEPT ![e] = row] /\ minted' = minted + 1 /\ Unlock({w})
      /\ req' = [req EXCEPT ![w] = [r EXCEPT !.pc = "mail", !.row = row]]
      /\ UNCHANGED <<accounts, deadline, culled, letters, clock>>
  BY DEF CommitRequest, At, Become
<1>3. minted \in Nat /\ InFlight \in Nat /\ MaxTokens \in Nat /\ minted + InFlight <= MaxTokens
  BY MintedFacts
<1>4. "mail" \in Pcs /\ "mail" \in Phases("submit")
  BY PhasesOf DEF Pcs
<1>5. [r EXCEPT !.pc = "mail", !.row = row] = q
  BY <1>1 DEF Moved, Served
<1>6. Flies(r)
  BY <1>2 DEF Flies
<1>7. minted + 1 <= MaxTokens
  <2>1. w \in {v \in Workers : Flies(req[v])}
    BY <1>6
  <2>2. InFlight # 0
    BY <2>1, FlightFinite, FS_EmptySet
  <2> QED BY <2>2, <1>3
<1>8. row \in RequestRow /\ row.token = minted + 1 /\ row.token \in Tokens
  BY <1>1, <1>3, <1>7 DEF RequestRow, Tokens
<1> HIDE DEF row
<1>9. /\ q \in Served /\ q.pc = "mail" /\ q.op = "submit" /\ q.email = e /\ q.began = r.began
      /\ q.now = r.now /\ q.row = row
  BY <1>1, <1>2, <1>4, <1>8, MovedFields
<1>10. req' = [req EXCEPT ![w] = q]
  BY <1>2, <1>5
<1> HIDE DEF q
<1>11. req'[w] = q /\ \A v \in Workers \ {w} : req'[v] = req[v]
  BY <1>10 DEF TypeOK
<1>12. minted' + InFlight' <= MaxTokens
  <2>1. ~ Flies(req'[w])
    BY <1>9, <1>11 DEF Flies
  <2>2. InFlight' \in Nat /\ InFlight' + 1 <= InFlight
    BY <1>6, <1>11, <2>1, FlightLands
  <2> QED BY <1>2, <1>3, <2>2
<1>13. /\ lock' \in [Emails -> Workers \cup {NoWorker}]
       /\ \A f \in Emails : lock'[f] # w /\ (lock[f] # w => lock'[f] = lock[f])
       /\ \A f \in Emails : lock[f] = w => lock'[f] = NoWorker
  BY <1>2, UnlockKeeps
<1>14. SharedOK'
  <2>1. requests' \in [Emails -> RequestRow]
    BY <1>2, <1>8 DEF TypeOK
  <2>2. ASSUME NEW f \in Emails PROVE requests'[f] = NoRequest \/ requests'[f].token \in 1..minted'
    <3>1. CASE f = e
      BY <1>2, <1>3, <1>8, <3>1 DEF TypeOK
    <3>2. CASE f # e
      <4>1. requests'[f] = requests[f] /\ (requests[f] = NoRequest \/ requests[f].token \in 1..minted)
        BY <1>2, <3>2 DEF TypeOK
      <4> QED BY <4>1, <1>2, <1>3
    <3> QED BY <3>1, <3>2
  <2>3. minted' \in Nat
    BY <1>2, <1>3
  <2>4. NoRequest' = NoRequest
    BY DEF NoRequest, Request
  <2> QED BY <1>2, <1>13, <2>1, <2>2, <2>3, <2>4 DEF TypeOK, SharedOK, Tokens
<1>15. OthersKeep(w)
  <2>1. requests[e] = NoRequest \/ lock[e] = w
    BY <1>1, <1>2 DEF ServedOK, At
  <2>2. ASSUME NEW f \in Emails, lock[f] \notin {w, NoWorker}
        PROVE  lock'[f] = lock[f] /\ requests'[f] = requests[f]
    <3>1. requests[f] # NoRequest
      BY <2>2 DEF TypeOK
    <3>2. f # e
      BY <3>1, <2>1, <2>2
    <3> QED BY <1>2, <1>13, <2>2, <3>2 DEF TypeOK
  <2>3. ASSUME NEW v \in Workers \ {w}, At(v, "submit", "commit"), requests[req[v].email] = NoRequest
        PROVE  requests'[req[v].email] = NoRequest
    <3>1. req[v].email # e
      BY <1>1, <1>2, <2>3 DEF ServedOK, At
    <3> QED BY <1>2, <2>3, <3>1, WorkerFacts DEF TypeOK
  <2> QED BY <1>13, <2>2, <2>3 DEF OthersKeep
<1>16. ServedOK(w)'
  <2>1. ~ At(w, "submit", "commit")'
    BY <1>9, <1>11 DEF At
  <2>2. /\ r.began <= r.now /\ r.now <= clock /\ clock < r.began + Timeout
    BY <1>1, <1>2 DEF ServedOK
  <2>3. "mail" # "idle" /\ "submit" # "confirm"
    OBVIOUS
  <2> QED BY <1>2, <1>4, <1>8, <1>9, <1>11, <2>1, <2>2, <2>3 DEF ServedOK, Tokens
<1> QED BY <1>2, <1>9, <1>10, <1>12, <1>13, <1>14, <1>15, <1>16, StepKeepsTypes

LEMMA MailStep == ASSUME TypeOK, NEW w \in Workers, Mail(w) PROVE TypeOK'
<1>1. /\ req[w].pc = "mail" /\ req' = [req EXCEPT ![w] = Idle]
      /\ letters' \in {letters, letters \cup {req[w].row.token}}
      /\ UNCHANGED <<requests, accounts, lock, deadline, culled, clock, minted>>
  BY DEF Mail, Become
<1>2. req[w].row.token \in Tokens
  BY <1>1, WorkerFacts DEF ServedOK
<1>3. letters' \subseteq Tokens
  BY <1>1, <1>2 DEF TypeOK
<1>4. \A f \in Emails : lock[f] # w
  BY <1>1, WorkerFacts DEF TypeOK, InTransaction
<1>5. req'[w] = Idle /\ \A v \in Workers \ {w} : req'[v] = req[v]
  BY <1>1 DEF TypeOK
<1>6. minted' + InFlight' <= MaxTokens
  <2>1. \A v \in Workers : Flies(req'[v]) => Flies(req[v])
    BY <1>5, ValueTypes DEF Flies
  <2> QED BY <2>1, <1>1, FlightShrinks, MintedFacts
<1>7. SharedOK'
  BY <1>1, <1>3 DEF TypeOK, SharedOK, Tokens
<1>8. OthersKeep(w)
  BY <1>1 DEF OthersKeep, TypeOK
<1>9. ServedOK(w)' /\ Idle \in Served
  BY <1>1, IdleOK, ValueTypes
<1>10. \A f \in Emails : lock'[f] # w
  BY <1>1, <1>4
<1> QED BY <1>1, <1>6, <1>7, <1>8, <1>9, <1>10, StepKeepsTypes

LEMMA CommitAccountStep == ASSUME TypeOK, NEW w \in Workers, CommitAccount(w) PROVE TypeOK'
<1> DEFINE r == req[w]
           e == r.email
           account == Account(r.row.token, r.row.phone)
<1>1. /\ ServedOK(w) /\ e \in Emails /\ r.row \in RequestRow
  BY WorkerFacts
<1>2. /\ r.op = "confirm" /\ r.pc = "commit" /\ Unlock({w})
      /\ accounts' = [accounts EXCEPT ![e] = account]
      /\ requests' = [requests EXCEPT ![e] = IF @.token = r.row.token THEN NoRequest ELSE @]
      /\ req' = [req EXCEPT ![w] = Idle]
      /\ UNCHANGED <<deadline, culled, letters, clock, minted>>
  BY DEF CommitAccount, At, Become
<1>3. lock[e] = w /\ requests[e] = r.row /\ w # NoWorker
  BY <1>1, <1>2, WorkerFacts DEF ServedOK
<1>4. requests' = [requests EXCEPT ![e] = NoRequest]
  BY <1>2, <1>3
<1>5. /\ lock' \in [Emails -> Workers \cup {NoWorker}]
      /\ \A f \in Emails : lock'[f] # w /\ (lock[f] # w => lock'[f] = lock[f])
      /\ \A f \in Emails : lock[f] = w => lock'[f] = NoWorker
  BY <1>2, UnlockKeeps
<1>6. req'[w] = Idle /\ \A v \in Workers \ {w} : req'[v] = req[v]
  BY <1>2 DEF TypeOK
<1>7. minted' + InFlight' <= MaxTokens
  <2>1. \A v \in Workers : Flies(req'[v]) => Flies(req[v])
    BY <1>6, ValueTypes DEF Flies
  <2> QED BY <2>1, <1>2, FlightShrinks, MintedFacts
<1>8. SharedOK'
  <2>1. account \in AccountRow
    BY <1>1 DEF Account, AccountRow, RequestRow
  <2> HIDE DEF account
  <2>2. accounts' \in [Emails -> AccountRow]
    BY <1>2, <2>1 DEF TypeOK
  <2>3. /\ requests' \in [Emails -> RequestRow]
        /\ \A f \in Emails : requests'[f] = NoRequest \/ requests'[f] = requests[f]
    BY <1>4, ValueTypes DEF TypeOK
  <2>4. NoRequest' = NoRequest
    BY DEF NoRequest, Request
  <2> QED BY <1>2, <1>5, <2>2, <2>3, <2>4 DEF TypeOK, SharedOK, Tokens
<1>9. OthersKeep(w)
  <2>1. \A f \in Emails \ {e} : requests'[f] = requests[f]
    BY <1>4 DEF TypeOK
  <2>2. requests'[e] = NoRequest
    BY <1>1, <1>4 DEF TypeOK
  <2>3. \A v \in Workers : req[v].email \in Emails
    BY WorkerFacts
  <2> QED BY <1>3, <1>5, <2>1, <2>2, <2>3 DEF OthersKeep
<1>10. ServedOK(w)' /\ Idle \in Served
  BY <1>2, IdleOK, ValueTypes
<1> QED BY <1>2, <1>5, <1>7, <1>8, <1>9, <1>10, StepKeepsTypes

(***************************************************************************)
(* Everybody else.                                                         *)
(***************************************************************************)
\* Steps that leave the requests of the workers and the locks alone.
LEMMA OutsideStep ==
  ASSUME TypeOK, SharedOK', UNCHANGED <<lock, clock, minted, req>>,
         \A e \in Emails : lock[e] # NoWorker => requests'[e] = requests[e],
         \A e \in Emails : requests'[e] \in {requests[e], NoRequest}
  PROVE  TypeOK'
<1>1. InFlight' = InFlight
  BY DEF InFlight
<1>2. minted' + InFlight' <= MaxTokens
  BY <1>1, MintedFacts
<1>3. Idle = Idle' /\ NoRequest = NoRequest' /\ Tokens' = Tokens
  BY DEF Idle, NoRequest, Request, Tokens
<1>4. ASSUME NEW w \in Workers PROVE ServedOK(w)'
  <2>1. ServedOK(w) /\ req[w].email \in Emails /\ w # NoWorker
    BY WorkerFacts
  <2>2. \A v \in Workers : At(v, "submit", "commit")' = At(v, "submit", "commit")
    BY DEF At
  <2>3. lock[req[w].email] = w => requests'[req[w].email] = requests[req[w].email]
    BY <2>1
  <2> QED BY <1>3, <2>1, <2>2, <2>3 DEF ServedOK
<1> QED BY <1>2, <1>3, <1>4 DEF TypeOK, SharedOK

LEMMA PurgeStep == ASSUME TypeOK, NEW e \in Emails, Purge(e) PROVE TypeOK'
<1>1. /\ lock[e] = NoWorker /\ requests' = [requests EXCEPT ![e] = NoRequest]
      /\ UNCHANGED <<accounts, lock, deadline, culled, letters, clock, minted, req>>
  BY DEF Purge
<1>2. /\ requests' \in [Emails -> RequestRow]
      /\ \A f \in Emails : requests'[f] \in {requests[f], NoRequest}
      /\ \A f \in Emails : lock[f] # NoWorker => requests'[f] = requests[f]
  BY <1>1, ValueTypes DEF TypeOK
<1>3. NoRequest' = NoRequest
  BY DEF NoRequest, Request
<1>4. SharedOK'
  BY <1>1, <1>2, <1>3 DEF TypeOK, SharedOK, Tokens
<1> QED BY <1>1, <1>2, <1>4, OutsideStep

LEMMA AccountsOnlyStep ==
  ASSUME TypeOK, accounts' \in [Emails -> AccountRow],
         UNCHANGED <<requests, lock, deadline, culled, letters, clock, minted, req>>
  PROVE  TypeOK'
<1>1. SharedOK'
  BY DEF TypeOK, SharedOK, Tokens, NoRequest, Request
<1> QED BY <1>1, OutsideStep

LEMMA AdminSteps ==
  ASSUME TypeOK, NEW e \in Emails, CreateByHand(e) \/ SetPhone(e) \/ DeleteAccount(e)
  PROVE  TypeOK'
<1>1. CASE CreateByHand(e)
  <2>1. Account(ByHand, NoPhone) \in AccountRow
    BY SignupAssumption DEF Account, AccountRow, ByHand, SignupAssumption
  <2>2. accounts' \in [Emails -> AccountRow]
    BY <1>1, <2>1 DEF CreateByHand, TypeOK
  <2> QED BY <1>1, <2>2, AccountsOnlyStep DEF CreateByHand
<1>2. CASE SetPhone(e)
  <2>1. PICK p \in Phones \cup {NoPhone} : accounts' = [accounts EXCEPT ![e].phone = p]
    BY <1>2 DEF SetPhone
  <2>2. accounts[e] \in AccountRow
    BY DEF TypeOK
  <2>3. [accounts[e] EXCEPT !.phone = p] \in AccountRow
    BY <2>2 DEF AccountRow
  <2>4. accounts' = [accounts EXCEPT ![e] = [accounts[e] EXCEPT !.phone = p]]
    BY <2>1 DEF TypeOK
  <2>5. accounts' \in [Emails -> AccountRow]
    BY <2>3, <2>4 DEF TypeOK
  <2> QED BY <1>2, <2>5, AccountsOnlyStep DEF SetPhone
<1>3. CASE DeleteAccount(e)
  <2>1. accounts' \in [Emails -> AccountRow]
    BY <1>3, ValueTypes DEF DeleteAccount, TypeOK
  <2> QED BY <1>3, <2>1, AccountsOnlyStep DEF DeleteAccount
<1> QED BY <1>1, <1>2, <1>3

LEMMA CullStep == ASSUME TypeOK, NEW e \in Emails, Cull(e) PROVE TypeOK'
<1>1. /\ deadline' = [deadline EXCEPT ![e] = NoEntry] /\ culled' = TRUE
      /\ UNCHANGED <<requests, accounts, lock, letters, clock, minted, req>>
  BY DEF Cull
<1>2. deadline' \in [Emails -> 0..MaxClock + Cooldown]
  BY <1>1, SignupAssumption DEF TypeOK, NoEntry, SignupAssumption
<1>3. SharedOK'
  BY <1>1, <1>2 DEF TypeOK, SharedOK, Tokens, NoRequest, Request
<1> QED BY <1>1, <1>3, OutsideStep

\* The tick kills whoever has become too old, so the others stay young.
LEMMA TickStep == ASSUME TypeOK, Tick PROVE TypeOK'
<1> DEFINE old == {w \in Workers : Overdue(w)}
<1>1. /\ clock' = clock + 1 /\ clock < MaxClock
      /\ req' = [w \in Workers |-> IF Overdue(w) THEN Idle ELSE req[w]]
      /\ lock' = [e \in Emails |-> IF lock[e] \in old THEN NoWorker ELSE lock[e]]
      /\ UNCHANGED <<requests, accounts, deadline, culled, letters, minted>>
  BY DEF Tick, Unlock
<1>2. clock \in 0..MaxClock /\ clock \in Nat /\ MaxClock \in Nat
  BY SignupAssumption DEF TypeOK, SignupAssumption
<1>3. clock' \in 0..MaxClock
  BY <1>1, <1>2
<1>4. \A w \in Workers : req'[w] = IF w \in old THEN Idle ELSE req[w]
  BY <1>1
<1>5. \A e \in Emails : lock'[e] = IF lock[e] \in old THEN NoWorker ELSE lock[e]
  BY <1>1
<1>6. lock' \in [Emails -> Workers \cup {NoWorker}]
  BY <1>1 DEF TypeOK
<1>7. req' \in [Workers -> Served]
  <2>1. \A w \in Workers : (IF Overdue(w) THEN Idle ELSE req[w]) \in Served
    BY WorkerFacts, ValueTypes
  <2> QED BY <1>1, <2>1
<1>8. minted' + InFlight' <= MaxTokens
  <2>1. \A w \in Workers : Flies(req'[w]) => Flies(req[w])
    BY <1>4, ValueTypes DEF Flies
  <2> QED BY <2>1, <1>1, FlightShrinks, MintedFacts
<1>9. ASSUME NEW e \in Emails, lock'[e] # NoWorker
      PROVE  requests'[e] # NoRequest /\ req'[lock'[e]].email = e /\ req'[lock'[e]].pc \in InTransaction
  <2>1. lock'[e] = lock[e] /\ lock[e] \notin old /\ lock[e] \in Workers
    BY <1>5, <1>9 DEF TypeOK
  <2>2. req'[lock[e]] = req[lock[e]]
    BY <1>4, <2>1
  <2> QED BY <1>1, <1>9, <2>1, <2>2 DEF TypeOK
<1>10. ASSUME NEW w \in Workers PROVE ServedOK(w)'
  <2>1. Idle = Idle' /\ NoRequest = NoRequest' /\ Tokens' = Tokens
    BY DEF Idle, NoRequest, Request, Tokens
  <2>2. CASE w \in old
    <3>1. req'[w] = Idle
      BY <1>4, <2>2
    <3>2. ~ At(w, "submit", "commit")'
      BY <3>1, ValueTypes DEF At
    <3> QED BY <1>1, <1>2, <2>1, <3>1, <3>2, ValueTypes, PhasesOf DEF ServedOK
  <2>3. CASE w \notin old
    <3> DEFINE r == req[w]
    <3>1. /\ req'[w] = r /\ ServedOK(w) /\ r.email \in Emails /\ w # NoWorker
          /\ r.began \in 0..MaxClock /\ r.now \in 0..MaxClock
      BY <1>4, <2>3, WorkerFacts
    <3>2. r.now <= clock' /\ (r.pc # "idle" => clock' < r.began + Timeout)
      <4>1. r.pc # "idle" => ~ (clock + 1 >= r.began + Timeout)
        BY <2>3 DEF Overdue
      <4>2. Timeout \in Nat /\ r.now <= clock
        BY <3>1, SignupAssumption DEF SignupAssumption, ServedOK
      <4> QED BY <1>1, <1>2, <3>1, <4>1, <4>2
    <3>3. lock[r.email] = w => lock'[r.email] = w
      BY <1>5, <2>3, <3>1
    <3>4. At(w, "submit", "commit")' = At(w, "submit", "commit")
      BY <3>1 DEF At
    <3>5. \A v \in Workers : At(v, "submit", "commit")' => At(v, "submit", "commit") /\ req'[v] = req[v]
      BY <1>4, ValueTypes DEF At
    <3> HIDE DEF r
    <3>6. r = req[w]
      BY DEF r
    <3> QED BY <1>1, <2>1, <3>1, <3>2, <3>3, <3>4, <3>5, <3>6 DEF ServedOK
  <2> QED BY <2>2, <2>3
<1>11. \A e \in Emails : requests'[e] = NoRequest' \/ requests'[e].token \in 1..minted'
  BY <1>1 DEF TypeOK, NoRequest, Request
<1> HIDE DEF old
<1>12. letters' \subseteq Tokens'
  BY <1>1 DEF TypeOK, Tokens
<1>13. NoRequest = NoRequest'
  BY DEF NoRequest, Request
<1> QED BY <1>1, <1>3, <1>6, <1>7, <1>8, <1>9, <1>10, <1>11, <1>12, <1>13, MintedFacts DEF TypeOK

(***************************************************************************)
(* Signup.TypeOK is an invariant.                                          *)
(***************************************************************************)
LEMMA InitTyped == Init => TypeOK
<1> SUFFICES ASSUME Init PROVE TypeOK
  OBVIOUS
<1> USE SignupAssumption DEF SignupAssumption
<1>1. \A w \in Workers : req[w] = Idle /\ w # NoWorker
  BY DEF Init
<1>2. InFlight = 0
  <2>1. {w \in Workers : req[w].op = "submit" /\ req[w].pc # "mail"} = {}
    BY <1>1, ValueTypes
  <2> QED BY <2>1, FS_EmptySet DEF InFlight
<1>3. \A w \in Workers : ServedOK(w)
  <2> SUFFICES ASSUME NEW w \in Workers PROVE ServedOK(w)
    OBVIOUS
  <2>1. ~ At(w, "submit", "commit")
    BY <1>1, ValueTypes DEF At
  <2> QED BY <1>1, <2>1, ValueTypes, PhasesOf DEF ServedOK, Init
<1>4. minted = 0 /\ clock = 0 /\ letters = {} /\ culled = FALSE
  BY DEF Init
<1>5. /\ requests \in [Emails -> RequestRow] /\ accounts \in [Emails -> AccountRow]
      /\ \A e \in Emails : requests[e] = NoRequest /\ lock[e] = NoWorker
  BY ValueTypes DEF Init
<1>6. deadline \in [Emails -> 0..MaxClock + Cooldown] /\ lock \in [Emails -> Workers \cup {NoWorker}]
  BY DEF Init, NoEntry
<1>7. req \in [Workers -> Served]
  BY ValueTypes DEF Init
<1>8. 0 \in 0..MaxClock /\ 0 + 0 <= MaxTokens /\ {} \subseteq Tokens
  OBVIOUS
<1> HIDE DEF SignupAssumption
<1> QED BY <1>2, <1>3, <1>4, <1>5, <1>6, <1>7, <1>8 DEF TypeOK

LEMMA StutterTyped == ASSUME TypeOK, UNCHANGED vars PROVE TypeOK'
<1>1. SharedOK'
  BY DEF TypeOK, SharedOK, Tokens, vars, NoRequest, Request
<1> QED BY <1>1, OutsideStep DEF vars

LEMMA NextTyped == TypeOK /\ [Next]_vars => TypeOK'
<1> SUFFICES ASSUME TypeOK, [Next]_vars PROVE TypeOK'
  OBVIOUS
<1>1. ASSUME NEW w \in Workers, Serve(w) PROVE TypeOK'
  BY <1>1, SubmitStep, ResendStep, ReserveStep, SelectStep, CheckStep, DeleteStep, InsertStep,
     CommitRequestStep, MailStep, ConfirmSelectStep, ConfirmCheckStep, ConfirmCreateStep,
     CommitAccountStep DEF Serve
<1>2. ASSUME NEW w \in Workers, Crash(w) PROVE TypeOK'
  BY <1>2, AbandonStep DEF Crash
<1>3. ASSUME NEW e \in Emails, Purge(e) \/ CreateByHand(e) \/ SetPhone(e) \/ DeleteAccount(e) \/ Cull(e)
      PROVE  TypeOK'
  BY <1>3, PurgeStep, AdminSteps, CullStep
<1> QED BY <1>1, <1>2, <1>3, TickStep, StutterTyped DEF Next

\* Signup.TypeOK: the types, who may lock a request row and when, how old a request
\* can get, and what a confirmation and the commit of a submission rely on.
THEOREM TypeCorrect == Spec => []TypeOK
<1> QED BY InitTyped, NextTyped, PTL DEF Spec

(***************************************************************************)
(* The pause as a lock.  A step is quiet for a worker when it lets it take *)
(* no pause and shows it no row.                                           *)
(***************************************************************************)
Safe == OneSenderPerAddress /\ PausesHold /\ CopiesAreCurrent /\ LettersAreCurrent

Quiet(w) ==
    LET r == req[w]
        s == req'[w]
    IN  \/ s.op = r.op /\ s.email = r.email /\ s.began = r.began
           /\ (Sending(w)' => Sending(w) /\ s.now = r.now)
           /\ (s.pc = "mail" => r.pc = "mail" /\ s.row = r.row)
           /\ (At(w, "resend", "reserve")' => At(w, "resend", "reserve") /\ s.row = r.row)
        \/ ~ Sending(w)' /\ s.pc # "mail" /\ ~ At(w, "resend", "reserve")'

LEMMA QuietSame == \A w : req'[w] = req[w] => Quiet(w)
  BY DEF Quiet, Sending, At

LEMMA QuietIdle == \A w : req'[w] = Idle => Quiet(w)
  BY ValueTypes DEF Quiet, Sending, At

LEMMA QuietStep ==
  ASSUME TypeOK, Safe, \A w \in Workers : Quiet(w), deadline' = deadline, culled' = culled,
         \A e \in Emails : requests'[e] \in {requests[e], NoRequest}
  PROVE  Safe'
<1>1. \A w \in Workers : req[w].email \in Emails
  BY WorkerFacts
<1>2. \A w \in Workers : Sending(w)' =>
         Sending(w) /\ req'[w].email = req[w].email /\ req'[w].now = req[w].now
  BY DEF Quiet
<1>3. OneSenderPerAddress'
  BY <1>2 DEF Safe, OneSenderPerAddress
<1>4. PausesHold'
  BY <1>2 DEF Safe, PausesHold
<1>5. NoRequest' = NoRequest
  BY DEF NoRequest, Request
<1>6. CopiesAreCurrent'
  <2> SUFFICES ASSUME NEW w \in Workers, At(w, "resend", "reserve")', ~ culled
               PROVE  \/ requests'[req'[w].email] \in {NoRequest, req'[w].row}
                      \/ deadline'[req'[w].email] + Timeout > req'[w].began + Cooldown
    BY <1>5 DEF CopiesAreCurrent
  <2>1. /\ At(w, "resend", "reserve") /\ req'[w].row = req[w].row /\ req'[w].email = req[w].email
        /\ req'[w].began = req[w].began
    BY DEF Quiet
  <2>2. \/ requests[req[w].email] \in {NoRequest, req[w].row}
        \/ deadline[req[w].email] + Timeout > req[w].began + Cooldown
    BY <2>1 DEF Safe, CopiesAreCurrent
  <2> QED BY <1>1, <2>1, <2>2
<1>7. LettersAreCurrent'
  <2> SUFFICES ASSUME NEW w \in Workers, req'[w].pc = "mail", ~ culled
               PROVE  \/ requests'[req'[w].email] \in {NoRequest, req'[w].row}
                      \/ req'[w].op = "resend" /\ req'[w].now + Timeout > req'[w].began + Cooldown
    BY <1>5 DEF LettersAreCurrent
  <2>1. /\ req[w].pc = "mail" /\ req'[w].row = req[w].row /\ req'[w].email = req[w].email
        /\ req'[w].began = req[w].began /\ req'[w].op = req[w].op
    BY DEF Quiet
  <2>2. Sending(w)'
    BY <2>1, OpOf DEF Sending
  <2>3. req'[w].now = req[w].now
    BY <1>2, <2>2
  <2>4. \/ requests[req[w].email] \in {NoRequest, req[w].row}
        \/ req[w].op = "resend" /\ req[w].now + Timeout > req[w].began + Cooldown
    BY <2>1 DEF Safe, LettersAreCurrent
  <2> QED BY <1>1, <2>1, <2>3, <2>4
<1> QED BY <1>3, <1>4, <1>6, <1>7 DEF Safe

\* Nobody else can take the pause while a sender's worker lives.
LEMMA PauseRuns ==
  ASSUME TypeOK, PausesHold, ~ culled, NEW v \in Workers, Sending(v)
  PROVE  /\ deadline[req[v].email] > clock
         /\ deadline[req[v].email] + Timeout > clock + Cooldown
<1>1. /\ ServedOK(v) /\ req[v].now \in 0..MaxClock /\ req[v].began \in 0..MaxClock
      /\ deadline[req[v].email] \in Nat
  BY WorkerFacts
<1>2. req[v].began <= req[v].now /\ clock < req[v].began + Timeout
  BY <1>1 DEF ServedOK, Sending
<1>3. deadline[req[v].email] >= req[v].now + Cooldown
  BY DEF PausesHold
<1>4. Timeout \in Nat /\ Cooldown \in Nat /\ Timeout <= Cooldown /\ clock \in Int
  BY SignupAssumption DEF SignupAssumption, TypeOK
<1> QED BY <1>1, <1>2, <1>3, <1>4

LEMMA ReserveSafe == ASSUME TypeOK, Safe, NEW w \in Workers, Reserve(w) PROVE Safe'
<1> DEFINE r == req[w]
<1>1. /\ r \in Served /\ ServedOK(w) /\ r.email \in Emails
      /\ r.now \in 0..MaxClock /\ r.began \in 0..MaxClock /\ deadline[r.email] \in Nat
  BY WorkerFacts
<1>2. r.pc = "reserve" /\ UNCHANGED <<requests, accounts, lock, culled, letters, clock, minted>>
  BY DEF Reserve
<1>3. clock \in Nat /\ MaxClock \in Nat /\ Cooldown \in Nat /\ Timeout \in Nat
  BY SignupAssumption DEF TypeOK, SignupAssumption
<1>4. r.op \in {"submit", "resend"}
  BY <1>1, <1>2, PhasesOf DEF ServedOK, Served
<1>5. \A e \in Emails : requests'[e] \in {requests[e], NoRequest}
  BY <1>2
<1>6. ASSUME NEW q, req' = [req EXCEPT ![w] = q], UNCHANGED deadline,
             q = Idle \/ (/\ q.pc = "reserve" /\ q.op = r.op /\ q.email = r.email
                          /\ q.began = r.began /\ q.row = r.row)
      PROVE  Safe'
  <2>1. req'[w] = q /\ \A v \in Workers \ {w} : req'[v] = req[v]
    BY <1>6 DEF TypeOK
  <2>2. Quiet(w)
    <3>1. CASE q = Idle
      BY <2>1, <3>1, QuietIdle
    <3>2. CASE q # Idle
      BY <1>2, <1>6, <2>1, <3>2 DEF Quiet, Sending, At
    <3> QED BY <3>1, <3>2
  <2>3. \A v \in Workers : Quiet(v)
    BY <2>1, <2>2, QuietSame
  <2> QED BY <1>2, <1>5, <1>6, <2>3, QuietStep
<1>7. PICK now \in r.now..clock :
        \/ /\ deadline[r.email] <= now
           /\ deadline' = [deadline EXCEPT ![r.email] = Pause(now)]
           /\ Become(w, [r EXCEPT !.pc = IF r.op = "submit" THEN "select" ELSE "mail",
                                  !.now = now, !.tries = 0])
        \/ /\ deadline[r.email] > now /\ deadline[r.email] <= clock
           /\ Become(w, IF r.tries = 0 THEN [r EXCEPT !.now = clock, !.tries = 1] ELSE Idle)
           /\ UNCHANGED deadline
        \/ /\ deadline[r.email] > clock
           /\ Become(w, Idle)
           /\ UNCHANGED deadline
  BY DEF Reserve
<1>8. CASE deadline[r.email] <= now /\ deadline' = [deadline EXCEPT ![r.email] = Pause(now)]
           /\ Become(w, [r EXCEPT !.pc = IF r.op = "submit" THEN "select" ELSE "mail",
                                  !.now = now, !.tries = 0])
  <2> DEFINE pc == IF r.op = "submit" THEN "select" ELSE "mail"
             q == [r EXCEPT !.pc = pc, !.now = now, !.tries = 0]
  <2>1. /\ q.pc = pc /\ q.op = r.op /\ q.email = r.email /\ q.began = r.began /\ q.now = now
        /\ q.row = r.row
    BY <1>1 DEF Served
  <2>2. req' = [req EXCEPT ![w] = q]
    BY <1>8 DEF Become
  <2> HIDE DEF q
  <2>3. req'[w] = q /\ \A v \in Workers \ {w} : req'[v] = req[v] /\ Sending(v)' = Sending(v)
    BY <2>2 DEF TypeOK, Sending
  <2>4. /\ deadline'[r.email] = now + Cooldown
        /\ \A e \in Emails \ {r.email} : deadline'[e] = deadline[e]
    BY <1>1, <1>8 DEF TypeOK, Pause
  <2>5. now \in Nat /\ r.now <= now /\ now <= clock
    BY <1>1, <1>3
  \* Nobody else is sending to this address.
  <2>6. ASSUME NEW v \in Workers \ {w}, Sending(v), req[v].email = r.email PROVE culled
    <3> SUFFICES ASSUME ~ culled PROVE FALSE
      OBVIOUS
    <3>1. deadline[r.email] > clock
      BY <2>6, PauseRuns DEF Safe
    <3> QED BY <1>1, <1>3, <1>8, <2>5, <3>1
  <2>7. deadline'[r.email] >= deadline[r.email]
    BY <1>1, <1>3, <1>8, <2>4, <2>5
  <2>8. OneSenderPerAddress'
    <3> SUFFICES ASSUME NEW u \in Workers, NEW v \in Workers, u # v, Sending(u)', Sending(v)',
                        req'[u].email = req'[v].email
                 PROVE  culled'
      BY DEF OneSenderPerAddress
    <3>1. CASE u = w
      BY <1>2, <2>1, <2>3, <2>6, <3>1
    <3>2. CASE v = w
      BY <1>2, <2>1, <2>3, <2>6, <3>2
    <3>3. CASE u # w /\ v # w
      BY <1>2, <2>3, <3>3 DEF Safe, OneSenderPerAddress
    <3> QED BY <3>1, <3>2, <3>3
  <2>9. PausesHold'
    <3> SUFFICES ASSUME NEW v \in Workers, Sending(v)', ~ culled
                 PROVE  deadline'[req'[v].email] >= req'[v].now + Cooldown
      BY <1>2 DEF PausesHold
    <3>1. CASE v = w
      BY <1>3, <2>1, <2>3, <2>4, <2>5, <3>1
    <3>2. CASE v # w
      <4>1. Sending(v) /\ req'[v] = req[v] /\ req[v].email # r.email /\ req[v].email \in Emails
        BY <2>3, <2>6, <3>2, WorkerFacts
      <4>2. deadline[req[v].email] >= req[v].now + Cooldown
        BY <4>1 DEF Safe, PausesHold
      <4> QED BY <2>4, <4>1, <4>2
    <3> QED BY <3>1, <3>2
  <2>10. NoRequest' = NoRequest
    BY DEF NoRequest, Request
  <2>11. CopiesAreCurrent'
    <3> SUFFICES ASSUME NEW v \in Workers, At(v, "resend", "reserve")', ~ culled
                 PROVE  \/ requests'[req'[v].email] \in {NoRequest, req'[v].row}
                        \/ deadline'[req'[v].email] + Timeout > req'[v].began + Cooldown
      BY <1>2, <2>10 DEF CopiesAreCurrent
    <3>1. v # w
      BY <2>1, <2>3 DEF At
    <3>2. req'[v] = req[v] /\ At(v, "resend", "reserve")
      BY <2>3, <3>1 DEF At
    <3>3. \/ requests[req[v].email] \in {NoRequest, req[v].row}
          \/ deadline[req[v].email] + Timeout > req[v].began + Cooldown
      BY <3>2 DEF Safe, CopiesAreCurrent
    <3>4. /\ deadline[req[v].email] \in Nat /\ req[v].email \in Emails /\ req[v].began \in 0..MaxClock
      BY WorkerFacts
    <3>5. deadline'[req[v].email] >= deadline[req[v].email] /\ deadline'[req[v].email] \in Nat
      BY <1>3, <2>4, <2>5, <2>7, <3>4
    <3> QED BY <1>2, <1>3, <3>2, <3>3, <3>4, <3>5
  <2>12. LettersAreCurrent'
    <3> SUFFICES ASSUME NEW v \in Workers, req'[v].pc = "mail", ~ culled
                 PROVE  \/ requests'[req'[v].email] \in {NoRequest, req'[v].row}
                        \/ req'[v].op = "resend" /\ req'[v].now + Timeout > req'[v].began + Cooldown
      BY <1>2, <2>10 DEF LettersAreCurrent
    <3>1. CASE v # w
      BY <1>2, <2>3, <3>1 DEF Safe, LettersAreCurrent
    <3>2. CASE v = w
      <4>1. r.op = "resend"
        BY <1>4, <2>1, <2>3, <3>2
      <4>2. \/ requests[r.email] \in {NoRequest, r.row}
            \/ deadline[r.email] + Timeout > r.began + Cooldown
        BY <1>2, <4>1 DEF Safe, CopiesAreCurrent, At
      <4>3. deadline[r.email] + Timeout > r.began + Cooldown => now + Timeout > r.began + Cooldown
        BY <1>1, <1>3, <1>8, <2>5
      <4> QED BY <1>2, <2>1, <2>3, <3>2, <4>1, <4>2, <4>3
    <3> QED BY <3>1, <3>2
  <2> QED BY <2>8, <2>9, <2>11, <2>12 DEF Safe
<1>9. CASE /\ deadline[r.email] > now /\ deadline[r.email] <= clock
           /\ Become(w, IF r.tries = 0 THEN [r EXCEPT !.now = clock, !.tries = 1] ELSE Idle)
           /\ UNCHANGED deadline
  <2> DEFINE q == IF r.tries = 0 THEN [r EXCEPT !.now = clock, !.tries = 1] ELSE Idle
  <2>1. q = Idle \/ (/\ q.pc = "reserve" /\ q.op = r.op /\ q.email = r.email
                     /\ q.began = r.began /\ q.row = r.row)
    BY <1>1, <1>2 DEF Served
  <2> HIDE DEF q
  <2>2. req' = [req EXCEPT ![w] = q]
    BY <1>9 DEF Become, q
  <2> QED BY <1>6, <1>9, <2>1, <2>2
<1> QED BY <1>6, <1>7, <1>8, <1>9 DEF Become

LEMMA CommitRequestSafe == ASSUME TypeOK, Safe, NEW w \in Workers, CommitRequest(w) PROVE Safe'
<1> DEFINE r == req[w]
           row == [r.row EXCEPT !.token = minted + 1]
           q == [r EXCEPT !.pc = "mail", !.row = row]
<1>1. /\ r \in Served /\ r.email \in Emails /\ r.row \in RequestRow
  BY WorkerFacts
<1>2. /\ r.op = "submit" /\ r.pc = "commit" /\ requests' = [requests EXCEPT ![r.email] = row]
      /\ req' = [req EXCEPT ![w] = q] /\ UNCHANGED <<accounts, deadline, culled, letters, clock>>
  BY DEF CommitRequest, At, Become
<1> HIDE DEF row
<1>3. /\ q.pc = "mail" /\ q.op = r.op /\ q.email = r.email /\ q.began = r.began /\ q.now = r.now
      /\ q.row = row
  BY <1>1 DEF Served
<1> HIDE DEF q
<1>4. req'[w] = q /\ \A v \in Workers \ {w} : req'[v] = req[v]
  BY <1>2 DEF TypeOK
<1>5. Sending(w)
  BY <1>2 DEF Sending
<1>6. \A v \in Workers : Sending(v)' = Sending(v) /\ req'[v].email = req[v].email /\ req'[v].now = req[v].now
  BY <1>2, <1>3, <1>4 DEF Sending
<1>7. requests'[r.email] = row /\ \A e \in Emails \ {r.email} : requests'[e] = requests[e]
  BY <1>1, <1>2 DEF TypeOK
<1>8. NoRequest' = NoRequest
  BY DEF NoRequest, Request
<1>9. OneSenderPerAddress'
  BY <1>2, <1>6 DEF Safe, OneSenderPerAddress
<1>10. PausesHold'
  BY <1>2, <1>6 DEF Safe, PausesHold
<1>11. CopiesAreCurrent'
  <2> SUFFICES ASSUME NEW v \in Workers, At(v, "resend", "reserve")', ~ culled
               PROVE  \/ requests'[req'[v].email] \in {NoRequest, req'[v].row}
                      \/ deadline'[req'[v].email] + Timeout > req'[v].began + Cooldown
    BY <1>2, <1>8 DEF CopiesAreCurrent
  <2>1. req'[v] = req[v] /\ At(v, "resend", "reserve")
    BY <1>3, <1>4 DEF At
  <2>2. CASE req[v].email = r.email
    <3>1. deadline[r.email] + Timeout > clock + Cooldown
      BY <1>5, PauseRuns DEF Safe
    <3>2. req[v].began <= clock
      <4>1. ServedOK(v) /\ req[v].began \in Int /\ req[v].now \in Int /\ clock \in Int
        BY WorkerFacts DEF TypeOK
      <4> QED BY <4>1 DEF ServedOK
    <3>3. req[v].began \in Int /\ clock \in Int /\ deadline[r.email] \in Int /\ Timeout \in Int /\ Cooldown \in Int
      BY WorkerFacts, SignupAssumption DEF SignupAssumption, TypeOK
    <3> QED BY <1>2, <2>1, <2>2, <3>1, <3>2, <3>3
  <2>3. CASE req[v].email # r.email
    <3>1. requests'[req[v].email] = requests[req[v].email]
      BY <1>7, <2>3, WorkerFacts
    <3> QED BY <1>2, <2>1, <3>1 DEF Safe, CopiesAreCurrent
  <2> QED BY <2>2, <2>3
<1>12. LettersAreCurrent'
  <2> SUFFICES ASSUME NEW v \in Workers, req'[v].pc = "mail", ~ culled
               PROVE  \/ requests'[req'[v].email] \in {NoRequest, req'[v].row}
                      \/ req'[v].op = "resend" /\ req'[v].now + Timeout > req'[v].began + Cooldown
    BY <1>2, <1>8 DEF LettersAreCurrent
  <2>1. CASE v = w
    BY <1>3, <1>4, <1>7, <2>1
  <2>2. CASE v # w
    <3>1. req'[v] = req[v] /\ Sending(v)
      BY <1>4, <2>2, OpOf DEF Sending
    <3>2. req[v].email # r.email
      BY <1>5, <2>2, <3>1 DEF Safe, OneSenderPerAddress
    <3>3. requests'[req[v].email] = requests[req[v].email]
      BY <1>7, <3>2, WorkerFacts
    <3> QED BY <3>1, <3>3 DEF Safe, LettersAreCurrent
  <2> QED BY <2>1, <2>2
<1> QED BY <1>9, <1>10, <1>11, <1>12 DEF Safe

LEMMA ResendSafe == ASSUME TypeOK, Safe, NEW w \in Workers, Resend(w) PROVE Safe'
<1>1. PICK e \in Emails :
        /\ requests[e] # NoRequest
        /\ Become(w, [Begin(w, "resend", e) EXCEPT !.pc = "reserve", !.row = requests[e]])
  BY DEF Resend
<1> DEFINE q == Started(w, "resend", e, "reserve", requests[e])
<1>2. "reserve" \in Pcs /\ requests[e] \in RequestRow /\ clock \in 0..MaxClock
  BY DEF Pcs, TypeOK
<1>3. /\ q.pc = "reserve" /\ q.op = "resend" /\ q.email = e /\ q.row = requests[e]
  BY <1>2, BeginFields
<1>4. req' = [req EXCEPT ![w] = q] /\ UNCHANGED <<requests, deadline, culled>>
  BY <1>1 DEF Become, Resend, Started
<1> HIDE DEF q
<1>5. req'[w] = q /\ \A v \in Workers \ {w} : req'[v] = req[v]
  BY <1>4 DEF TypeOK
<1>6. \A v \in Workers : Sending(v)' => Sending(v) /\ req'[v] = req[v]
  BY <1>3, <1>5 DEF Sending
<1>7. NoRequest' = NoRequest
  BY DEF NoRequest, Request
<1>8. OneSenderPerAddress' /\ PausesHold'
  BY <1>4, <1>6 DEF Safe, OneSenderPerAddress, PausesHold
<1>9. CopiesAreCurrent'
  <2> SUFFICES ASSUME NEW v \in Workers, At(v, "resend", "reserve")', ~ culled
               PROVE  \/ requests'[req'[v].email] \in {NoRequest, req'[v].row}
                      \/ deadline'[req'[v].email] + Timeout > req'[v].began + Cooldown
    BY <1>4, <1>7 DEF CopiesAreCurrent
  <2>1. CASE v = w
    BY <1>3, <1>4, <1>5, <2>1
  <2>2. CASE v # w
    BY <1>4, <1>5, <2>2 DEF Safe, CopiesAreCurrent, At
  <2> QED BY <2>1, <2>2
<1>10. LettersAreCurrent'
  <2> SUFFICES ASSUME NEW v \in Workers, req'[v].pc = "mail", ~ culled
               PROVE  \/ requests'[req'[v].email] \in {NoRequest, req'[v].row}
                      \/ req'[v].op = "resend" /\ req'[v].now + Timeout > req'[v].began + Cooldown
    BY <1>4, <1>7 DEF LettersAreCurrent
  <2>1. v # w
    BY <1>3, <1>5
  <2> QED BY <1>4, <1>5, <2>1 DEF Safe, LettersAreCurrent
<1> QED BY <1>8, <1>9, <1>10 DEF Safe

\* The other steps of a worker are quiet.
LEMMA WorkerQuiet ==
  ASSUME TypeOK, Safe, NEW w \in Workers, NEW q, req' = [req EXCEPT ![w] = q],
         UNCHANGED <<deadline, culled>>, \A e \in Emails : requests'[e] \in {requests[e], NoRequest},
         \/ q = Idle
         \/ q.pc \notin {"mail", "reserve"} /\ q.op = req[w].op /\ q.email = req[w].email
            /\ q.began = req[w].began /\ q.now = req[w].now
            /\ req[w].pc \notin {"idle", "reserve"}
         \/ q.op = "confirm" /\ q.pc # "mail"
         \/ q.op = "submit" /\ q.pc = "reserve"
  PROVE  Safe'
<1>1. req'[w] = q /\ \A v \in Workers \ {w} : req'[v] = req[v]
  BY DEF TypeOK
<1>2. Quiet(w)
  <2>1. CASE q = Idle
    BY <1>1, <2>1, QuietIdle
  <2>2. CASE q # Idle
    BY <1>1, <2>2 DEF Quiet, Sending, At
  <2> QED BY <2>1, <2>2
<1>3. \A v \in Workers : Quiet(v)
  BY <1>1, <1>2, QuietSame
<1> QED BY <1>3, QuietStep

LEMMA AbandonSafe ==
  ASSUME TypeOK, Safe, NEW w \in Workers, Abandon(w), UNCHANGED <<deadline, culled>>
  PROVE  Safe'
  BY WorkerQuiet DEF Abandon, Become

LEMMA GotoSafe ==
  ASSUME TypeOK, Safe, NEW w \in Workers, NEW pc \in InTransaction, Goto(w, pc),
         UNCHANGED <<requests, deadline, culled>>, req[w].pc \in InTransaction \cup {"select"}
  PROVE  Safe'
<1> DEFINE q == [req[w] EXCEPT !.pc = pc]
<1>1. q.pc = pc /\ q.op = req[w].op /\ q.email = req[w].email /\ q.began = req[w].began /\ q.now = req[w].now
  BY WorkerFacts DEF Served
<1> HIDE DEF q
<1>2. req' = [req EXCEPT ![w] = q]
  BY DEF Goto, Become, q
<1>3. pc \notin {"mail", "reserve"} /\ req[w].pc \notin {"idle", "reserve"}
  BY DEF InTransaction
<1> QED BY <1>1, <1>2, <1>3, WorkerQuiet

LEMMA InsertSafe == ASSUME TypeOK, Safe, NEW w \in Workers, Insert(w) PROVE Safe'
<1> DEFINE r == req[w]
<1>1. r.pc = "insert" /\ UNCHANGED <<requests, deadline, culled>> /\ r \in Served /\ r.row \in RequestRow
  BY WorkerFacts DEF Insert
<1>2. CASE requests[r.email] = NoRequest \/ lock[r.email] = w
  <2> DEFINE q == [r EXCEPT !.pc = "commit", !.row.created = clock]
  <2>1. /\ q.pc = "commit" /\ q.op = r.op /\ q.email = r.email /\ q.began = r.began /\ q.now = r.now
    BY <1>1 DEF Served
  <2>2. req' = [req EXCEPT ![w] = q]
    BY <1>2 DEF Insert, Become
  <2> HIDE DEF q
  <2> QED BY <1>1, <2>1, <2>2, WorkerQuiet
<1>3. CASE ~ (requests[r.email] = NoRequest \/ lock[r.email] = w)
  <2> DEFINE q == IF r.tries + 1 < Attempts THEN [r EXCEPT !.pc = "select", !.tries = @ + 1] ELSE Idle
  <2>1. \/ q = Idle
        \/ q.pc = "select" /\ q.op = r.op /\ q.email = r.email /\ q.began = r.began /\ q.now = r.now
    BY <1>1 DEF Served
  <2>2. req' = [req EXCEPT ![w] = q]
    BY <1>3 DEF Insert, Become
  <2> HIDE DEF q
  <2> QED BY <1>1, <2>1, <2>2, WorkerQuiet
<1> QED BY <1>2, <1>3

LEMMA SubmitSafe == ASSUME TypeOK, Safe, NEW w \in Workers, Submit(w) PROVE Safe'
<1>1. PICK e \in Registering, p \in Phones \cup {NoPhone} :
        Become(w, [Begin(w, "submit", e) EXCEPT !.pc = "reserve", !.row = RequestFields(p)])
  BY DEF Submit
<1> DEFINE q == Started(w, "submit", e, "reserve", RequestFields(p))
<1>2. e \in Emails /\ clock \in 0..MaxClock /\ "reserve" \in Pcs
  BY SignupAssumption DEF SignupAssumption, TypeOK, Pcs
<1>3. RequestFields(p) \in RequestRow
  BY SignupAssumption DEF RequestFields, Request, RequestRow, SignupAssumption
<1>4. q.op = "submit" /\ q.pc = "reserve"
  BY <1>2, <1>3, BeginFields
<1>5. req' = [req EXCEPT ![w] = q] /\ UNCHANGED <<requests, deadline, culled>>
  BY <1>1 DEF Become, Started, Submit
<1> HIDE DEF q
<1> QED BY <1>4, <1>5, WorkerQuiet

LEMMA ConfirmSelectSafe == ASSUME TypeOK, Safe, NEW w \in Workers, ConfirmSelect(w) PROVE Safe'
<1>1. PICK e \in Emails :
        Become(w, [Begin(w, "confirm", e) EXCEPT !.pc = "check", !.row = requests[e]])
  BY DEF ConfirmSelect
<1> DEFINE q == Started(w, "confirm", e, "check", requests[e])
<1>2. requests[e] \in RequestRow /\ clock \in 0..MaxClock /\ "check" \in Pcs
  BY DEF TypeOK, Pcs
<1>3. q.op = "confirm" /\ q.pc = "check"
  BY <1>2, BeginFields
<1>4. req' = [req EXCEPT ![w] = q] /\ UNCHANGED <<requests, deadline, culled>>
  BY <1>1 DEF Become, Started, ConfirmSelect
<1> HIDE DEF q
<1> QED BY <1>3, <1>4, WorkerQuiet

LEMMA ServeSafe == ASSUME TypeOK, Safe, NEW w \in Workers, Serve(w) PROVE Safe'
<1>1. \A pc \in {"check", "delete", "insert", "create", "commit"} : pc \in InTransaction
  BY DEF InTransaction
<1>2. CASE Select(w)
  BY <1>1, <1>2, GotoSafe DEF Select
<1>3. CASE Delete(w)
  BY <1>1, <1>3, GotoSafe DEF Delete
<1>4. CASE Check(w)
  <2>1. req[w].pc = "check" /\ UNCHANGED <<deadline, culled>>
    BY <1>4 DEF Check, At
  <2>2. Abandon(w) \/ (Goto(w, "delete") /\ UNCHANGED requests)
    BY <1>4 DEF Check
  <2> QED BY <1>1, <2>1, <2>2, AbandonSafe, GotoSafe
<1>5. CASE ConfirmCheck(w)
  <2>1. req[w].pc = "check" /\ UNCHANGED <<deadline, culled>>
    BY <1>5 DEF ConfirmCheck, At
  <2>2. Abandon(w) \/ (Goto(w, "create") /\ UNCHANGED requests)
    BY <1>5 DEF ConfirmCheck
  <2> QED BY <1>1, <2>1, <2>2, AbandonSafe, GotoSafe
<1>6. CASE ConfirmCreate(w)
  <2>1. req[w].pc = "create" /\ UNCHANGED <<deadline, culled>>
    BY <1>6 DEF ConfirmCreate
  <2>2. Abandon(w) \/ (Goto(w, "commit") /\ UNCHANGED requests)
    BY <1>6 DEF ConfirmCreate
  <2> QED BY <1>1, <2>1, <2>2, AbandonSafe, GotoSafe
<1>7. CASE Mail(w)
  BY <1>7, WorkerQuiet DEF Mail, Become
<1>8. CASE CommitAccount(w)
  <2>1. /\ req' = [req EXCEPT ![w] = Idle] /\ UNCHANGED <<deadline, culled>>
        /\ requests' = [requests EXCEPT ![req[w].email] = IF @.token = req[w].row.token THEN NoRequest ELSE @]
    BY <1>8 DEF CommitAccount, Become
  <2>2. \A e \in Emails : requests'[e] \in {requests[e], NoRequest}
    BY <2>1 DEF TypeOK
  <2> QED BY <2>1, <2>2, WorkerQuiet
<1> QED BY <1>2, <1>3, <1>4, <1>5, <1>6, <1>7, <1>8, SubmitSafe, ResendSafe, ReserveSafe, InsertSafe,
           CommitRequestSafe, ConfirmSelectSafe DEF Serve

LEMMA NextSafe == TypeOK /\ Safe /\ [Next]_vars => Safe'
<1> SUFFICES ASSUME TypeOK, Safe, [Next]_vars PROVE Safe'
  OBVIOUS
<1>1. ASSUME NEW w \in Workers, Crash(w) PROVE Safe'
  BY <1>1, AbandonSafe DEF Crash
<1>2. ASSUME req' = req, UNCHANGED <<deadline, culled>>,
             \A e \in Emails : requests'[e] \in {requests[e], NoRequest}
      PROVE  Safe'
  BY <1>2, QuietSame, QuietStep
<1>3. ASSUME NEW e \in Emails, Purge(e) PROVE Safe'
  <2>1. /\ requests' = [requests EXCEPT ![e] = NoRequest] /\ req' = req /\ UNCHANGED <<deadline, culled>>
    BY <1>3 DEF Purge
  <2>2. \A f \in Emails : requests'[f] \in {requests[f], NoRequest}
    BY <2>1 DEF TypeOK
  <2> QED BY <1>2, <2>1, <2>2
<1>4. ASSUME NEW e \in Emails, CreateByHand(e) \/ SetPhone(e) \/ DeleteAccount(e) PROVE Safe'
  BY <1>2, <1>4 DEF CreateByHand, SetPhone, DeleteAccount
<1>5. ASSUME NEW e \in Emails, Cull(e) PROVE Safe'
  BY <1>5 DEF Cull, Safe, OneSenderPerAddress, PausesHold, CopiesAreCurrent, LettersAreCurrent
<1>6. CASE Tick
  <2>1. \A w \in Workers : req'[w] = Idle \/ req'[w] = req[w]
    BY <1>6 DEF Tick
  <2>2. UNCHANGED <<requests, deadline, culled>>
    BY <1>6 DEF Tick
  <2> QED BY <2>1, <2>2, QuietSame, QuietIdle, QuietStep
<1>7. CASE UNCHANGED vars
  BY <1>2, <1>7 DEF vars
<1> QED BY <1>1, <1>3, <1>4, <1>5, <1>6, <1>7, ServeSafe DEF Next

LEMMA InitSafe == Init => Safe
  BY ValueTypes DEF Init, Safe, OneSenderPerAddress, PausesHold, CopiesAreCurrent, LettersAreCurrent,
     Sending, At

LEMMA AlwaysInductive == Spec => []Inductive
<1>1. Init => TypeOK /\ Safe
  BY InitTyped, InitSafe
<1>2. TypeOK /\ Safe /\ [Next]_vars => (TypeOK /\ Safe)'
  BY NextTyped, NextSafe
<1>3. TypeOK /\ Safe => Inductive
  BY DEF Safe, Inductive
<1> QED BY <1>1, <1>2, <1>3, PTL DEF Spec

\* Signup.OneSenderPerAddress: while the cache keeps its entries, whoever has taken
\* the pause (users/rate_limit.py) is alone with the address until its letter is out.
THEOREM OneSender == Spec => []OneSenderPerAddress
<1>1. Inductive => OneSenderPerAddress
  BY DEF Inductive
<1> QED BY <1>1, AlwaysInductive, PTL

\* Signup.LettersAreCurrent: the row a letter is about has not been replaced when it
\* goes out, except for a resend that was slow in taking the pause.
THEOREM LettersCurrent == Spec => []LettersAreCurrent
<1>1. Inductive => LettersAreCurrent
  BY DEF Inductive
<1> QED BY <1>1, AlwaysInductive, PTL

(***************************************************************************)
(* Where accounts come from, and where requests go.                        *)
(***************************************************************************)
\* Only a confirmation's commit makes an account from a request, and only it, a
\* purge and a submission's commit touch the requests.
LEMMA AccountsChange ==
  ASSUME TypeOK, [Next]_vars, NEW e \in Emails,
         ~ accounts[e].exists, accounts'[e].exists, accounts'[e].from # ByHand
  PROVE  \E w \in Workers : CommitAccount(w) /\ req[w].email = e
<1>1. ASSUME NEW w \in Workers, CommitAccount(w), req[w].email # e PROVE FALSE
  <2>1. accounts' = [accounts EXCEPT ![req[w].email] = Account(req[w].row.token, req[w].row.phone)]
    BY <1>1 DEF CommitAccount
  <2>2. accounts'[e] = accounts[e]
    BY <1>1, <2>1 DEF TypeOK
  <2> QED BY <2>2
<1>2. accounts' # accounts
  OBVIOUS
<1>3. ASSUME NEW w \in Workers, Serve(w), ~ CommitAccount(w) PROVE FALSE
  <2>1. UNCHANGED accounts
    BY <1>3 DEF Serve, Submit, Resend, Reserve, Select, Check, Delete, Insert, CommitRequest, Mail,
       ConfirmSelect, ConfirmCheck, ConfirmCreate, Abandon
  <2> QED BY <1>2, <2>1
<1>4. ASSUME NEW f \in Emails, CreateByHand(f) \/ SetPhone(f) \/ DeleteAccount(f) PROVE FALSE
  <2>1. accounts[f] \in AccountRow /\ accounts \in [Emails -> AccountRow]
    BY DEF TypeOK
  <2>2. CASE CreateByHand(f)
    <3>1. accounts'[e] = accounts[e] \/ accounts'[e] = Account(ByHand, NoPhone)
      BY <2>1, <2>2 DEF CreateByHand
    <3> QED BY <3>1 DEF Account
  <2>3. CASE SetPhone(f)
    <3>1. f # e
      BY <2>3 DEF SetPhone
    <3>2. accounts'[e] = accounts[e]
      BY <2>1, <2>3, <3>1 DEF SetPhone
    <3> QED BY <3>2
  <2>4. CASE DeleteAccount(f)
    <3>1. accounts'[e] = accounts[e] \/ accounts'[e] = NoAccount
      BY <2>1, <2>4 DEF DeleteAccount
    <3> QED BY <3>1 DEF NoAccount
  <2> QED BY <1>4, <2>2, <2>3, <2>4
<1> QED BY <1>1, <1>2, <1>3, <1>4 DEF Next, vars, Crash, Abandon, Purge, Cull, Tick

\* Signup.AccountsComeFromCurrentRequests: an account made by a confirmation has the
\* data of the request waiting for its address, and uses it up (users/signup.py:88).
THEOREM AccountsFromRequests == Spec => AccountsComeFromCurrentRequests
<1>1. ASSUME TypeOK, [Next]_vars, NEW e \in Emails,
             ~ accounts[e].exists, accounts'[e].exists, accounts'[e].from # ByHand
      PROVE  /\ requests[e].token = accounts'[e].from
             /\ requests[e].phone = accounts'[e].phone
             /\ requests'[e] = NoRequest
  <2>1. PICK w \in Workers : CommitAccount(w) /\ req[w].email = e
    BY <1>1, AccountsChange
  <2>2. requests[e] = req[w].row
    BY <1>1, <2>1, WorkerFacts DEF CommitAccount, At, ServedOK
  <2>3. accounts'[e] = Account(req[w].row.token, req[w].row.phone)
    BY <1>1, <2>1 DEF CommitAccount, TypeOK
  <2>4. requests'[e] = NoRequest
    BY <1>1, <2>1, <2>2 DEF CommitAccount, TypeOK
  <2> QED BY <2>2, <2>3, <2>4 DEF Account
<1>2. TypeOK /\ [Next]_vars =>
        \A e \in Emails : ~ accounts[e].exists /\ accounts'[e].exists /\ accounts'[e].from # ByHand =>
               /\ requests[e].token = accounts'[e].from
               /\ requests[e].phone = accounts'[e].phone
               /\ requests'[e] = NoRequest
  BY <1>1
<1> QED BY <1>2, TypeCorrect, PTL DEF Spec, AccountsComeFromCurrentRequests

\* Signup.RequestsAreKept: a confirmation that fails, by conflict or by crash, leaves
\* the request; it goes with its account, after its day, or for a newer one.
THEOREM RequestsKept == Spec => RequestsAreKept
<1>1. ASSUME TypeOK, [Next]_vars, NEW e \in Emails, requests[e] # NoRequest, requests'[e] # requests[e]
      PROVE  \/ requests'[e].token > requests[e].token
             \/ accounts'[e].exists /\ accounts'[e].from = requests[e].token
             \/ Expired(requests[e])
  <2>1. requests' # requests
    BY <1>1
  <2>2. ASSUME NEW w \in Workers, CommitRequest(w) PROVE requests'[e].token > requests[e].token
    <3> DEFINE row == [req[w].row EXCEPT !.token = minted + 1]
    <3>1. requests' = [requests EXCEPT ![req[w].email] = row]
      BY <2>2 DEF CommitRequest
    <3>2. row.token = minted + 1
      BY <1>1, WorkerFacts DEF RequestRow
    <3> HIDE DEF row
    <3>3. requests'[e] = row
      BY <1>1, <3>1 DEF TypeOK
    <3>4. requests[e].token \in 1..minted /\ minted \in Nat
      BY <1>1 DEF TypeOK
    <3> QED BY <3>2, <3>3, <3>4
  <2>3. ASSUME NEW w \in Workers, CommitAccount(w)
        PROVE  accounts'[e].exists /\ accounts'[e].from = requests[e].token
    <3>1. requests' = [requests EXCEPT ![req[w].email] = IF @.token = req[w].row.token THEN NoRequest ELSE @]
      BY <2>3 DEF CommitAccount
    <3>2. req[w].email = e
      BY <1>1, <3>1 DEF TypeOK
    <3>3. requests[e] = req[w].row
      BY <1>1, <2>3, <3>2, WorkerFacts DEF CommitAccount, At, ServedOK
    <3>4. accounts'[e] = Account(req[w].row.token, req[w].row.phone)
      BY <1>1, <2>3, <3>2 DEF CommitAccount, TypeOK
    <3> QED BY <3>3, <3>4 DEF Account
  <2>4. ASSUME NEW f \in Emails, Purge(f) PROVE Expired(requests[e])
    <3>1. f = e
      BY <1>1, <2>4 DEF Purge, TypeOK
    <3> QED BY <2>4, <3>1 DEF Purge
  <2>5. ASSUME NEW w \in Workers, Serve(w), ~ CommitRequest(w), ~ CommitAccount(w) PROVE FALSE
    <3>1. UNCHANGED requests
      BY <2>5 DEF Serve, Submit, Resend, Reserve, Select, Check, Delete, Insert, Mail,
         ConfirmSelect, ConfirmCheck, ConfirmCreate, Abandon
    <3> QED BY <2>1, <3>1
  <2> QED BY <1>1, <2>1, <2>2, <2>3, <2>4, <2>5
          DEF Next, vars, Crash, Abandon, CreateByHand, SetPhone, DeleteAccount, Cull, Tick
<1>2. TypeOK /\ [Next]_vars =>
        \A e \in Emails : requests[e] # NoRequest /\ requests'[e] # requests[e] =>
             \/ requests'[e].token > requests[e].token
             \/ accounts'[e].exists /\ accounts'[e].from = requests[e].token
             \/ Expired(requests[e])
  BY <1>1
<1> QED BY <1>2, TypeCorrect, PTL DEF Spec, RequestsAreKept
=============================================================================
