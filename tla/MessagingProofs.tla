---------------------------- MODULE MessagingProofs ----------------------------
(***************************************************************************)
(* Proofs about Messaging, for any number of workers and accounts: senders *)
(* keep to their quota and never wait in a circle, a thread is opened once *)
(* and its messages stand in the order of their time.                      *)
(***************************************************************************)
EXTENDS Messaging, FiniteSetTheorems, TLAPS

(***************************************************************************)
(* Values.                                                                 *)
(***************************************************************************)
LEMMA RowFacts ==
  /\ AdRow \in Rows
  /\ \A u \in Users :
         /\ UserRow(u) \in Rows /\ ThreadRow(u) \in Rows
         /\ UserRow(u) # AdRow /\ ThreadRow(u) # AdRow
         /\ \A v \in Users :
                /\ UserRow(u) # ThreadRow(v)
                /\ UserRow(u) = UserRow(v) => u = v
                /\ ThreadRow(u) = ThreadRow(v) => u = v
  BY MessagingAssumption DEF MessagingAssumption, AdRow, UserRow, ThreadRow, Rows

LEMMA MessageFields ==
  ASSUME NEW u \in Users, NEW at \in Times
  PROVE  LET m == Message(u, at)
         IN  /\ m \in MessageType /\ m.author = u /\ m.created = at
             /\ m.read = FALSE /\ m.shown = FALSE
  BY DEF Message, MessageType

LEMMA LogFacts ==
  ASSUME NEW log \in Logs
  PROVE  /\ DOMAIN log \subseteq 1..MaxMessages /\ log \in [DOMAIN log -> MessageType]
         /\ \A n \in DOMAIN log : log[n] \in MessageType
<1>1. PICK ids \in SUBSET (1..MaxMessages) : log \in [ids -> MessageType]
  BY DEF Logs
<1> QED BY <1>1

LEMMA LogMade ==
  ASSUME NEW ids \in SUBSET (1..MaxMessages), NEW log \in [ids -> MessageType]
  PROVE  log \in Logs
  BY DEF Logs

LEMMA NoThreadFields ==
  /\ NoThread \in ThreadType /\ DOMAIN NoThread.log = {} /\ NoThread.updated = 0
  /\ NoThread.last = 0 /\ NoThread.exists = FALSE
  /\ NoMessages \in Logs /\ DOMAIN NoMessages = {}
<1> USE MessagingAssumption DEF MessagingAssumption
<1>1. NoMessages \in [{} -> MessageType] /\ DOMAIN NoMessages = {}
  BY DEF NoMessages
<1>2. NoMessages \in Logs
  BY <1>1, LogMade
<1> QED BY <1>1, <1>2 DEF NoThread, ThreadType, Times

LEMMA IdleFields ==
  /\ Idle \in Served /\ Idle.pc = "idle" /\ Idle.op = "none" /\ Idle.fresh = FALSE
  /\ Idle.ids = {}
  BY MessagingAssumption DEF MessagingAssumption, Idle, Served, Times

LEMMA PhasesOf ==
  /\ Phases("none") = {"idle"}
  /\ Phases("start") = {"user", "quota", "thread", "send", "commit"}
  /\ Phases("reply") = {"user", "quota", "thread", "send", "commit", "page"}
  /\ Phases("open") = {"mark"}
  BY DEF Phases, InTransaction

LEMMA AfterFacts ==
  /\ \A op : After(op, "idle") = "user"
  /\ After("start", "user") = "quota" /\ After("reply", "user") = "thread"
  /\ After("start", "thread") = "send" /\ After("reply", "thread") = "quota"
  /\ After("start", "quota") = "thread" /\ After("reply", "quota") = "send"
  BY DEF After

LEMMA MovedFields ==
  ASSUME NEW r \in Served, NEW pc \in InTransaction \cup {"page"}
  PROVE  LET q == [r EXCEPT !.pc = pc]
         IN  /\ q \in Served /\ q.pc = pc /\ q.op = r.op /\ q.user = r.user /\ q.thread = r.thread
             /\ q.fresh = r.fresh /\ q.now = r.now /\ q.ids = r.ids
  BY DEF Served, InTransaction

LEMMA BeginFields ==
  ASSUME NEW op \in {"start", "reply"}, NEW u \in Users, NEW i \in Users
  PROVE  LET q == Begin(op, u, i)
         IN  /\ q \in Served /\ q.pc = "user" /\ q.op = op /\ q.user = u /\ q.thread = i
             /\ ~ q.fresh /\ q.ids = {}
<1>1. Begin(op, u, i) = [Idle EXCEPT !.pc = "user", !.op = op, !.user = u, !.thread = i]
  BY AfterFacts DEF Begin
<1> QED BY <1>1, IdleFields DEF Served

(***************************************************************************)
(* What becomes of a thread when no message is sent: its messages may be   *)
(* marked or deleted, and keep their author and their time.                *)
(***************************************************************************)
Tended(old, new) ==
    /\ new \in ThreadType
    /\ new.updated = old.updated /\ new.last = old.last
    /\ new.exists => old.exists
    /\ DOMAIN new.log \subseteq DOMAIN old.log
    /\ \A n \in DOMAIN new.log :
           /\ new.log[n].author = old.log[n].author /\ new.log[n].created = old.log[n].created
           /\ old.log[n].shown => new.log[n].shown

LEMMA ThreadFields ==
  ASSUME NEW t \in ThreadType, NEW log \in Logs
  PROVE  LET s == [t EXCEPT !.log = log]
         IN  /\ s \in ThreadType /\ s.log = log /\ s.exists = t.exists
             /\ s.updated = t.updated /\ s.last = t.last
  BY DEF ThreadType

LEMMA TendedItself ==
  ASSUME NEW t \in ThreadType
  PROVE  Tended(t, t)
  BY DEF Tended

LEMMA ShownFields ==
  ASSUME NEW m \in MessageType, NEW ids, NEW n
  PROVE  LET new == [m EXCEPT !.shown = m.shown \/ n \in ids]
         IN  /\ new \in MessageType /\ new.author = m.author /\ new.created = m.created
             /\ new.read = m.read /\ new.shown = (m.shown \/ n \in ids)
<1> DEFINE b == m.shown \/ n \in ids
           new == [m EXCEPT !.shown = m.shown \/ n \in ids]
<1>1. b \in BOOLEAN
  OBVIOUS
<1>2. b = (m.shown \/ n \in ids) /\ new = [m EXCEPT !.shown = b]
  OBVIOUS
<1> HIDE DEF b, new
<1>3. /\ new \in MessageType /\ new.author = m.author /\ new.created = m.created
      /\ new.read = m.read /\ new.shown = b
  BY <1>1, <1>2 DEF MessageType
<1>4. new.shown = (m.shown \/ n \in ids)
  BY <1>2, <1>3, Zenon
<1> QED BY <1>3, <1>4 DEF new

LEMMA ReadFields ==
  ASSUME NEW m \in MessageType, NEW ids, NEW n
  PROVE  LET new == [m EXCEPT !.read = m.read \/ n \in ids]
         IN  /\ new \in MessageType /\ new.author = m.author /\ new.created = m.created
             /\ new.shown = m.shown /\ new.read = (m.read \/ n \in ids)
<1> DEFINE b == m.read \/ n \in ids
           new == [m EXCEPT !.read = m.read \/ n \in ids]
<1>1. b \in BOOLEAN
  OBVIOUS
<1>2. b = (m.read \/ n \in ids) /\ new = [m EXCEPT !.read = b]
  OBVIOUS
<1> HIDE DEF b, new
<1>3. /\ new \in MessageType /\ new.author = m.author /\ new.created = m.created
      /\ new.shown = m.shown /\ new.read = b
  BY <1>1, <1>2 DEF MessageType
<1>4. new.read = (m.read \/ n \in ids)
  BY <1>2, <1>3, Zenon
<1> QED BY <1>3, <1>4 DEF new

LEMMA DisplayedLog ==
  ASSUME NEW log \in Logs, NEW ids
  PROVE  LET new == Displayed(log, ids)
         IN  /\ new \in Logs /\ DOMAIN new = DOMAIN log
             /\ \A n \in DOMAIN log :
                    /\ new[n].author = log[n].author /\ new[n].created = log[n].created
                    /\ new[n].read = log[n].read /\ new[n].shown = (log[n].shown \/ n \in ids)
<1> DEFINE new == Displayed(log, ids)
<1>1. DOMAIN log \in SUBSET (1..MaxMessages) /\ \A n \in DOMAIN log : log[n] \in MessageType
  BY LogFacts
<1>2. new = [n \in DOMAIN log |-> [log[n] EXCEPT !.shown = log[n].shown \/ n \in ids]]
  BY DEF Displayed
<1>3. ASSUME NEW n \in DOMAIN log
      PROVE  /\ new[n] \in MessageType /\ new[n].author = log[n].author
             /\ new[n].created = log[n].created /\ new[n].read = log[n].read
             /\ new[n].shown = (log[n].shown \/ n \in ids)
  <2>1. log[n] \in MessageType
    BY <1>1
  <2> DEFINE m == [log[n] EXCEPT !.shown = log[n].shown \/ n \in ids]
  <2>2. new[n] = m
    BY <1>2
  <2>3. /\ m \in MessageType /\ m.author = log[n].author /\ m.created = log[n].created
        /\ m.read = log[n].read /\ m.shown = (log[n].shown \/ n \in ids)
    BY <2>1, ShownFields
  <2> HIDE DEF m
  <2> QED BY <2>2, <2>3
<1>4. DOMAIN new = DOMAIN log /\ new \in [DOMAIN log -> MessageType]
  BY <1>2, <1>3
<1> HIDE DEF new
<1>5. new \in Logs
  BY <1>1, <1>4, LogMade
<1> QED BY <1>3, <1>4, <1>5 DEF new

LEMMA MarkedLog ==
  ASSUME NEW r, threads[r.thread].log \in Logs
  PROVE  LET log == threads[r.thread].log
             new == Marked(r)
         IN  /\ new \in Logs /\ DOMAIN new = DOMAIN log
             /\ \A n \in DOMAIN log :
                    /\ new[n].author = log[n].author /\ new[n].created = log[n].created
                    /\ new[n].shown = log[n].shown /\ new[n].read = (log[n].read \/ n \in r.ids)
<1> DEFINE log == threads[r.thread].log
           new == Marked(r)
<1>1. DOMAIN log \in SUBSET (1..MaxMessages) /\ \A n \in DOMAIN log : log[n] \in MessageType
  BY LogFacts
<1>2. new = [n \in DOMAIN log |-> [log[n] EXCEPT !.read = log[n].read \/ n \in r.ids]]
  BY DEF Marked
<1> HIDE DEF log, new
<1>3. ASSUME NEW n \in DOMAIN log
      PROVE  /\ new[n] \in MessageType /\ new[n].author = log[n].author
             /\ new[n].created = log[n].created /\ new[n].shown = log[n].shown
             /\ new[n].read = (log[n].read \/ n \in r.ids)
  <2>1. log[n] \in MessageType
    BY <1>1
  <2> DEFINE m == [log[n] EXCEPT !.read = log[n].read \/ n \in r.ids]
  <2>2. new[n] = m
    BY <1>2
  <2>3. /\ m \in MessageType /\ m.author = log[n].author /\ m.created = log[n].created
        /\ m.shown = log[n].shown /\ m.read = (log[n].read \/ n \in r.ids)
    BY <2>1, ReadFields
  <2> HIDE DEF m
  <2> QED BY <2>2, <2>3
<1>4. DOMAIN new = DOMAIN log /\ new \in [DOMAIN log -> MessageType]
  BY <1>2, <1>3
<1>5. new \in Logs
  BY <1>1, <1>4, LogMade
<1> QED BY <1>3, <1>4, <1>5 DEF log, new

LEMMA DisplayedTends ==
  ASSUME NEW t \in ThreadType, NEW ids
  PROVE  Tended(t, [t EXCEPT !.log = Displayed(t.log, ids)])
<1> DEFINE new == Displayed(t.log, ids)
<1>1. t.log \in Logs
  BY DEF ThreadType
<1>2. /\ new \in Logs /\ DOMAIN new = DOMAIN t.log
      /\ \A n \in DOMAIN t.log :
             /\ new[n].author = t.log[n].author /\ new[n].created = t.log[n].created
             /\ new[n].shown = (t.log[n].shown \/ n \in ids)
  BY <1>1, DisplayedLog
<1> HIDE DEF new
<1>3. Tended(t, [t EXCEPT !.log = new])
  BY <1>2, ThreadFields DEF Tended
<1> QED BY <1>3 DEF new

LEMMA MarkedTends ==
  ASSUME NEW r, threads[r.thread] \in ThreadType
  PROVE  Tended(threads[r.thread], [threads[r.thread] EXCEPT !.log = Marked(r)])
<1> DEFINE t == threads[r.thread]
           new == Marked(r)
<1>1. t.log \in Logs
  BY DEF ThreadType
<1>2. /\ new \in Logs /\ DOMAIN new = DOMAIN t.log
      /\ \A n \in DOMAIN t.log :
             /\ new[n].author = t.log[n].author /\ new[n].created = t.log[n].created
             /\ new[n].shown = t.log[n].shown
  BY <1>1, MarkedLog
<1>3. t \in ThreadType
  OBVIOUS
<1> HIDE DEF new, t
<1>4. Tended(t, [t EXCEPT !.log = new])
  BY <1>2, <1>3, ThreadFields DEF Tended
<1> QED BY <1>4 DEF new, t

LEMMA GoneTends ==
  ASSUME NEW t \in ThreadType
  PROVE  Tended(t, Gone(t)) /\ ~ Gone(t).exists
  BY NoThreadFields DEF Gone, Tended, ThreadType

LEMMA WithoutTends ==
  ASSUME NEW t \in ThreadType, NEW u
  PROVE  Tended(t, Without(t, u)) /\ Without(t, u).exists = t.exists
<1> DEFINE ids == {n \in DOMAIN t.log : t.log[n].author # u}
           new == [n \in ids |-> t.log[n]]
<1>1. t.log \in Logs
  BY DEF ThreadType
<1>2. ids \in SUBSET (1..MaxMessages) /\ new \in [ids -> MessageType]
  BY <1>1, LogFacts
<1>3. new \in Logs
  BY <1>2, LogMade
<1>4. Without(t, u) = [t EXCEPT !.log = new]
  BY DEF Without
<1>5. ids \subseteq DOMAIN t.log /\ DOMAIN new = ids /\ \A n \in ids : new[n] = t.log[n]
  OBVIOUS
<1> HIDE DEF new, ids
<1> QED BY <1>3, <1>4, <1>5, ThreadFields DEF Tended

(***************************************************************************)
(* What TypeOK says of the shared state and of one worker.                 *)
(***************************************************************************)
SharedOK ==
    /\ ad \in [live : BOOLEAN, published : BOOLEAN, author : Users]
    /\ accounts \subseteq Users
    /\ threads \in [Users -> ThreadType]
    /\ \A i \in Users :
           DOMAIN threads[i].log \subseteq 1..threads[i].last /\ threads[i].updated <= clock
    /\ quota \in [Users -> [count : Nat, opened : BOOLEAN]]
    /\ locks \in [Rows -> Workers \cup {NoWorker}]
    /\ clock \in Times

RoomOK == \A i \in Users : threads[i].last + UnderWay(i) <= MaxMessages

LEMMA TypeOKParts ==
  TypeOK <=> SharedOK /\ RoomOK /\ req \in [Workers -> Served] /\ (\A w \in Workers : WorkerOK(w))
  BY DEF TypeOK, SharedOK, RoomOK

LEMMA WorkerFacts ==
  ASSUME TypeOK, NEW w \in Workers
  PROVE  /\ req[w] \in Served /\ WorkerOK(w) /\ w # NoWorker
         /\ req[w].user \in Users /\ req[w].thread \in Users /\ req[w].now \in Times
         /\ req[w].ids \in SUBSET (1..MaxMessages) /\ req[w].fresh \in BOOLEAN
         /\ req[w].op \in {"none", "start", "reply", "open"}
         /\ UserRow(req[w].user) \in Rows /\ ThreadRow(req[w].thread) \in Rows
<1>1. req[w] \in Served /\ WorkerOK(w)
  BY DEF TypeOK
<1>2. w # NoWorker
  BY MessagingAssumption DEF MessagingAssumption
<1> QED BY <1>1, <1>2, RowFacts DEF Served

LEMMA ThreadFacts ==
  ASSUME TypeOK, NEW i \in Users
  PROVE  /\ threads[i] \in ThreadType /\ threads[i].log \in Logs
         /\ threads[i].last \in 0..MaxMessages /\ threads[i].updated \in Times
         /\ threads[i].updated <= clock /\ clock \in Times
         /\ DOMAIN threads[i].log \subseteq 1..threads[i].last
<1>1. threads[i] \in ThreadType /\ threads[i].updated <= clock /\ clock \in Times
      /\ DOMAIN threads[i].log \subseteq 1..threads[i].last
  BY DEF TypeOK
<1> QED BY <1>1 DEF ThreadType

(***************************************************************************)
(* Messages under way in a thread.                                         *)
(***************************************************************************)
Under(r, i) == r.pc \in InTransaction /\ r.thread = i

LEMMA UnderWayFinite ==
  ASSUME NEW i
  PROVE  /\ IsFiniteSet({w \in Workers : Under(req[w], i)})
         /\ UnderWay(i) = Cardinality({w \in Workers : Under(req[w], i)}) /\ UnderWay(i) \in Nat
<1>1. IsFiniteSet({w \in Workers : Under(req[w], i)})
  <2>1. {w \in Workers : Under(req[w], i)} \subseteq Workers
    OBVIOUS
  <2> QED BY <2>1, FS_Subset, MessagingAssumption DEF MessagingAssumption
<1>2. {w \in Workers : Under(req[w], i)} = {w \in Workers : req[w].pc \in InTransaction /\ req[w].thread = i}
  BY DEF Under
<1> QED BY <1>1, <1>2, FS_CardinalityType DEF UnderWay

LEMMA UnderWayShrinks ==
  ASSUME NEW i, \A w \in Workers : Under(req'[w], i) => Under(req[w], i)
  PROVE  UnderWay(i)' \in Nat /\ UnderWay(i)' <= UnderWay(i)
<1> DEFINE F == {w \in Workers : Under(req[w], i)}
           G == {w \in Workers : Under(req'[w], i)}
<1>1. IsFiniteSet(F) /\ UnderWay(i) = Cardinality(F)
  BY UnderWayFinite
<1>2. UnderWay(i)' = Cardinality(G)
  <2>1. G = {w \in Workers : req'[w].pc \in InTransaction /\ req'[w].thread = i}
    BY DEF Under
  <2> QED BY <2>1 DEF UnderWay, InTransaction
<1>3. G \subseteq F
  OBVIOUS
<1> HIDE DEF F, G
<1> QED BY <1>1, <1>2, <1>3, FS_Subset, FS_CardinalityType

LEMMA UnderWayAdds ==
  ASSUME NEW i, NEW w \in Workers, ~ Under(req[w], i), \A v \in Workers \ {w} : req'[v] = req[v]
  PROVE  UnderWay(i)' \in Nat /\ UnderWay(i)' <= UnderWay(i) + 1
<1> DEFINE F == {v \in Workers : Under(req[v], i)}
           G == {v \in Workers : Under(req'[v], i)}
<1>1. IsFiniteSet(F) /\ UnderWay(i) = Cardinality(F)
  BY UnderWayFinite
<1>2. UnderWay(i)' = Cardinality(G)
  <2>1. G = {v \in Workers : req'[v].pc \in InTransaction /\ req'[v].thread = i}
    BY DEF Under
  <2> QED BY <2>1 DEF UnderWay, InTransaction
<1>3. G \subseteq F \cup {w} /\ w \notin F
  OBVIOUS
<1> HIDE DEF F, G
<1>4. IsFiniteSet(F \cup {w}) /\ Cardinality(F \cup {w}) = Cardinality(F) + 1
  BY <1>1, <1>3, FS_AddElement
<1> QED BY <1>1, <1>2, <1>3, <1>4, FS_Subset, FS_CardinalityType

LEMMA UnderWayLands ==
  ASSUME NEW i, NEW w \in Workers, Under(req[w], i), ~ Under(req'[w], i),
         \A v \in Workers \ {w} : req'[v] = req[v]
  PROVE  UnderWay(i)' \in Nat /\ UnderWay(i)' + 1 <= UnderWay(i)
<1> DEFINE F == {v \in Workers : Under(req[v], i)}
           G == {v \in Workers : Under(req'[v], i)}
<1>1. IsFiniteSet(F) /\ UnderWay(i) = Cardinality(F)
  BY UnderWayFinite
<1>2. UnderWay(i)' = Cardinality(G)
  <2>1. G = {v \in Workers : req'[v].pc \in InTransaction /\ req'[v].thread = i}
    BY DEF Under
  <2> QED BY <2>1 DEF UnderWay, InTransaction
<1>3. G \subseteq F \ {w} /\ w \in F
  OBVIOUS
<1> HIDE DEF F, G
<1>4. IsFiniteSet(F \ {w}) /\ Cardinality(F \ {w}) = Cardinality(F) - 1
  BY <1>1, <1>3, FS_RemoveElement
<1> QED BY <1>1, <1>2, <1>3, <1>4, FS_Subset, FS_CardinalityType

\* No message comes under way and no thread grows.
LEMMA RoomKept ==
  ASSUME TypeOK,
         \A i \in Users : threads'[i].last = threads[i].last,
         \A i \in Users : \A w \in Workers : Under(req'[w], i) => Under(req[w], i)
  PROVE  RoomOK'
<1> SUFFICES ASSUME NEW i \in Users PROVE threads'[i].last + UnderWay(i)' <= MaxMessages
  BY DEF RoomOK
<1>1. /\ threads[i].last + UnderWay(i) <= MaxMessages /\ threads[i].last \in Nat /\ MaxMessages \in Nat
  BY ThreadFacts, MessagingAssumption DEF TypeOK, MessagingAssumption
<1>2. UnderWay(i) \in Nat /\ UnderWay(i)' \in Nat /\ UnderWay(i)' <= UnderWay(i)
  BY UnderWayShrinks, UnderWayFinite
<1>3. threads'[i].last = threads[i].last
  OBVIOUS
<1> QED BY <1>1, <1>2, <1>3

(***************************************************************************)
(* What a worker relies on while others take their steps.                  *)
(***************************************************************************)
Grown(old, new) ==
    /\ new.last \in Nat /\ old.last <= new.last
    /\ \A n \in DOMAIN new.log : n <= old.last =>
           n \in DOMAIN old.log /\ (old.log[n].shown => new.log[n].shown)

\* The rows v has locked are left to it, and the advertisement it has locked gets
\* no thread of its own making by others.
Kept(v) ==
    LET i == req[v].thread
        u == req[v].user
    IN  /\ \A row \in Rows : locks'[row] = v <=> locks[row] = v
        /\ locks[AdRow] = v => ad' = ad
        /\ locks[AdRow] = v /\ i = u /\ ~ threads[i].exists => ~ threads'[i].exists
        /\ locks[UserRow(u)] = v =>
               /\ u \in accounts => u \in accounts'
               /\ quota'[u].count \in Nat /\ quota'[u].count <= quota[u].count
        /\ locks[ThreadRow(i)] = v =>
               /\ threads'[i].updated = threads[i].updated
               /\ threads[i].exists => threads'[i].exists
        /\ Grown(threads[i], threads'[i])
        /\ clock' \in Times /\ clock <= clock'

LEMMA WorkerKept ==
  ASSUME TypeOK, NEW v \in Workers, req'[v] = req[v], Kept(v)
  PROVE  WorkerOK(v)'
<1> DEFINE r == req[v]
           i == r.thread
           u == r.user
<1>1. /\ r \in Served /\ WorkerOK(v) /\ i \in Users /\ u \in Users /\ r.now \in Times
      /\ UserRow(u) \in Rows /\ ThreadRow(i) \in Rows /\ AdRow \in Rows
      /\ r.ids \in SUBSET (1..MaxMessages)
  BY WorkerFacts, RowFacts
<1>2. /\ HoldsAd(r) => locks[AdRow] = v
      /\ HoldsUser(r) => locks[UserRow(u)] = v
      /\ HoldsThread(r) => locks[ThreadRow(i)] = v
  BY <1>1 DEF WorkerOK, Owns
<1>3. r.pc \in Phases(r.op) /\ \A row \in Rows : locks'[row] = v <=> Owns(r, row)
  BY <1>1 DEF WorkerOK, Kept
<1>4. HoldsAd(r) => r.thread = r.user /\ ad'.live /\ ad'.published /\ ad'.author # r.user
  BY <1>1, <1>2 DEF WorkerOK, Kept
<1>5. HoldsUser(r) => r.user \in accounts'
  BY <1>1, <1>2 DEF WorkerOK, Kept
<1>6. Passed(r) => quota'[r.user].count < Limit
  <2>1. Passed(r) => HoldsUser(r)
    BY DEF Passed, HoldsUser
  <2>2. quota[u].count \in Nat /\ Limit \in Nat
    BY <1>1, MessagingAssumption DEF TypeOK, MessagingAssumption
  <2> QED BY <1>1, <1>2, <2>1, <2>2 DEF WorkerOK, Kept
<1>7. r.fresh => HoldsAd(r) /\ Passed(r) /\ ~ threads'[r.thread].exists
  BY <1>1, <1>2 DEF WorkerOK, Kept
<1>8. /\ HoldsThread(r) /\ ~ r.fresh => threads'[r.thread].exists
      /\ r.pc = "commit" => threads'[r.thread].updated <= r.now /\ r.now <= clock'
  <2>1. r.pc \in {"send", "commit"} => HoldsThread(r)
    BY DEF HoldsThread
  <2>2. clock \in Times /\ clock' \in Times /\ clock <= clock'
    BY ThreadFacts, <1>1 DEF Kept
  <2> QED BY <1>1, <1>2, <2>1, <2>2, MessagingAssumption DEF WorkerOK, Kept, Times, MessagingAssumption
<1>9. ASSUME NEW n \in r.ids
      PROVE  /\ n <= threads'[r.thread].last
             /\ n \in DOMAIN threads'[r.thread].log => threads'[r.thread].log[n].shown
  <2>1. /\ n <= threads[i].last
        /\ n \in DOMAIN threads[i].log => threads[i].log[n].shown
    BY <1>1, <1>9 DEF WorkerOK
  <2>2. Grown(threads[i], threads'[i])
    BY DEF Kept
  <2>3. n \in Int /\ threads[i].last \in Int
    BY <1>1, <1>9, ThreadFacts
  <2> QED BY <1>9, <2>1, <2>2, <2>3 DEF Grown
<1> HIDE DEF r, i, u
<1>10. WorkerOK(v)' <=>
          /\ r.pc \in Phases(r.op)
          /\ \A row \in Rows : locks'[row] = v <=> Owns(r, row)
          /\ HoldsAd(r) => r.thread = r.user /\ ad'.live /\ ad'.published /\ ad'.author # r.user
          /\ HoldsUser(r) => r.user \in accounts'
          /\ Passed(r) => quota'[r.user].count < Limit
          /\ r.fresh => HoldsAd(r) /\ Passed(r) /\ ~ threads'[r.thread].exists
          /\ HoldsThread(r) /\ ~ r.fresh => threads'[r.thread].exists
          /\ r.pc = "commit" => threads'[r.thread].updated <= r.now /\ r.now <= clock'
          /\ \A n \in r.ids :
                 /\ n <= threads'[r.thread].last
                 /\ n \in DOMAIN threads'[r.thread].log => threads'[r.thread].log[n].shown
  BY req'[v] = r DEF WorkerOK, r
<1> QED BY <1>3, <1>4, <1>5, <1>6, <1>7, <1>8, <1>9, <1>10

(***************************************************************************)
(* Steps of one worker.                                                    *)
(***************************************************************************)
\* A worker takes free rows and leaves its own.
OwnLocks(w) ==
    /\ locks' \in [Rows -> Workers \cup {NoWorker}]
    /\ \A row \in Rows : locks'[row] # locks[row] =>
           locks[row] \in {NoWorker, w} /\ locks'[row] \in {NoWorker, w}

LEMMA OthersLocks ==
  ASSUME TypeOK, NEW w \in Workers, OwnLocks(w), NEW v \in Workers \ {w}
  PROVE  \A row \in Rows : locks'[row] = v <=> locks[row] = v
<1>1. v # NoWorker
  BY WorkerFacts
<1> QED BY <1>1 DEF OwnLocks

LEMMA UnchangedLocks ==
  ASSUME TypeOK, NEW w \in Workers, UNCHANGED locks
  PROVE  OwnLocks(w)
  BY DEF TypeOK, OwnLocks

LEMMA ReleaseFacts ==
  ASSUME TypeOK, NEW w \in Workers, Release(w)
  PROVE  OwnLocks(w) /\ \A row \in Rows : locks'[row] # w
<1>1. w # NoWorker
  BY WorkerFacts
<1> QED BY <1>1 DEF TypeOK, Release, OwnLocks

LEMMA TakeFacts ==
  ASSUME TypeOK, NEW w \in Workers, NEW row \in Rows, Take(row, w)
  PROVE  OwnLocks(w) /\ \A x \in Rows : locks'[x] = w <=> (locks[x] = w \/ x = row)
  BY DEF TypeOK, Take, Free, OwnLocks

LEMMA StepKeepsTypes ==
  ASSUME TypeOK, NEW w \in Workers, NEW q \in Served, req' = [req EXCEPT ![w] = q],
         SharedOK', RoomOK', WorkerOK(w)', \A v \in Workers \ {w} : Kept(v)
  PROVE  TypeOK'
<1>1. req' \in [Workers -> Served] /\ \A v \in Workers \ {w} : req'[v] = req[v]
  BY DEF TypeOK
<1>2. \A v \in Workers : WorkerOK(v)'
  BY <1>1, WorkerKept
<1>3. Served' = Served /\ Workers' = Workers
  BY DEF Served, Times
<1> QED BY <1>1, <1>2, <1>3 DEF TypeOK, SharedOK, RoomOK

LEMMA QuietShared ==
  ASSUME TypeOK, NEW w \in Workers, OwnLocks(w), UNCHANGED <<ad, accounts, threads, quota, clock>>
  PROVE  SharedOK' /\ \A v \in Workers \ {w} : Kept(v)
<1>1. SharedOK'
  BY DEF TypeOK, SharedOK, OwnLocks, Times, ThreadType, Logs, MessageType, Rows
<1>2. ASSUME NEW v \in Workers \ {w} PROVE Kept(v)
  <2>1. req[v].thread \in Users /\ req[v].user \in Users
    BY WorkerFacts
  <2>2. /\ quota[req[v].user].count \in Nat /\ threads[req[v].thread].last \in Nat /\ clock \in Times
        /\ clock \in Nat
    BY <2>1, ThreadFacts, MessagingAssumption DEF TypeOK, Times, MessagingAssumption
  <2> QED BY <2>1, <2>2, OthersLocks DEF Kept, Grown
<1> QED BY <1>1, <1>2

LEMMA IdleOK ==
  ASSUME TypeOK, NEW w \in Workers, req' = [req EXCEPT ![w] = Idle],
         \A row \in Rows : locks'[row] # w
  PROVE  WorkerOK(w)'
<1> DEFINE r == Idle
<1>1. req'[w] = r
  BY DEF TypeOK
<1>2. r.pc = "idle" /\ r.op = "none" /\ r.fresh = FALSE /\ r.ids = {}
  BY IdleFields
<1>3. r.pc \in Phases(r.op)
  BY <1>2, PhasesOf
<1>4. ~ HoldsAd(r) /\ ~ HoldsUser(r) /\ ~ HoldsThread(r) /\ ~ Passed(r)
  BY <1>2 DEF HoldsAd, HoldsUser, HoldsThread, Passed
<1> HIDE DEF r
<1> QED BY <1>1, <1>2, <1>3, <1>4 DEF WorkerOK, Owns

LEMMA AbandonStep ==
  ASSUME TypeOK, NEW w \in Workers, Abandon(w), UNCHANGED <<ad, accounts, threads, quota, clock>>
  PROVE  TypeOK'
<1>1. req' = [req EXCEPT ![w] = Idle] /\ Release(w)
  BY DEF Abandon, Become
<1>2. req'[w] = Idle /\ \A v \in Workers \ {w} : req'[v] = req[v]
  BY <1>1 DEF TypeOK
<1>3. OwnLocks(w) /\ \A row \in Rows : locks'[row] # w
  BY <1>1, ReleaseFacts
<1>4. WorkerOK(w)' /\ Idle \in Served
  BY <1>1, <1>3, IdleOK, IdleFields
<1>5. \A i \in Users : \A v \in Workers : Under(req'[v], i) => Under(req[v], i)
  BY <1>2, IdleFields DEF Under, InTransaction
<1>6. RoomOK'
  <2>1. \A i \in Users : threads'[i].last = threads[i].last
    OBVIOUS
  <2> QED BY <2>1, <1>5, RoomKept
<1>7. SharedOK' /\ \A v \in Workers \ {w} : Kept(v)
  BY <1>3, QuietShared
<1> QED BY <1>1, <1>4, <1>6, <1>7, StepKeepsTypes

\* A transaction moves on, with the rows and the counters as they are.
LEMMA AdvanceStep ==
  ASSUME TypeOK, NEW w \in Workers, NEW q \in Served, req' = [req EXCEPT ![w] = q],
         OwnLocks(w), UNCHANGED <<ad, accounts, threads, quota, clock>>,
         req[w].pc \in InTransaction,
         q.op = req[w].op, q.user = req[w].user, q.thread = req[w].thread, q.ids = req[w].ids,
         q.pc \in Phases(q.op),
         \A row \in Rows : locks'[row] = w <=> Owns(q, row),
         HoldsUser(q) => q.user \in accounts,
         Passed(q) => quota[q.user].count < Limit,
         q.fresh => HoldsAd(q) /\ Passed(q) /\ ~ threads[q.thread].exists,
         HoldsThread(q) /\ ~ q.fresh => threads[q.thread].exists,
         q.pc = "commit" => threads[q.thread].updated <= q.now /\ q.now <= clock
  PROVE  TypeOK'
<1>1. req'[w] = q /\ \A v \in Workers \ {w} : req'[v] = req[v]
  BY DEF TypeOK
<1>2. WorkerOK(w)
  BY WorkerFacts
<1>3. HoldsAd(q) => q.thread = q.user /\ ad.live /\ ad.published /\ ad.author # q.user
  BY <1>2 DEF WorkerOK, HoldsAd
<1>4. \A n \in q.ids :
          /\ n <= threads[q.thread].last
          /\ n \in DOMAIN threads[q.thread].log => threads[q.thread].log[n].shown
  BY <1>2 DEF WorkerOK
<1>5. WorkerOK(w)'
  BY <1>1, <1>3, <1>4 DEF WorkerOK
<1>6. RoomOK'
  <2>1. \A i \in Users : threads'[i].last = threads[i].last
    OBVIOUS
  <2>2. \A i \in Users : \A v \in Workers : Under(req'[v], i) => Under(req[v], i)
    BY <1>1 DEF Under
  <2> QED BY <2>1, <2>2, RoomKept
<1>7. SharedOK' /\ \A v \in Workers \ {w} : Kept(v)
  BY QuietShared
<1> QED BY <1>5, <1>6, <1>7, StepKeepsTypes

\* What a request that goes through its transaction has of the rows.
LEMMA PhaseFacts ==
  ASSUME TypeOK, NEW w \in Workers, req[w].pc \in InTransaction
  PROVE  /\ req[w].op \in {"start", "reply"}
         /\ \A row \in Rows : locks[row] = w <=> Owns(req[w], row)
         /\ HoldsUser(req[w]) => req[w].user \in accounts
         /\ Passed(req[w]) => quota[req[w].user].count < Limit
         /\ req[w].fresh => HoldsAd(req[w]) /\ Passed(req[w]) /\ ~ threads[req[w].thread].exists
         /\ HoldsThread(req[w]) /\ ~ req[w].fresh => threads[req[w].thread].exists
<1>1. WorkerOK(w) /\ req[w].op \in {"none", "start", "reply", "open"}
  BY WorkerFacts
<1>2. req[w].op \in {"start", "reply"}
  BY <1>1, PhasesOf DEF WorkerOK, InTransaction
<1> QED BY <1>1, <1>2 DEF WorkerOK

\* A request at the beginning, or with a page to show, has no locks.
LEMMA NoLocks ==
  ASSUME TypeOK, NEW w \in Workers, req[w].pc \in {"idle", "page", "mark"}
  PROVE  \A row \in Rows : locks[row] # w
<1>1. WorkerOK(w) /\ req[w].op \in {"none", "start", "reply", "open"}
  BY WorkerFacts
<1>2. req[w].op # "start"
  BY <1>1, PhasesOf DEF WorkerOK
<1>3. ~ HoldsAd(req[w]) /\ ~ HoldsUser(req[w]) /\ ~ HoldsThread(req[w])
  BY <1>2 DEF HoldsAd, HoldsUser, HoldsThread
<1> QED BY <1>1, <1>3 DEF WorkerOK, Owns

LEMMA BeginStep ==
  ASSUME TypeOK, NEW w \in Workers, NEW op \in {"start", "reply"}, NEW u \in Users, NEW i \in Users,
         req[w].pc = "idle", Room(i), req' = [req EXCEPT ![w] = Begin(op, u, i)],
         OwnLocks(w), UNCHANGED <<ad, accounts, threads, quota, clock>>,
         \A row \in Rows : locks'[row] = w <=> (op = "start" /\ row = AdRow),
         op = "start" => i = u /\ ad.live /\ ad.published /\ ad.author # u
  PROVE  TypeOK'
<1> DEFINE q == Begin(op, u, i)
<1>1. /\ q \in Served /\ q.pc = "user" /\ q.op = op /\ q.user = u /\ q.thread = i
      /\ ~ q.fresh /\ q.ids = {}
  BY BeginFields
<1> HIDE DEF q
<1>2. req'[w] = q /\ \A v \in Workers \ {w} : req'[v] = req[v]
  BY DEF TypeOK, q
<1>3. q.pc \in Phases(q.op)
  BY <1>1, PhasesOf
<1>4. (HoldsAd(q) <=> op = "start") /\ ~ HoldsUser(q) /\ ~ HoldsThread(q) /\ ~ Passed(q)
  BY <1>1 DEF HoldsAd, HoldsUser, HoldsThread, Passed
<1>5. \A row \in Rows : locks'[row] = w <=> Owns(q, row)
  BY <1>4 DEF Owns
<1>6. WorkerOK(w)'
  BY <1>1, <1>2, <1>3, <1>4, <1>5 DEF WorkerOK
<1>7. RoomOK'
  <2> SUFFICES ASSUME NEW j \in Users PROVE threads'[j].last + UnderWay(j)' <= MaxMessages
    BY DEF RoomOK
  <2>1. /\ threads[j].last + UnderWay(j) <= MaxMessages /\ threads[j].last \in Nat
        /\ MaxMessages \in Nat /\ UnderWay(j) \in Nat
    <3>1. threads[j].last + UnderWay(j) <= MaxMessages
      BY DEF TypeOK
    <3>2. UnderWay(j) \in Nat
      BY UnderWayFinite
    <3> QED BY <3>1, <3>2, ThreadFacts, MessagingAssumption DEF MessagingAssumption
  <2>2. ~ Under(req[w], j)
    BY DEF Under, InTransaction
  <2>3. CASE j = i
    <3>1. threads[j].last + UnderWay(j) < MaxMessages
      BY <2>3 DEF Room
    <3>2. UnderWay(j)' \in Nat /\ UnderWay(j)' <= UnderWay(j) + 1
      BY <1>2, <2>2, UnderWayAdds
    <3>3. threads'[j].last = threads[j].last
      OBVIOUS
    <3> QED BY <2>1, <3>1, <3>2, <3>3
  <2>4. CASE j # i
    <3>1. \A v \in Workers : Under(req'[v], j) => Under(req[v], j)
      BY <1>1, <1>2, <2>4 DEF Under
    <3>2. UnderWay(j)' \in Nat /\ UnderWay(j)' <= UnderWay(j)
      BY <3>1, UnderWayShrinks
    <3>3. threads'[j].last = threads[j].last
      OBVIOUS
    <3> QED BY <2>1, <3>2, <3>3
  <2> QED BY <2>3, <2>4
<1>8. SharedOK' /\ \A v \in Workers \ {w} : Kept(v)
  BY QuietShared
<1>9. req' = [req EXCEPT ![w] = q]
  BY DEF q
<1> QED BY <1>1, <1>6, <1>7, <1>8, <1>9, StepKeepsTypes

LEMMA StartStep ==
  ASSUME TypeOK, NEW w \in Workers, Start(w)
  PROVE  TypeOK'
<1>1. PICK u \in accounts \ {ad.author} : Room(u) /\ req' = [req EXCEPT ![w] = Begin("start", u, u)]
  BY DEF Start, Become
<1>2. /\ req[w].pc = "idle" /\ ad.live /\ ad.published /\ Take(AdRow, w)
      /\ UNCHANGED <<ad, accounts, threads, quota, clock>>
  BY DEF Start
<1>3. u \in Users
  BY DEF TypeOK
<1>4. OwnLocks(w) /\ \A x \in Rows : locks'[x] = w <=> (locks[x] = w \/ x = AdRow)
  BY <1>2, RowFacts, TakeFacts
<1>5. \A row \in Rows : locks'[row] = w <=> ("start" = "start" /\ row = AdRow)
  BY <1>2, <1>4, NoLocks
<1>6. "start" = "start" => u = u /\ ad.live /\ ad.published /\ ad.author # u
  BY <1>1, <1>2
<1> QED BY <1>1, <1>2, <1>3, <1>4, <1>5, <1>6, BeginStep

LEMMA ReplyStep ==
  ASSUME TypeOK, NEW w \in Workers, Reply(w)
  PROVE  TypeOK'
<1>1. PICK u \in accounts, i \in Users : Room(i) /\ req' = [req EXCEPT ![w] = Begin("reply", u, i)]
  BY DEF Reply, Become
<1>2. req[w].pc = "idle" /\ UNCHANGED <<ad, accounts, threads, quota, locks, clock>>
  BY DEF Reply
<1>3. u \in Users
  BY DEF TypeOK
<1>4. OwnLocks(w)
  BY <1>2, UnchangedLocks
<1>5. \A row \in Rows : locks'[row] = w <=> ("reply" = "start" /\ row = AdRow)
  BY <1>2, NoLocks
<1>6. "reply" = "start" => i = u /\ ad.live /\ ad.published /\ ad.author # u
  OBVIOUS
<1> QED BY <1>1, <1>2, <1>3, <1>4, <1>5, <1>6, BeginStep

LEMMA LockUserStep ==
  ASSUME TypeOK, NEW w \in Workers, LockUser(w)
  PROVE  TypeOK'
<1> DEFINE r == req[w]
           q == [r EXCEPT !.pc = After(r.op, "user")]
<1>1. r.pc = "user" /\ UNCHANGED <<ad, accounts, threads, quota, clock>>
  BY DEF LockUser
<1>2. CASE r.user \notin accounts
  BY <1>1, <1>2, AbandonStep DEF LockUser
<1>3. CASE r.user \in accounts
  <2>1. Take(UserRow(r.user), w) /\ req' = [req EXCEPT ![w] = q]
    BY <1>1, <1>3 DEF LockUser, Advance, Goto, Become
  <2>2. /\ r \in Served /\ r.pc \in InTransaction /\ UserRow(r.user) \in Rows
        /\ r.op \in {"start", "reply"} /\ (r.fresh => HoldsAd(r) /\ Passed(r))
        /\ \A row \in Rows : locks[row] = w <=> Owns(r, row)
    BY <1>1, WorkerFacts, PhaseFacts DEF InTransaction
  <2>3. ~ r.fresh
    BY <1>1, <2>2 DEF Passed
  <2>4. After(r.op, "user") = IF r.op = "start" THEN "quota" ELSE "thread"
    BY DEF After
  <2>5. /\ q \in Served /\ q.pc = After(r.op, "user") /\ q.op = r.op /\ q.user = r.user /\ q.thread = r.thread
        /\ q.fresh = r.fresh /\ q.now = r.now /\ q.ids = r.ids
    BY <2>2, <2>4, MovedFields DEF InTransaction
  <2> HIDE DEF q, r
  <2>6. OwnLocks(w) /\ \A x \in Rows : locks'[x] = w <=> (locks[x] = w \/ x = UserRow(r.user))
    BY <2>1, <2>2, TakeFacts
  <2>7. \A row \in Rows : locks'[row] = w <=> Owns(q, row)
    BY <1>1, <2>2, <2>4, <2>5, <2>6 DEF Owns, HoldsAd, HoldsUser, HoldsThread
  <2>8. q.pc \in Phases(q.op)
    BY <2>2, <2>4, <2>5, PhasesOf
  <2>9. ~ Passed(q) /\ ~ HoldsThread(q) /\ q.pc # "commit"
    BY <2>2, <2>4, <2>5 DEF Passed, HoldsThread
  <2>10. HoldsUser(q) => q.user \in accounts
    BY <1>3, <2>5
  <2>11. /\ req[w].pc \in InTransaction /\ q.op = req[w].op /\ q.user = req[w].user
         /\ q.thread = req[w].thread /\ q.ids = req[w].ids
    BY <2>2, <2>5 DEF r
  <2>12. /\ Passed(q) => quota[q.user].count < Limit
         /\ q.fresh => HoldsAd(q) /\ Passed(q) /\ ~ threads[q.thread].exists
         /\ HoldsThread(q) /\ ~ q.fresh => threads[q.thread].exists
         /\ q.pc = "commit" => threads[q.thread].updated <= q.now /\ q.now <= clock
    BY <2>3, <2>5, <2>9
  <2> QED BY <1>1, <2>1, <2>5, <2>6, <2>7, <2>8, <2>10, <2>11, <2>12, AdvanceStep
<1> QED BY <1>2, <1>3

\* The same for a step whose record may change in two fields.
LEMMA FreshFields ==
  ASSUME NEW r \in Served, NEW pc \in InTransaction
  PROVE  LET q == [r EXCEPT !.fresh = Opens(r), !.pc = pc]
         IN  /\ q \in Served /\ q.pc = pc /\ q.op = r.op /\ q.user = r.user /\ q.thread = r.thread
             /\ q.now = r.now /\ q.ids = r.ids /\ q.fresh \in BOOLEAN /\ (q.fresh <=> Opens(r))
<1> DEFINE b == Opens(r)
           q == [r EXCEPT !.fresh = Opens(r), !.pc = pc]
<1>1. b \in BOOLEAN
  BY DEF Opens
<1>2. q = [r EXCEPT !.fresh = b, !.pc = pc] /\ b = Opens(r)
  OBVIOUS
<1> HIDE DEF b, q
<1>3. /\ q \in Served /\ q.pc = pc /\ q.op = r.op /\ q.user = r.user /\ q.thread = r.thread
      /\ q.now = r.now /\ q.ids = r.ids /\ q.fresh = b
  BY <1>1, <1>2 DEF Served, InTransaction
<1>4. q.fresh \in BOOLEAN /\ (q.fresh <=> Opens(r))
  BY <1>1, <1>2, <1>3, Zenon
<1> QED BY <1>3, <1>4 DEF q

LEMMA CheckQuotaStep ==
  ASSUME TypeOK, NEW w \in Workers, CheckQuota(w)
  PROVE  TypeOK'
<1> DEFINE r == req[w]
<1>1. r.pc = "quota" /\ UNCHANGED <<ad, accounts, threads, quota, clock>>
  BY DEF CheckQuota
<1>2. /\ r \in Served /\ r.pc \in InTransaction /\ UserRow(r.user) \in Rows
      /\ r.op \in {"start", "reply"} /\ (r.fresh => HoldsAd(r) /\ Passed(r))
      /\ HoldsUser(r) => r.user \in accounts
      /\ HoldsThread(r) /\ ~ r.fresh => threads[r.thread].exists
      /\ \A row \in Rows : locks[row] = w <=> Owns(r, row)
  BY <1>1, WorkerFacts, PhaseFacts DEF InTransaction
<1>3. ~ r.fresh /\ r.user \in accounts
  BY <1>1, <1>2 DEF Passed, HoldsUser
<1>4. CASE Allowed(r)
  <2> DEFINE q == [r EXCEPT !.fresh = Opens(r), !.pc = After(r.op, "quota")]
  <2>1. req' = [req EXCEPT ![w] = q] /\ UNCHANGED locks
    BY <1>1, <1>4 DEF CheckQuota, Become
  <2>2. After(r.op, "quota") = IF r.op = "start" THEN "thread" ELSE "send"
    BY DEF After
  <2>3. /\ q \in Served /\ q.pc = After(r.op, "quota") /\ q.op = r.op /\ q.user = r.user /\ q.thread = r.thread
        /\ q.now = r.now /\ q.ids = r.ids /\ (q.fresh <=> Opens(r))
    <3>1. r \in Served /\ After(r.op, "quota") \in InTransaction
      BY <1>2, <2>2 DEF InTransaction
    <3> QED BY <3>1, FreshFields
  <2>4. /\ quota[r.user].count < Limit
        /\ Opens(r) <=> r.op = "start" /\ ~ threads[r.thread].exists
    BY <1>4 DEF Allowed, Opens
  <2>5. OwnLocks(w)
    BY <2>1, UnchangedLocks
  <2> HIDE DEF q, r
  <2>6. \A row \in Rows : locks'[row] = w <=> Owns(q, row)
    BY <1>1, <1>2, <2>1, <2>2, <2>3 DEF Owns, HoldsAd, HoldsUser, HoldsThread
  <2>7. q.pc \in Phases(q.op)
    BY <1>2, <2>2, <2>3, PhasesOf
  <2>8. /\ HoldsUser(q) => q.user \in accounts
        /\ Passed(q) => quota[q.user].count < Limit
        /\ q.pc # "commit"
    BY <1>2, <1>3, <2>2, <2>3, <2>4
  <2>9. q.fresh => HoldsAd(q) /\ Passed(q) /\ ~ threads[q.thread].exists
    BY <2>2, <2>3, <2>4 DEF HoldsAd, Passed
  <2>10. HoldsThread(q) /\ ~ q.fresh => threads[q.thread].exists
    <3>1. r.op = "reply" => HoldsThread(r)
      BY <1>1 DEF HoldsThread
    <3>2. r.op = "start" => ~ HoldsThread(q)
      BY <2>2, <2>3 DEF HoldsThread
    <3> QED BY <1>2, <1>3, <2>3, <3>1, <3>2
  <2>11. /\ req[w].pc \in InTransaction /\ q.op = req[w].op /\ q.user = req[w].user
         /\ q.thread = req[w].thread /\ q.ids = req[w].ids
    BY <1>2, <2>3 DEF r
  <2>12. /\ Passed(q) => quota[q.user].count < Limit
         /\ q.pc = "commit" => threads[q.thread].updated <= q.now /\ q.now <= clock
    BY <2>8
  <2> QED BY <1>1, <2>1, <2>3, <2>5, <2>6, <2>7, <2>8, <2>9, <2>10, <2>11, <2>12, AdvanceStep
<1>5. CASE ~ Allowed(r) /\ r.op = "start"
  <2>1. Abandon(w)
    BY <1>1, <1>5 DEF CheckQuota, Abandon
  <2> QED BY <1>1, <2>1, AbandonStep
<1>6. CASE ~ Allowed(r) /\ r.op # "start"
  <2> DEFINE q == [r EXCEPT !.pc = "page"]
  <2>1. req' = [req EXCEPT ![w] = q] /\ Release(w)
    BY <1>1, <1>6 DEF CheckQuota, Become
  <2>2. /\ q \in Served /\ q.pc = "page" /\ q.op = r.op /\ q.user = r.user /\ q.thread = r.thread
        /\ q.fresh = r.fresh /\ q.now = r.now /\ q.ids = r.ids
    BY <1>2, MovedFields
  <2>3. OwnLocks(w) /\ \A row \in Rows : locks'[row] # w
    BY <2>1, ReleaseFacts
  <2> HIDE DEF q, r
  <2>4. ~ HoldsAd(q) /\ ~ HoldsUser(q) /\ ~ HoldsThread(q) /\ ~ Passed(q) /\ q.pc # "commit"
    BY <1>6, <2>2 DEF HoldsAd, HoldsUser, HoldsThread, Passed
  <2>5. \A row \in Rows : locks'[row] = w <=> Owns(q, row)
    BY <2>3, <2>4 DEF Owns
  <2>6. q.pc \in Phases(q.op)
    BY <1>2, <1>6, <2>2, PhasesOf
  <2>7. /\ HoldsUser(q) => q.user \in accounts
        /\ Passed(q) => quota[q.user].count < Limit
        /\ q.fresh => HoldsAd(q) /\ Passed(q) /\ ~ threads[q.thread].exists
        /\ HoldsThread(q) /\ ~ q.fresh => threads[q.thread].exists
        /\ q.pc = "commit" => threads[q.thread].updated <= q.now /\ q.now <= clock
    BY <1>3, <2>2, <2>4
  <2>8. /\ req[w].pc \in InTransaction /\ q.op = req[w].op /\ q.user = req[w].user
        /\ q.thread = req[w].thread /\ q.ids = req[w].ids
    BY <1>2, <2>2 DEF r
  <2> QED BY <1>1, <2>1, <2>2, <2>3, <2>5, <2>6, <2>7, <2>8, AdvanceStep
<1> QED BY <1>4, <1>5, <1>6

LEMMA LockThreadStep ==
  ASSUME TypeOK, NEW w \in Workers, LockThread(w)
  PROVE  TypeOK'
<1> DEFINE r == req[w]
           q == [r EXCEPT !.pc = After(r.op, "thread")]
<1>1. r.pc = "thread" /\ UNCHANGED <<ad, accounts, threads, quota, clock>>
  BY DEF LockThread
<1>2. CASE ~ Reachable(r)
  BY <1>1, <1>2, AbandonStep DEF LockThread
<1>3. CASE Reachable(r)
  <2>1. Take(ThreadRow(r.thread), w) /\ req' = [req EXCEPT ![w] = q]
    BY <1>1, <1>3 DEF LockThread, Advance, Goto, Become
  <2>2. /\ r \in Served /\ r.pc \in InTransaction /\ ThreadRow(r.thread) \in Rows
        /\ r.op \in {"start", "reply"} /\ (r.fresh => HoldsAd(r) /\ ~ threads[r.thread].exists)
        /\ HoldsUser(r) => r.user \in accounts
        /\ Passed(r) => quota[r.user].count < Limit
        /\ \A row \in Rows : locks[row] = w <=> Owns(r, row)
    BY <1>1, WorkerFacts, PhaseFacts DEF InTransaction
  <2>3. ~ r.fresh => threads[r.thread].exists
    BY <1>3 DEF Reachable, CanSee
  <2>4. After(r.op, "thread") = IF r.op = "start" THEN "send" ELSE "quota"
    BY DEF After
  <2>5. /\ q \in Served /\ q.pc = After(r.op, "thread") /\ q.op = r.op /\ q.user = r.user /\ q.thread = r.thread
        /\ q.fresh = r.fresh /\ q.now = r.now /\ q.ids = r.ids
    BY <2>2, <2>4, MovedFields DEF InTransaction
  <2> HIDE DEF q, r
  <2>6. OwnLocks(w) /\ \A x \in Rows : locks'[x] = w <=> (locks[x] = w \/ x = ThreadRow(r.thread))
    BY <2>1, <2>2, TakeFacts
  <2>7. \A row \in Rows : locks'[row] = w <=> Owns(q, row)
    BY <1>1, <2>2, <2>4, <2>5, <2>6 DEF Owns, HoldsAd, HoldsUser, HoldsThread
  <2>8. q.pc \in Phases(q.op)
    BY <2>2, <2>4, <2>5, PhasesOf
  <2>9. /\ HoldsUser(r) /\ q.pc # "commit"
        /\ Passed(q) => Passed(r)
    BY <1>1, <2>2, <2>4, <2>5 DEF Passed, HoldsUser
  <2>10. HoldsUser(q) => q.user \in accounts
    BY <2>2, <2>5, <2>9
  <2>11. /\ req[w].pc \in InTransaction /\ q.op = req[w].op /\ q.user = req[w].user
         /\ q.thread = req[w].thread /\ q.ids = req[w].ids
    BY <2>2, <2>5 DEF r
  <2>12. q.fresh => HoldsAd(q) /\ Passed(q) /\ ~ threads[q.thread].exists
    BY <2>2, <2>4, <2>5 DEF HoldsAd, Passed
  <2>13. /\ Passed(q) => quota[q.user].count < Limit
         /\ HoldsThread(q) /\ ~ q.fresh => threads[q.thread].exists
         /\ q.pc = "commit" => threads[q.thread].updated <= q.now /\ q.now <= clock
    BY <2>2, <2>3, <2>5, <2>9
  <2> QED BY <1>1, <2>1, <2>5, <2>6, <2>7, <2>8, <2>10, <2>11, <2>12, <2>13, AdvanceStep
<1> QED BY <1>2, <1>3

LEMMA SendStep ==
  ASSUME TypeOK, NEW w \in Workers, Send(w)
  PROVE  TypeOK'
<1> DEFINE r == req[w]
           q == [r EXCEPT !.pc = "commit", !.now = clock]
<1>1. r.pc = "send" /\ UNCHANGED <<ad, accounts, threads, quota, clock>>
  BY DEF Send
<1>2. CASE r.user \notin Participants(r.thread)
  BY <1>1, <1>2, AbandonStep DEF Send
<1>3. CASE r.user \in Participants(r.thread)
  <2>1. UNCHANGED locks /\ req' = [req EXCEPT ![w] = q]
    BY <1>1, <1>3 DEF Send, Become
  <2>2. /\ r \in Served /\ r.pc \in InTransaction /\ r.thread \in Users
        /\ r.op \in {"start", "reply"}
        /\ r.fresh => HoldsAd(r) /\ Passed(r) /\ ~ threads[r.thread].exists
        /\ HoldsUser(r) => r.user \in accounts
        /\ Passed(r) => quota[r.user].count < Limit
        /\ HoldsThread(r) /\ ~ r.fresh => threads[r.thread].exists
        /\ \A row \in Rows : locks[row] = w <=> Owns(r, row)
    BY <1>1, WorkerFacts, PhaseFacts DEF InTransaction
  <2>3. /\ threads[r.thread].updated <= clock /\ clock \in Times
    BY <2>2, ThreadFacts
  <2>4. clock <= clock
    BY <2>3, MessagingAssumption DEF Times, MessagingAssumption
  <2>5. /\ q \in Served /\ q.pc = "commit" /\ q.op = r.op /\ q.user = r.user /\ q.thread = r.thread
        /\ q.fresh = r.fresh /\ q.now = clock /\ q.ids = r.ids
    BY <2>2, <2>3 DEF Served
  <2> HIDE DEF q, r
  <2>6. OwnLocks(w)
    BY <2>1, UnchangedLocks
  <2>7. /\ HoldsUser(q) /\ HoldsUser(r) /\ HoldsThread(q) /\ HoldsThread(r) /\ Passed(q) /\ Passed(r)
        /\ HoldsAd(q) <=> HoldsAd(r)
    BY <1>1, <2>5 DEF HoldsUser, HoldsThread, Passed, HoldsAd
  <2>8. \A row \in Rows : locks'[row] = w <=> Owns(q, row)
    BY <2>1, <2>2, <2>5, <2>7 DEF Owns
  <2>9. q.pc \in Phases(q.op)
    BY <2>2, <2>5, PhasesOf
  <2>10. /\ HoldsUser(q) => q.user \in accounts
         /\ Passed(q) => quota[q.user].count < Limit
         /\ q.fresh => HoldsAd(q) /\ Passed(q) /\ ~ threads[q.thread].exists
         /\ HoldsThread(q) /\ ~ q.fresh => threads[q.thread].exists
         /\ q.pc = "commit" => threads[q.thread].updated <= q.now /\ q.now <= clock
    BY <2>2, <2>3, <2>4, <2>5, <2>7
  <2>11. /\ req[w].pc \in InTransaction /\ q.op = req[w].op /\ q.user = req[w].user
         /\ q.thread = req[w].thread /\ q.ids = req[w].ids
    BY <2>2, <2>5 DEF r
  <2> QED BY <1>1, <2>1, <2>5, <2>6, <2>8, <2>9, <2>10, <2>11, AdvanceStep
<1> QED BY <1>2, <1>3

(***************************************************************************)
(* A message is delivered.                                                 *)
(***************************************************************************)
LEMMA DeliveredFields ==
  ASSUME NEW r, r.user \in Users, r.now \in Times, NEW t \in ThreadType, threads[r.thread] = t,
         t.last + 1 \in 1..MaxMessages, DOMAIN t.log \subseteq 1..t.last, t.last \in Nat
  PROVE  LET s == Delivered(r)
             id == t.last + 1
         IN  /\ s \in ThreadType /\ s.exists /\ s.updated = r.now /\ s.last = id
             /\ DOMAIN s.log = DOMAIN t.log \cup {id} /\ id \notin DOMAIN t.log
             /\ s.log[id].created = r.now /\ ~ s.log[id].read
             /\ \A n \in DOMAIN t.log : s.log[n] = t.log[n]
<1> DEFINE id == t.last + 1
           ids == DOMAIN t.log \cup {id}
           log == [n \in ids |-> IF n = id THEN Message(r.user, r.now) ELSE t.log[n]]
<1>1. Delivered(r) = [exists |-> TRUE, updated |-> r.now, last |-> id, log |-> log]
  BY DEF Delivered
<1>2. t.log \in Logs
  BY DEF ThreadType
<1>3. ids \in SUBSET (1..MaxMessages) /\ \A n \in DOMAIN t.log : t.log[n] \in MessageType
  BY <1>2, LogFacts
<1>4. Message(r.user, r.now) \in MessageType /\ Message(r.user, r.now).created = r.now
      /\ ~ Message(r.user, r.now).read
  BY MessageFields
<1>5. log \in [ids -> MessageType]
  BY <1>3, <1>4
<1>6. log \in Logs
  BY <1>3, <1>5, LogMade
<1>7. id \in 0..MaxMessages /\ id \notin DOMAIN t.log /\ id \in ids
  BY MessagingAssumption DEF MessagingAssumption
<1>8. DOMAIN log = ids /\ log[id] = Message(r.user, r.now) /\ \A n \in DOMAIN t.log : log[n] = t.log[n]
  BY <1>7
<1> HIDE DEF log, id, ids
<1>9. LET s == Delivered(r)
      IN  /\ s \in ThreadType /\ s.exists /\ s.updated = r.now /\ s.last = id /\ s.log = log
  BY <1>1, <1>6, <1>7 DEF ThreadType
<1> QED BY <1>4, <1>7, <1>8, <1>9 DEF ids, id

LEMMA CommitRoom ==
  ASSUME TypeOK, NEW w \in Workers, Commit(w), NEW i \in Users, req[w].thread = i
  PROVE  /\ UnderWay(i)' \in Nat /\ UnderWay(i)' + (threads[i].last + 1) <= MaxMessages
         /\ threads[i].last + 1 \in 1..MaxMessages
<1>1. req[w].pc = "commit" /\ req' = [req EXCEPT ![w] = Idle]
  BY DEF Commit, Become
<1>2. Under(req[w], i) /\ ~ Under(req'[w], i) /\ \A v \in Workers \ {w} : req'[v] = req[v]
  BY <1>1, IdleFields DEF TypeOK, Under, InTransaction
<1>3. UnderWay(i)' \in Nat /\ UnderWay(i)' + 1 <= UnderWay(i)
  BY <1>2, UnderWayLands
<1>4. threads[i].last + UnderWay(i) <= MaxMessages
  BY DEF TypeOK
<1>5. UnderWay(i) \in Nat /\ threads[i].last \in 0..MaxMessages
  BY UnderWayFinite, ThreadFacts
<1> QED BY <1>3, <1>4, <1>5, MessagingAssumption DEF MessagingAssumption

LEMMA CommitFacts ==
  ASSUME TypeOK, NEW w \in Workers, Commit(w)
  PROVE  LET r == req[w]
             t == threads[r.thread]
             s == Delivered(r)
             id == t.last + 1
         IN  /\ r.thread \in Users /\ r.user \in Users
             /\ threads' = [threads EXCEPT ![r.thread] = s]
             /\ t.last \in Nat /\ id \in 1..MaxMessages
             /\ s \in ThreadType /\ s.exists /\ s.updated = r.now /\ s.last = id
             /\ DOMAIN s.log = DOMAIN t.log \cup {id} /\ id \notin DOMAIN t.log
             /\ DOMAIN t.log \subseteq 1..t.last
             /\ s.log[id].created = r.now /\ ~ s.log[id].read
             /\ \A n \in DOMAIN t.log : s.log[n] = t.log[n]
             /\ t.updated <= r.now /\ r.now <= clock /\ r.now \in Times
             /\ quota[r.user].count < Limit
             /\ r.fresh => HoldsAd(r) /\ ~ t.exists
             /\ ~ r.fresh => t.exists
             /\ HoldsUser(r) /\ HoldsThread(r)
<1> DEFINE r == req[w]
           t == threads[r.thread]
           id == t.last + 1
<1>1. r.pc = "commit" /\ threads' = [threads EXCEPT ![r.thread] = Delivered(r)]
      /\ req' = [req EXCEPT ![w] = Idle]
  BY DEF Commit, Become
<1>2. /\ r \in Served /\ WorkerOK(w) /\ r.thread \in Users /\ r.user \in Users /\ r.now \in Times
  BY WorkerFacts
<1>3. t \in ThreadType /\ t.last \in 0..MaxMessages /\ DOMAIN t.log \subseteq 1..t.last
  BY <1>2, ThreadFacts
<1>4. id \in 1..MaxMessages
  BY <1>2, CommitRoom
<1>5. LET s == Delivered(r)
      IN  /\ s \in ThreadType /\ s.exists /\ s.updated = r.now /\ s.last = id
          /\ DOMAIN s.log = DOMAIN t.log \cup {id} /\ id \notin DOMAIN t.log
          /\ s.log[id].created = r.now /\ ~ s.log[id].read
          /\ \A n \in DOMAIN t.log : s.log[n] = t.log[n]
  BY <1>2, <1>3, <1>4, DeliveredFields
<1>6. HoldsUser(r) /\ HoldsThread(r) /\ Passed(r)
  BY <1>1 DEF HoldsUser, HoldsThread, Passed
<1>7. /\ t.updated <= r.now /\ r.now <= clock /\ quota[r.user].count < Limit
      /\ r.fresh => HoldsAd(r) /\ ~ t.exists
      /\ ~ r.fresh => t.exists
  BY <1>1, <1>2, <1>6 DEF WorkerOK
<1>8. t.last \in Nat
  BY <1>3
<1> HIDE DEF r, t, id
<1> QED BY <1>1, <1>2, <1>3, <1>4, <1>5, <1>6, <1>7, <1>8 DEF r, t, id

LEMMA CommitStep ==
  ASSUME TypeOK, NEW w \in Workers, Commit(w)
  PROVE  TypeOK'
<1> DEFINE r == req[w]
           i == r.thread
           u == r.user
           t == threads[i]
           s == Delivered(r)
           id == t.last + 1
<1>1. /\ i \in Users /\ u \in Users /\ threads' = [threads EXCEPT ![i] = s]
      /\ t.last \in Nat /\ id \in 1..MaxMessages
      /\ s \in ThreadType /\ s.exists /\ s.updated = r.now /\ s.last = id
      /\ DOMAIN s.log = DOMAIN t.log \cup {id}
      /\ DOMAIN t.log \subseteq 1..t.last
      /\ \A n \in DOMAIN t.log : s.log[n] = t.log[n]
      /\ r.now <= clock
      /\ ~ r.fresh => t.exists
      /\ r.fresh => HoldsAd(r)
      /\ HoldsUser(r) /\ HoldsThread(r)
  BY CommitFacts
<1>2. /\ req' = [req EXCEPT ![w] = Idle] /\ Release(w) /\ UNCHANGED <<ad, accounts, clock>>
      /\ quota' = [quota EXCEPT ![u] = Counted(r)]
  BY DEF Commit, Become
<1>3. req'[w] = Idle /\ (\A v \in Workers \ {w} : req'[v] = req[v]) /\ WorkerOK(w)
  BY <1>2 DEF TypeOK
<1>4. OwnLocks(w) /\ (\A row \in Rows : locks'[row] # w) /\ Idle \in Served
  BY <1>2, ReleaseFacts, IdleFields
<1>5. WorkerOK(w)'
  BY <1>2, <1>4, IdleOK
<1>6. quota' \in [Users -> [count : Nat, opened : BOOLEAN]]
  <2> DEFINE b == quota[u].opened \/ r.fresh
  <2>1. quota \in [Users -> [count : Nat, opened : BOOLEAN]] /\ b \in BOOLEAN
    BY DEF TypeOK
  <2>2. Counted(r) = [count |-> quota[u].count + 1, opened |-> b]
    BY DEF Counted
  <2> HIDE DEF b
  <2>3. Counted(r) \in [count : Nat, opened : BOOLEAN]
    BY <1>1, <2>1, <2>2
  <2> QED BY <1>2, <2>1, <2>3
<1>7. locks[ThreadRow(i)] = w /\ locks[UserRow(u)] = w /\ (HoldsAd(r) => locks[AdRow] = w)
  BY <1>1, <1>3, RowFacts DEF WorkerOK, Owns
<1> HIDE DEF r, i, u, t, s, id
<1>8. /\ threads'[i] = s /\ \A j \in Users \ {i} : threads'[j] = threads[j]
      /\ threads' \in [Users -> ThreadType]
  BY <1>1 DEF TypeOK
<1>9. SharedOK'
  <2>1. ASSUME NEW j \in Users
        PROVE  DOMAIN threads'[j].log \subseteq 1..threads'[j].last /\ threads'[j].updated <= clock'
    <3>1. CASE j = i
      <4>1. DOMAIN s.log \subseteq 1..id
        BY <1>1 DEF id
      <4> QED BY <1>1, <1>2, <1>8, <3>1, <4>1
    <3>2. CASE j # i
      BY <1>2, <1>8, <3>2, ThreadFacts
    <3> QED BY <3>1, <3>2
  <2>2. /\ ad' \in [live : BOOLEAN, published : BOOLEAN, author : Users]
        /\ accounts' \subseteq Users /\ clock' \in Times
    BY <1>2 DEF TypeOK
  <2>3. locks' \in [Rows -> Workers \cup {NoWorker}]
    BY <1>4 DEF OwnLocks
  <2>4. Times' = Times /\ ThreadType' = ThreadType /\ Rows' = Rows
    BY DEF Times, ThreadType, Logs, MessageType, Rows
  <2> QED BY <1>6, <1>8, <2>1, <2>2, <2>3, <2>4 DEF SharedOK
<1>10. RoomOK'
  <2> SUFFICES ASSUME NEW j \in Users PROVE threads'[j].last + UnderWay(j)' <= MaxMessages
    BY DEF RoomOK
  <2>1. CASE j = i
    <3>1. req[w].thread = j /\ threads'[j].last = threads[j].last + 1
      BY <1>1, <1>8, <2>1 DEF id, t, i, r
    <3>2. /\ UnderWay(j)' \in Nat /\ UnderWay(j)' + (threads[j].last + 1) <= MaxMessages
          /\ threads[j].last + 1 \in 1..MaxMessages
      BY <3>1, CommitRoom
    <3> QED BY <3>1, <3>2, MessagingAssumption DEF MessagingAssumption
  <2>2. CASE j # i
    <3>1. \A v \in Workers : Under(req'[v], j) => Under(req[v], j)
      BY <1>3, IdleFields DEF Under, InTransaction
    <3>2. UnderWay(j)' \in Nat /\ UnderWay(j)' <= UnderWay(j) /\ UnderWay(j) \in Nat
      BY <3>1, UnderWayShrinks, UnderWayFinite
    <3>3. threads'[j].last = threads[j].last /\ threads[j].last \in Nat
      BY <1>8, <2>2, ThreadFacts
    <3>4. threads[j].last + UnderWay(j) <= MaxMessages
      BY DEF TypeOK
    <3> QED BY <3>2, <3>3, <3>4, MessagingAssumption DEF MessagingAssumption
  <2> QED BY <2>1, <2>2
<1>11. ASSUME NEW v \in Workers \ {w} PROVE Kept(v)
  <2> DEFINE j == req[v].thread
             x == req[v].user
  <2>1. j \in Users /\ x \in Users
    BY WorkerFacts
  <2>2. \A row \in Rows : locks'[row] = v <=> locks[row] = v
    BY <1>4, OthersLocks
  <2>3. locks[AdRow] = v /\ j = x /\ ~ threads[j].exists => ~ threads'[j].exists
    <3>1. CASE j = i
      BY <1>1, <1>7, <3>1 DEF t
    <3>2. CASE j # i
      BY <1>8, <2>1, <3>2
    <3> QED BY <3>1, <3>2
  <2>4. locks[UserRow(x)] = v =>
            /\ x \in accounts => x \in accounts'
            /\ quota'[x].count \in Nat /\ quota'[x].count <= quota[x].count
    <3>1. locks[UserRow(x)] = v => x # u
      BY <1>7
    <3>2. x # u => quota'[x] = quota[x]
      BY <1>2, <2>1 DEF TypeOK
    <3>3. quota[x].count \in Nat
      BY <2>1 DEF TypeOK
    <3> QED BY <1>2, <3>1, <3>2, <3>3
  <2>5. locks[ThreadRow(j)] = v =>
            /\ threads'[j].updated = threads[j].updated
            /\ threads[j].exists => threads'[j].exists
    <3>1. locks[ThreadRow(j)] = v => j # i
      BY <1>7
    <3> QED BY <1>8, <2>1, <3>1
  <2>6. Grown(threads[j], threads'[j])
    <3>1. CASE j = i
      <4>1. threads[j] = t /\ threads'[j] = s
        BY <1>8, <3>1 DEF t
      <4>2. id \in Nat /\ t.last <= id
        BY <1>1 DEF id
      <4>3. ASSUME NEW n \in DOMAIN s.log, n <= t.last
            PROVE  n \in DOMAIN t.log /\ (t.log[n].shown => s.log[n].shown)
        BY <1>1, <4>3 DEF id
      <4> QED BY <1>1, <4>1, <4>2, <4>3 DEF Grown
    <3>2. CASE j # i
      <4>1. threads'[j] = threads[j] /\ threads[j].last \in Nat
        BY <1>8, <2>1, <3>2, ThreadFacts
      <4> QED BY <4>1 DEF Grown
    <3> QED BY <3>1, <3>2
  <2>7. clock' \in Times /\ clock <= clock'
    BY <1>2, MessagingAssumption DEF TypeOK, Times, MessagingAssumption
  <2> QED BY <1>2, <2>2, <2>3, <2>4, <2>5, <2>6, <2>7 DEF Kept
<1> QED BY <1>2, <1>4, <1>5, <1>9, <1>10, <1>11, StepKeepsTypes

(***************************************************************************)
(* Steps that only tend the threads: pages, deletions, the clock.          *)
(***************************************************************************)
AllTended == \A i \in Users : Tended(threads[i], threads'[i])

LEMMA TendedThreads ==
  ASSUME TypeOK, threads' \in [Users -> ThreadType], AllTended,
         clock' \in Times, clock <= clock'
  PROVE  /\ \A i \in Users : DOMAIN threads'[i].log \subseteq 1..threads'[i].last
                             /\ threads'[i].updated <= clock'
         /\ \A i \in Users : threads'[i].last = threads[i].last
         /\ \A i \in Users : Grown(threads[i], threads'[i])
<1> SUFFICES ASSUME NEW i \in Users
             PROVE  /\ DOMAIN threads'[i].log \subseteq 1..threads'[i].last
                    /\ threads'[i].updated <= clock'
                    /\ threads'[i].last = threads[i].last
                    /\ Grown(threads[i], threads'[i])
  OBVIOUS
<1>1. /\ threads[i].last \in Nat /\ DOMAIN threads[i].log \subseteq 1..threads[i].last
      /\ threads[i].updated <= clock /\ threads[i].updated \in Int /\ clock \in Int /\ clock' \in Int
  BY ThreadFacts, MessagingAssumption DEF Times, MessagingAssumption
<1>2. Tended(threads[i], threads'[i])
  BY DEF AllTended
<1> QED BY <1>1, <1>2 DEF Tended, Grown

LEMMA PageStep ==
  ASSUME TypeOK, NEW w \in Workers, NEW q \in Served, req' = [req EXCEPT ![w] = q],
         req[w].pc \in {"idle", "page", "mark"}, q.pc \in {"idle", "mark"},
         UNCHANGED <<ad, accounts, quota, locks, clock>>,
         threads' \in [Users -> ThreadType], AllTended,
         \A i \in Users : threads'[i].exists = threads[i].exists,
         q.pc \in Phases(q.op), ~ q.fresh,
         \A n \in q.ids :
             /\ n <= threads'[q.thread].last
             /\ n \in DOMAIN threads'[q.thread].log => threads'[q.thread].log[n].shown
  PROVE  TypeOK'
<1>1. clock' \in Times /\ clock <= clock'
  BY MessagingAssumption DEF TypeOK, Times, MessagingAssumption
<1>2. /\ \A i \in Users : DOMAIN threads'[i].log \subseteq 1..threads'[i].last
                          /\ threads'[i].updated <= clock'
      /\ \A i \in Users : threads'[i].last = threads[i].last
      /\ \A i \in Users : Grown(threads[i], threads'[i])
  BY <1>1, TendedThreads
<1>3. SharedOK'
  BY <1>2 DEF TypeOK, SharedOK, Times, ThreadType, Logs, MessageType, Rows
<1>4. req'[w] = q /\ \A v \in Workers \ {w} : req'[v] = req[v]
  BY DEF TypeOK
<1>5. RoomOK'
  <2>1. \A i \in Users : \A v \in Workers : Under(req'[v], i) => Under(req[v], i)
    BY <1>4 DEF Under, InTransaction
  <2> QED BY <1>2, <2>1, RoomKept
<1>6. WorkerOK(w)'
  <2>1. \A row \in Rows : locks'[row] # w
    BY NoLocks
  <2>2. ~ HoldsAd(q) /\ ~ HoldsUser(q) /\ ~ HoldsThread(q) /\ ~ Passed(q) /\ q.pc # "commit"
    <3>1. q.op # "start"
      BY PhasesOf
    <3> QED BY <3>1 DEF HoldsAd, HoldsUser, HoldsThread, Passed
  <2> QED BY <1>4, <2>1, <2>2 DEF WorkerOK, Owns
<1>7. ASSUME NEW v \in Workers \ {w} PROVE Kept(v)
  <2>1. req[v].thread \in Users /\ req[v].user \in Users
    BY WorkerFacts
  <2>2. quota[req[v].user].count \in Nat
    BY <2>1 DEF TypeOK
  <2>3. Tended(threads[req[v].thread], threads'[req[v].thread])
    BY <2>1 DEF AllTended
  <2> QED BY <1>1, <1>2, <2>1, <2>2, <2>3 DEF Kept, Tended
<1> QED BY <1>3, <1>5, <1>6, <1>7, StepKeepsTypes

LEMMA OneTended ==
  ASSUME TypeOK, NEW i \in Users, NEW s \in ThreadType, threads' = [threads EXCEPT ![i] = s],
         Tended(threads[i], s), s.exists = threads[i].exists
  PROVE  /\ threads' \in [Users -> ThreadType] /\ AllTended /\ threads'[i] = s
         /\ \A j \in Users : threads'[j].exists = threads[j].exists
<1>1. \A j \in Users : Tended(threads[j], threads[j])
  BY ThreadFacts, TendedItself
<1>2. threads'[i] = s /\ \A j \in Users \ {i} : threads'[j] = threads[j]
  BY DEF TypeOK
<1> QED BY <1>1, <1>2 DEF TypeOK, AllTended

\* The request of a page on its way.
Opening(u, i, ids) ==
    [Idle EXCEPT !.pc = "mark", !.op = "open", !.user = u, !.thread = i, !.ids = ids]

LEMMA OpenFields ==
  ASSUME NEW u \in Users, NEW i \in Users, NEW ids \in SUBSET (1..MaxMessages)
  PROVE  LET q == Opening(u, i, ids)
         IN  /\ q \in Served /\ q.pc = "mark" /\ q.op = "open" /\ q.thread = i
             /\ ~ q.fresh /\ q.ids = ids
  BY IdleFields DEF Served, Opening

LEMMA OpenStep ==
  ASSUME TypeOK, NEW w \in Workers, Open(w)
  PROVE  TypeOK'
<1>1. /\ req[w].pc \in {"idle", "page", "mark"} /\ UNCHANGED <<ad, accounts, quota, locks, clock>>
      /\ \E u \in Users, i \in Users : Opened(w, u, i)
  BY WorkerFacts DEF Open, TypeOK
<1>2. PICK u \in Users, i \in Users : Opened(w, u, i)
  BY <1>1
<1> DEFINE log == threads[i].log
           incoming(k) == {n \in Page(log, k) : log[n].author # u}
           ids(k) == {n \in incoming(k) : ~ log[n].read}
<1>3. PICK k \in 0..MaxMessages \div PageSize :
          /\ threads' = [threads EXCEPT ![i] = [@ EXCEPT !.log = Displayed(log, incoming(k))]]
          /\ req' = [req EXCEPT ![w] = Opening(u, i, ids(k))]
  BY <1>2 DEF Opened, Become, Opening
<1>4. /\ threads[i] \in ThreadType /\ log \in Logs /\ DOMAIN log \subseteq 1..threads[i].last
      /\ DOMAIN log \subseteq 1..MaxMessages /\ threads[i].last \in Nat
  BY ThreadFacts, LogFacts
<1>5. incoming(k) \subseteq DOMAIN log /\ ids(k) \subseteq incoming(k)
  BY DEF Page
<1>6. PICK J \in SUBSET (1..MaxMessages) : J = ids(k)
  BY <1>4, <1>5
<1> DEFINE new == Displayed(log, incoming(k))
           s == [threads[i] EXCEPT !.log = new]
           q == Opening(u, i, J)
<1>7. /\ new \in Logs /\ DOMAIN new = DOMAIN log
      /\ \A n \in DOMAIN log : new[n].shown = (log[n].shown \/ n \in incoming(k))
  BY <1>4, DisplayedLog
<1>8. Tended(threads[i], s)
  BY <1>4, DisplayedTends
<1>9. /\ q \in Served /\ q.pc = "mark" /\ q.op = "open" /\ q.thread = i
      /\ ~ q.fresh /\ q.ids = J
  BY OpenFields
<1> HIDE DEF incoming, ids, new, log
<1>10. s \in ThreadType /\ s.log = new /\ s.exists = threads[i].exists /\ s.last = threads[i].last
  BY <1>4, <1>7, ThreadFields
<1>11. threads' = [threads EXCEPT ![i] = s]
  BY <1>3 DEF TypeOK, new
<1> HIDE DEF s
<1>12. /\ threads' \in [Users -> ThreadType] /\ AllTended /\ threads'[i] = s
       /\ \A j \in Users : threads'[j].exists = threads[j].exists
  BY <1>8, <1>10, <1>11, OneTended
<1>13. \A n \in q.ids :
           /\ n <= threads'[q.thread].last
           /\ n \in DOMAIN threads'[q.thread].log => threads'[q.thread].log[n].shown
  <2> SUFFICES ASSUME NEW n \in J PROVE n <= s.last /\ (n \in DOMAIN s.log => s.log[n].shown)
    BY <1>9, <1>12
  <2>1. n \in incoming(k) /\ n \in DOMAIN log
    BY <1>5, <1>6
  <2>2. n <= threads[i].last
    BY <1>4, <2>1
  <2>3. new[n].shown
    BY <1>7, <2>1
  <2> QED BY <1>10, <2>2, <2>3
<1>14. req' = [req EXCEPT ![w] = q]
  BY <1>3, <1>6
<1> HIDE DEF q
<1>15. q.pc \in Phases(q.op)
  BY <1>9, PhasesOf
<1>16. q.pc \in {"idle", "mark"}
  BY <1>9
<1> QED BY <1>1, <1>9, <1>12, <1>13, <1>14, <1>15, <1>16, PageStep

LEMMA MarkStep ==
  ASSUME TypeOK, NEW w \in Workers, Mark(w)
  PROVE  TypeOK'
<1> DEFINE r == req[w]
           i == r.thread
           new == Marked(r)
           s == [threads[i] EXCEPT !.log = new]
<1>1. /\ r.pc = "mark" /\ UNCHANGED <<ad, accounts, quota, locks, clock>>
      /\ req' = [req EXCEPT ![w] = Idle] /\ threads' = [threads EXCEPT ![i].log = new]
  BY DEF Mark, Become
<1>2. i \in Users
  BY WorkerFacts
<1>3. threads[i] \in ThreadType /\ threads[i].log \in Logs
  BY <1>2, ThreadFacts
<1>4. new \in Logs
  BY <1>3, MarkedLog
<1>5. Tended(threads[i], s)
  BY <1>3, MarkedTends
<1>6. threads' = [threads EXCEPT ![i] = s]
  BY <1>1, <1>2 DEF TypeOK
<1> HIDE DEF new
<1>7. s \in ThreadType /\ s.exists = threads[i].exists
  BY <1>3, <1>4, ThreadFields
<1> HIDE DEF s
<1>8. /\ threads' \in [Users -> ThreadType] /\ AllTended
      /\ \A j \in Users : threads'[j].exists = threads[j].exists
  BY <1>2, <1>5, <1>6, <1>7, OneTended
<1>9. /\ Idle \in Served /\ Idle.pc \in {"idle", "mark"} /\ Idle.pc \in Phases(Idle.op) /\ ~ Idle.fresh
      /\ Idle.ids = {}
  BY IdleFields, PhasesOf
<1>10. \A n \in Idle.ids :
           /\ n <= threads'[Idle.thread].last
           /\ n \in DOMAIN threads'[Idle.thread].log => threads'[Idle.thread].log[n].shown
  BY <1>9
<1> QED BY <1>1, <1>8, <1>9, <1>10, PageStep

\* A step of an administrator, of the cache or of the clock.
LEMMA OutsideStep ==
  ASSUME TypeOK, UNCHANGED <<locks, req>>,
         ad' \in [live : BOOLEAN, published : BOOLEAN, author : Users], accounts' \subseteq Users,
         quota' \in [Users -> [count : Nat, opened : BOOLEAN]],
         \A u \in Users : quota'[u].count <= quota[u].count,
         clock' \in Times, clock <= clock',
         threads' \in [Users -> ThreadType], AllTended,
         ad' # ad => locks[AdRow] = NoWorker,
         \A u \in accounts \ accounts' : locks[UserRow(u)] = NoWorker,
         \A i \in Users : threads'[i].exists # threads[i].exists => locks[ThreadRow(i)] = NoWorker
  PROVE  TypeOK'
<1>1. /\ \A i \in Users : DOMAIN threads'[i].log \subseteq 1..threads'[i].last
                          /\ threads'[i].updated <= clock'
      /\ \A i \in Users : threads'[i].last = threads[i].last
      /\ \A i \in Users : Grown(threads[i], threads'[i])
  BY TendedThreads
<1>2. SharedOK'
  BY <1>1 DEF TypeOK, SharedOK, Times, ThreadType, Logs, MessageType, Rows
<1>3. RoomOK'
  <2>1. \A i \in Users : \A v \in Workers : Under(req'[v], i) => Under(req[v], i)
    OBVIOUS
  <2> QED BY <1>1, <2>1, RoomKept
<1>4. ASSUME NEW v \in Workers PROVE WorkerOK(v)'
  <2> DEFINE i == req[v].thread
             u == req[v].user
  <2>1. i \in Users /\ u \in Users /\ v # NoWorker
    BY WorkerFacts
  <2>2. Tended(threads[i], threads'[i]) /\ threads[i] \in ThreadType
    BY <2>1, ThreadFacts DEF AllTended
  <2>3. /\ locks[AdRow] = v => ad' = ad
        /\ locks[UserRow(u)] = v /\ u \in accounts => u \in accounts'
        /\ locks[ThreadRow(i)] = v => threads'[i].exists = threads[i].exists
    BY <2>1
  <2>4. quota'[u].count \in Nat /\ quota'[u].count <= quota[u].count
    BY <2>1
  <2>5. /\ threads'[i].updated = threads[i].updated
        /\ threads'[i].exists => threads[i].exists
    BY <2>2 DEF Tended
  <2>6. Grown(threads[i], threads'[i])
    BY <1>1, <2>1
  <2>7. Kept(v)
    BY <2>3, <2>4, <2>5, <2>6 DEF Kept
  <2> QED BY <2>7, WorkerKept
<1>5. Served' = Served /\ Workers' = Workers
  BY DEF Served, Times
<1> QED BY <1>2, <1>3, <1>4, <1>5 DEF TypeOK, SharedOK, RoomOK

LEMMA StandingFacts ==
  ASSUME TypeOK
  PROVE  /\ ad \in [live : BOOLEAN, published : BOOLEAN, author : Users] /\ accounts \subseteq Users
         /\ quota \in [Users -> [count : Nat, opened : BOOLEAN]]
         /\ \A u \in Users : quota[u].count <= quota[u].count
         /\ clock \in Times /\ clock <= clock
         /\ threads \in [Users -> ThreadType] /\ \A i \in Users : Tended(threads[i], threads[i])
<1>1. /\ ad \in [live : BOOLEAN, published : BOOLEAN, author : Users] /\ accounts \subseteq Users
      /\ quota \in [Users -> [count : Nat, opened : BOOLEAN]]
      /\ clock \in Times /\ threads \in [Users -> ThreadType]
  BY DEF TypeOK
<1>2. \A u \in Users : quota[u].count <= quota[u].count
  BY <1>1
<1>3. clock <= clock
  BY <1>1, MessagingAssumption DEF Times, MessagingAssumption
<1>4. \A i \in Users : Tended(threads[i], threads[i])
  BY <1>1, TendedItself
<1> QED BY <1>1, <1>2, <1>3, <1>4

LEMMA ExpireStep ==
  ASSUME TypeOK, NEW u \in Users, Expire(u)
  PROVE  TypeOK'
<1>1. PICK q \in {[quota[u] EXCEPT !.count = 0], [quota[u] EXCEPT !.opened = FALSE]} :
          quota' = [quota EXCEPT ![u] = q]
  BY DEF Expire
<1>2. UNCHANGED <<ad, accounts, threads, locks, clock, req>>
  BY DEF Expire
<1>3. quota \in [Users -> [count : Nat, opened : BOOLEAN]]
  BY DEF TypeOK
<1>4. q \in [count : Nat, opened : BOOLEAN] /\ q.count <= quota[u].count
  <2>1. quota[u] \in [count : Nat, opened : BOOLEAN]
    BY <1>3
  <2>2. CASE q = [quota[u] EXCEPT !.count = 0]
    BY <2>1, <2>2
  <2>3. CASE q = [quota[u] EXCEPT !.opened = FALSE]
    <3>1. q.count = quota[u].count /\ q \in [count : Nat, opened : BOOLEAN]
      BY <2>1, <2>3
    <3> QED BY <2>1, <3>1
  <2> QED BY <2>2, <2>3
<1>5. quota' \in [Users -> [count : Nat, opened : BOOLEAN]]
  BY <1>1, <1>3, <1>4
<1>6. \A x \in Users : quota'[x].count <= quota[x].count
  BY <1>1, <1>3, <1>4
<1>7. AllTended
  BY <1>2, StandingFacts DEF AllTended
<1> QED BY <1>2, <1>5, <1>6, <1>7, StandingFacts, OutsideStep

LEMMA UpdateAdStep ==
  ASSUME TypeOK, UpdateAd
  PROVE  TypeOK'
<1>1. PICK p \in BOOLEAN, u \in accounts :
          ad' = [ad EXCEPT !.published = p, !.author = u] /\ Unlocked({AdRow, UserRow(ad.author), UserRow(u)})
  BY DEF UpdateAd
<1>2. UNCHANGED <<accounts, threads, quota, locks, clock, req>> /\ locks[AdRow] = NoWorker
  BY <1>1 DEF UpdateAd, Unlocked
<1>3. ad' \in [live : BOOLEAN, published : BOOLEAN, author : Users]
  BY <1>1 DEF TypeOK
<1>4. AllTended
  BY <1>2, StandingFacts DEF AllTended
<1> QED BY <1>2, <1>3, <1>4, StandingFacts, OutsideStep

LEMMA DeleteAdStep ==
  ASSUME TypeOK, DeleteAd
  PROVE  TypeOK'
<1>1. /\ UNCHANGED <<accounts, quota, locks, clock, req>>
      /\ ad' = [ad EXCEPT !.live = FALSE]
      /\ threads' = [i \in Users |-> Gone(threads[i])]
      /\ locks[AdRow] = NoWorker /\ \A i \in Users : locks[ThreadRow(i)] = NoWorker
  BY DEF DeleteAd, Unlocked
<1>2. ad' \in [live : BOOLEAN, published : BOOLEAN, author : Users]
  BY <1>1 DEF TypeOK
<1>3. \A i \in Users : Tended(threads[i], Gone(threads[i])) /\ Gone(threads[i]) \in ThreadType
  BY ThreadFacts, GoneTends DEF Tended
<1>4. threads' \in [Users -> ThreadType] /\ AllTended
  BY <1>1, <1>3 DEF AllTended
<1> QED BY <1>1, <1>2, <1>4, StandingFacts, OutsideStep

LEMMA DeleteUserStep ==
  ASSUME TypeOK, NEW u \in Users, DeleteUser(u)
  PROVE  TypeOK'
<1>1. /\ UNCHANGED <<quota, locks, clock, req>>
      /\ accounts' = accounts \ {u}
      /\ ad' = IF u = ad.author THEN [ad EXCEPT !.live = FALSE] ELSE ad
      /\ threads' = [i \in Users |->
             IF i = u \/ u = ad.author THEN Gone(threads[i]) ELSE Without(threads[i], u)]
  BY DEF DeleteUser
<1>2. /\ locks[UserRow(u)] = NoWorker /\ locks[ThreadRow(u)] = NoWorker
      /\ u = ad.author => locks[AdRow] = NoWorker /\ \A i \in Users : locks[ThreadRow(i)] = NoWorker
  BY DEF DeleteUser, Unlocked
<1>3. ad' \in [live : BOOLEAN, published : BOOLEAN, author : Users]
  BY <1>1 DEF TypeOK
<1>4. ASSUME NEW i \in Users
      PROVE  /\ threads'[i] \in ThreadType /\ Tended(threads[i], threads'[i])
             /\ i = u \/ u = ad.author \/ threads'[i].exists = threads[i].exists
  <2>1. threads[i] \in ThreadType
    BY ThreadFacts
  <2>2. CASE i = u \/ u = ad.author
    <3>1. threads'[i] = Gone(threads[i])
      BY <1>1, <2>2
    <3> QED BY <2>1, <2>2, <3>1, GoneTends DEF Tended
  <2>3. CASE ~ (i = u \/ u = ad.author)
    <3>1. threads'[i] = Without(threads[i], u)
      BY <1>1, <2>3
    <3>2. Tended(threads[i], Without(threads[i], u)) /\ Without(threads[i], u).exists = threads[i].exists
      BY <2>1, WithoutTends
    <3> QED BY <3>1, <3>2 DEF Tended
  <2> QED BY <2>2, <2>3
<1>5. threads' \in [Users -> ThreadType] /\ AllTended
  BY <1>1, <1>4 DEF AllTended
<1>6. \A i \in Users : threads'[i].exists # threads[i].exists => locks[ThreadRow(i)] = NoWorker
  BY <1>2, <1>4
<1>7. /\ ad' # ad => locks[AdRow] = NoWorker
      /\ \A x \in accounts \ accounts' : locks[UserRow(x)] = NoWorker
      /\ accounts' \subseteq Users
  BY <1>1, <1>2 DEF TypeOK
<1> QED BY <1>1, <1>3, <1>5, <1>6, <1>7, StandingFacts, OutsideStep

LEMMA TickStep ==
  ASSUME TypeOK, Tick
  PROVE  TypeOK'
<1>1. clock' = clock + 1 /\ clock < MaxClock /\ UNCHANGED <<ad, accounts, threads, quota, locks, req>>
  BY DEF Tick
<1>2. clock' \in Times /\ clock <= clock'
  BY <1>1, StandingFacts, MessagingAssumption DEF Times, MessagingAssumption
<1>3. AllTended
  BY <1>1, StandingFacts DEF AllTended
<1> QED BY <1>1, <1>2, <1>3, StandingFacts, OutsideStep

LEMMA CrashStep ==
  ASSUME TypeOK, NEW w \in Workers, Crash(w)
  PROVE  TypeOK'
  BY AbandonStep DEF Crash

(***************************************************************************)
(* The type invariant.                                                     *)
(***************************************************************************)
LEMMA InitTypes == Init => TypeOK
<1> SUFFICES ASSUME Init PROVE TypeOK
  OBVIOUS
<1> USE MessagingAssumption DEF MessagingAssumption
<1>1. \A i \in Users : UnderWay(i) = 0
  <2> TAKE i \in Users
  <2>1. {w \in Workers : req[w].pc \in InTransaction /\ req[w].thread = i} = {}
    BY IdleFields DEF Init, InTransaction
  <2> QED BY <2>1, FS_EmptySet DEF UnderWay
<1>2. ASSUME NEW w \in Workers PROVE WorkerOK(w)
  <2>1. req[w] = Idle /\ \A row \in Rows : locks[row] = NoWorker
    BY DEF Init
  <2>2. Idle.pc \in Phases(Idle.op) /\ Idle.pc = "idle" /\ Idle.op = "none" /\ ~ Idle.fresh /\ Idle.ids = {}
    BY IdleFields, PhasesOf
  <2>3. ~ HoldsAd(Idle) /\ ~ HoldsUser(Idle) /\ ~ HoldsThread(Idle) /\ ~ Passed(Idle)
    BY <2>2 DEF HoldsAd, HoldsUser, HoldsThread, Passed
  <2> QED BY <2>1, <2>2, <2>3 DEF WorkerOK, Owns
<1>3. SharedOK
  BY NoThreadFields DEF Init, SharedOK, Times, NoQuota
<1>4. RoomOK
  BY <1>1, NoThreadFields DEF Init, RoomOK
<1>5. req \in [Workers -> Served]
  BY IdleFields DEF Init
<1> QED BY <1>2, <1>3, <1>4, <1>5, TypeOKParts

LEMMA NextTypes == TypeOK /\ [Next]_vars => TypeOK'
<1> SUFFICES ASSUME TypeOK, [Next]_vars PROVE TypeOK'
  OBVIOUS
<1>1. ASSUME NEW w \in Workers, Serve(w) PROVE TypeOK'
  BY <1>1, StartStep, ReplyStep, LockUserStep, CheckQuotaStep, LockThreadStep, SendStep, CommitStep,
     OpenStep, MarkStep DEF Serve
<1>2. ASSUME NEW w \in Workers, Crash(w) PROVE TypeOK'
  BY <1>2, CrashStep
<1>3. ASSUME NEW u \in Users, Expire(u) \/ DeleteUser(u) PROVE TypeOK'
  BY <1>3, ExpireStep, DeleteUserStep
<1>4. CASE UpdateAd \/ DeleteAd \/ Tick
  BY <1>4, UpdateAdStep, DeleteAdStep, TickStep
<1>5. CASE UNCHANGED vars
  <2>1. UNCHANGED <<ad, accounts, threads, quota, locks, clock, req>>
    BY <1>5 DEF vars
  <2>2. AllTended
    BY <2>1, StandingFacts DEF AllTended
  <2> QED BY <2>1, <2>2, StandingFacts, OutsideStep
<1> QED BY <1>1, <1>2, <1>3, <1>4, <1>5 DEF Next

\* The variables keep their types; a request holds the locks of its phase and no
\* others, and what it has asked of the rows it has locked still holds.
THEOREM TypeCorrect == Spec => []TypeOK
  BY InitTypes, NextTypes, PTL DEF Spec

(***************************************************************************)
(* Opening a thread, and the words that open it.                           *)
(***************************************************************************)
LEMMA TypesOpenOnce == TypeOK => ThreadsOpenOnce
  BY DEF TypeOK, WorkerOK, ThreadsOpenOnce

\* Two requests of a buyer never open the thread twice: the unique constraint,
\* whose error nobody catches, is never met.
THEOREM OpenedOnce == Spec => []ThreadsOpenOnce
  BY TypeCorrect, TypesOpenOnce, PTL

LEMMA StepFirstWords ==
  TypeOK /\ [Next]_vars =>
      [\A w \in Workers :
           req[w].op = "start" /\ req[w].pc = "commit" /\ threads' # threads =>
               ad.live /\ ad.published /\ ad.author # req[w].user]_vars
<1> SUFFICES ASSUME TypeOK, NEW w \in Workers, req[w].op = "start"
             PROVE  ad.live /\ ad.published /\ ad.author # req[w].user
  OBVIOUS
<1>1. WorkerOK(w)
  BY WorkerFacts
<1> QED BY <1>1 DEF WorkerOK, HoldsAd

\* A conversation is opened or renewed from the card only while the advertisement
\* is in the catalogue and is somebody else's, at the commit too.
THEOREM FirstWords == Spec => FirstWordsAreOnPublishedAds
  BY TypeCorrect, StepFirstWords, PTL DEF Spec, FirstWordsAreOnPublishedAds

(***************************************************************************)
(* Nobody waits in a circle: who holds a thread waits for nothing, and who *)
(* holds an account waits for a thread at most.                            *)
(***************************************************************************)
LEMMA Waiting ==
  ASSUME TypeOK, NEW w \in Workers, NEW v \in Workers, WaitsFor(w, v)
  PROVE  \/ req[w].pc = "thread" /\ \A x \in Workers : ~ WaitsFor(v, x)
         \/ req[w].pc = "user" /\ \A x \in Workers : WaitsFor(v, x) => req[v].pc = "thread"
<1>1. WorkerOK(v) /\ v \in Workers
  BY WorkerFacts
<1>2. CASE req[w].pc = "thread"
  <2>1. locks[ThreadRow(req[w].thread)] = v
    BY <1>2 DEF WaitsFor, Wanted
  <2>2. HoldsThread(req[v])
    BY <1>1, <2>1, WorkerFacts, RowFacts DEF WorkerOK, Owns
  <2>3. Wanted(req[v]) = {}
    BY <2>2 DEF HoldsThread, Wanted
  <2> QED BY <1>2, <2>3 DEF WaitsFor
<1>3. CASE req[w].pc = "user"
  <2>1. locks[UserRow(req[w].user)] = v
    BY <1>3 DEF WaitsFor, Wanted
  <2>2. HoldsUser(req[v])
    BY <1>1, <2>1, WorkerFacts, RowFacts DEF WorkerOK, Owns
  <2>3. req[v].pc # "thread" => Wanted(req[v]) = {}
    BY <2>2 DEF HoldsUser, Wanted
  <2> QED BY <1>3, <2>3 DEF WaitsFor
<1>4. CASE req[w].pc \notin {"thread", "user"}
  BY <1>4 DEF WaitsFor, Wanted
<1> QED BY <1>2, <1>3, <1>4

LEMMA TypesNoCircle == TypeOK => NoCircularWait
<1> SUFFICES ASSUME TypeOK,
                    NEW ws \in (SUBSET Workers) \ {{}},
                    \A w \in ws : \E v \in ws \ {w} : WaitsFor(w, v)
             PROVE  FALSE
  BY DEF NoCircularWait
<1>1. PICK w : w \in ws
  OBVIOUS
<1>2. PICK v \in ws : WaitsFor(w, v)
  BY <1>1
<1>3. PICK x \in ws : WaitsFor(v, x)
  BY <1>2
<1>4. PICK y \in ws : WaitsFor(x, y)
  BY <1>3
<1>5. w \in Workers /\ v \in Workers /\ x \in Workers /\ y \in Workers
  BY <1>1
<1>6. req[w].pc = "user" /\ req[v].pc = "thread"
  BY <1>2, <1>3, <1>5, Waiting
<1>7. ~ WaitsFor(x, y)
  BY <1>3, <1>5, <1>6, Waiting
<1> QED BY <1>4, <1>7

\* Senders never wait for one another in a circle.
THEOREM NoDeadlock == Spec => []NoCircularWait
  BY TypeCorrect, TypesNoCircle, PTL

(***************************************************************************)
(* The quota of a sender.                                                  *)
(***************************************************************************)
LEMMA NextQuota == TypeOK /\ SendersStayWithinQuota /\ [Next]_vars => SendersStayWithinQuota'
<1> SUFFICES ASSUME TypeOK, SendersStayWithinQuota, [Next]_vars, NEW u \in Users
             PROVE  quota'[u].count <= Limit
  BY DEF SendersStayWithinQuota
<1>1. /\ quota \in [Users -> [count : Nat, opened : BOOLEAN]] /\ Limit \in Nat
      /\ quota[u].count <= Limit /\ quota[u].count \in Nat
  BY MessagingAssumption DEF TypeOK, SendersStayWithinQuota, MessagingAssumption
<1>2. ASSUME NEW w \in Workers, Commit(w) PROVE quota'[u].count <= Limit
  <2>1. quota[req[w].user].count < Limit /\ req[w].user \in Users
    BY <1>2, CommitFacts
  <2>2. quota' = [quota EXCEPT ![req[w].user] = Counted(req[w])]
    BY <1>2 DEF Commit
  <2>3. Counted(req[w]).count = quota[req[w].user].count + 1 /\ quota[req[w].user].count \in Nat
    BY <1>1, <2>1 DEF Counted
  <2> QED BY <1>1, <2>1, <2>2, <2>3
<1>3. ASSUME NEW x \in Users, Expire(x) PROVE quota'[u].count <= Limit
  <2>1. PICK q \in {[quota[x] EXCEPT !.count = 0], [quota[x] EXCEPT !.opened = FALSE]} :
            quota' = [quota EXCEPT ![x] = q]
    BY <1>3 DEF Expire
  <2>2. quota[x] \in [count : Nat, opened : BOOLEAN]
    BY <1>1
  <2>3. q.count \in {0, quota[x].count}
    <3>1. CASE q = [quota[x] EXCEPT !.count = 0]
      BY <2>2, <3>1
    <3>2. CASE q = [quota[x] EXCEPT !.opened = FALSE]
      BY <2>2, <3>2
    <3> QED BY <3>1, <3>2
  <2> QED BY <1>1, <2>1, <2>3
<1>4. CASE UNCHANGED quota
  BY <1>1, <1>4
<1>5. ASSUME NEW w \in Workers, Serve(w), ~ Commit(w) PROVE UNCHANGED quota
  BY <1>5 DEF Serve, Start, Reply, LockUser, CheckQuota, LockThread, Send, Open, Mark
<1>6. ASSUME NEW w \in Workers, Crash(w) PROVE UNCHANGED quota
  BY <1>6 DEF Crash
<1>7. ASSUME NEW x \in Users, DeleteUser(x) PROVE UNCHANGED quota
  BY <1>7 DEF DeleteUser
<1>8. CASE UpdateAd \/ DeleteAd \/ Tick \/ UNCHANGED vars
  BY <1>4, <1>8 DEF UpdateAd, DeleteAd, Tick, vars
<1> QED BY <1>2, <1>3, <1>4, <1>5, <1>6, <1>7, <1>8 DEF Next

\* No two requests of a sender pass allow_send on the same count: the messages
\* committed in a window never exceed the limit.
THEOREM WithinQuota == Spec => []SendersStayWithinQuota
<1>1. Init => SendersStayWithinQuota
  BY MessagingAssumption DEF MessagingAssumption, Init, NoQuota, SendersStayWithinQuota
<1> QED BY <1>1, TypeCorrect, NextQuota, PTL DEF Spec

(***************************************************************************)
(* The order of a thread, and what counts as read.  A step tends a thread, *)
(* or delivers one message at its end.                                     *)
(***************************************************************************)
Ordered(t) ==
    /\ \A m, n \in DOMAIN t.log : m < n => t.log[m].created <= t.log[n].created
    /\ \A n \in DOMAIN t.log : t.log[n].created <= t.updated

LEMMA OrderedThreads == ThreadsFollowTheirMessages <=> \A i \in Users : Ordered(threads[i])
  BY DEF ThreadsFollowTheirMessages, Ordered

LEMMA TendedOrdered ==
  ASSUME NEW old, NEW new, Tended(old, new), Ordered(old)
  PROVE  Ordered(new)
<1>1. \A n \in DOMAIN new.log : n \in DOMAIN old.log /\ new.log[n].created = old.log[n].created
  BY DEF Tended
<1>2. new.updated = old.updated
  BY DEF Tended
<1>3. /\ \A m, n \in DOMAIN old.log : m < n => old.log[m].created <= old.log[n].created
      /\ \A n \in DOMAIN old.log : old.log[n].created <= old.updated
  BY DEF Ordered
<1> QED BY <1>1, <1>2, <1>3 DEF Ordered

LEMMA DeliveredOrdered ==
  ASSUME TypeOK, NEW w \in Workers, Commit(w), Ordered(threads[req[w].thread])
  PROVE  Ordered(Delivered(req[w]))
<1> DEFINE t == threads[req[w].thread]
           s == Delivered(req[w])
           id == t.last + 1
           now == req[w].now
<1>1. /\ req[w].thread \in Users /\ t.last \in Nat
      /\ s.updated = now /\ DOMAIN s.log = DOMAIN t.log \cup {id}
      /\ DOMAIN t.log \subseteq 1..t.last /\ s.log[id].created = now
      /\ \A n \in DOMAIN t.log : s.log[n] = t.log[n]
      /\ t.updated <= now /\ now \in Times
  BY CommitFacts
<1>2. t.updated \in Times /\ t.log \in Logs
  BY <1>1, ThreadFacts
<1>3. now \in Nat /\ t.updated \in Nat
  BY <1>1, <1>2, MessagingAssumption DEF Times, MessagingAssumption
<1>4. \A n \in DOMAIN t.log : t.log[n].created \in Nat
  <2>1. \A n \in DOMAIN t.log : t.log[n] \in MessageType
    BY <1>2, LogFacts
  <2> QED BY <2>1, MessagingAssumption DEF MessageType, Times, MessagingAssumption
<1>5. /\ \A m, n \in DOMAIN t.log : m < n => t.log[m].created <= t.log[n].created
      /\ \A n \in DOMAIN t.log : t.log[n].created <= t.updated
  BY DEF Ordered
<1> HIDE DEF t, s, now
<1>6. \A n \in DOMAIN s.log : s.log[n].created <= now
  BY <1>1, <1>3, <1>4, <1>5
<1>7. ASSUME NEW m \in DOMAIN s.log, NEW n \in DOMAIN s.log, m < n
      PROVE  s.log[m].created <= s.log[n].created
  <2>1. CASE n = id
    BY <1>1, <1>6, <2>1
  <2>2. CASE n # id
    <3>1. n \in DOMAIN t.log /\ n <= t.last /\ n \in Nat /\ m \in Int
      BY <1>1, <2>2
    <3>2. m # id
      BY <1>1, <1>7, <3>1
    <3>3. m \in DOMAIN t.log
      BY <1>1, <3>2
    <3> QED BY <1>1, <1>5, <1>7, <3>1, <3>3
  <2> QED BY <2>1, <2>2
<1>8. Ordered(s)
  BY <1>1, <1>6, <1>7 DEF Ordered
<1> QED BY <1>8 DEF s

\* Every step that is not a commit leaves the threads, or tends them.
LEMMA StepThreads ==
  ASSUME TypeOK, [Next]_vars
  PROVE  \/ \A i \in Users : Tended(threads[i], threads'[i])
         \/ \E w \in Workers : Commit(w)
<1>1. CASE UNCHANGED threads
  BY <1>1, StandingFacts
<1>2. ASSUME NEW w \in Workers, Open(w) PROVE \A i \in Users : Tended(threads[i], threads'[i])
  <2>1. PICK u, i \in Users : Opened(w, u, i)
    BY <1>2, WorkerFacts, StandingFacts DEF Open
  <2> DEFINE log == threads[i].log
  <2>2. PICK ids : threads' = [threads EXCEPT ![i].log = Displayed(log, ids)]
    BY <2>1 DEF Opened
  <2>3. threads[i] \in ThreadType /\ threads \in [Users -> ThreadType]
    BY DEF TypeOK
  <2>4. Tended(threads[i], [threads[i] EXCEPT !.log = Displayed(log, ids)])
    BY <2>3, DisplayedTends
  <2> QED BY <2>2, <2>3, <2>4, StandingFacts
<1>3. ASSUME NEW w \in Workers, Mark(w) PROVE \A i \in Users : Tended(threads[i], threads'[i])
  <2>1. threads' = [threads EXCEPT ![req[w].thread].log = Marked(req[w])]
    BY <1>3 DEF Mark
  <2>2. req[w].thread \in Users /\ threads[req[w].thread] \in ThreadType /\ threads \in [Users -> ThreadType]
    BY WorkerFacts DEF TypeOK
  <2>3. Tended(threads[req[w].thread], [threads[req[w].thread] EXCEPT !.log = Marked(req[w])])
    BY <2>2, MarkedTends
  <2> QED BY <2>1, <2>2, <2>3, StandingFacts
<1>4. ASSUME NEW u \in Users, DeleteUser(u) PROVE \A i \in Users : Tended(threads[i], threads'[i])
  <2>1. threads' = [i \in Users |->
            IF i = u \/ u = ad.author THEN Gone(threads[i]) ELSE Without(threads[i], u)]
    BY <1>4 DEF DeleteUser
  <2>2. \A i \in Users : Tended(threads[i], Gone(threads[i])) /\ Tended(threads[i], Without(threads[i], u))
    BY ThreadFacts, GoneTends, WithoutTends
  <2> QED BY <2>1, <2>2
<1>5. CASE DeleteAd
  <2>1. \A i \in Users : Tended(threads[i], Gone(threads[i]))
    BY ThreadFacts, GoneTends
  <2> QED BY <1>5, <2>1 DEF DeleteAd
<1>6. ASSUME NEW w \in Workers, Serve(w), ~ Commit(w), ~ Open(w), ~ Mark(w) PROVE UNCHANGED threads
  BY <1>6 DEF Serve, Start, Reply, LockUser, CheckQuota, LockThread, Send
<1>7. ASSUME NEW w \in Workers, Crash(w) PROVE UNCHANGED threads
  BY <1>7 DEF Crash
<1>8. ASSUME NEW u \in Users, Expire(u) PROVE UNCHANGED threads
  BY <1>8 DEF Expire
<1>9. CASE UpdateAd \/ Tick \/ UNCHANGED vars
  BY <1>1, <1>9 DEF UpdateAd, Tick, vars
<1> QED BY <1>1, <1>2, <1>3, <1>4, <1>5, <1>6, <1>7, <1>8, <1>9 DEF Next

LEMMA NextOrder == TypeOK /\ ThreadsFollowTheirMessages /\ [Next]_vars => ThreadsFollowTheirMessages'
<1> SUFFICES ASSUME TypeOK, \A i \in Users : Ordered(threads[i]), [Next]_vars, NEW i \in Users
             PROVE  Ordered(threads'[i])
  BY OrderedThreads DEF ThreadsFollowTheirMessages, Ordered
<1>1. CASE \A j \in Users : Tended(threads[j], threads'[j])
  BY <1>1, TendedOrdered
<1>2. ASSUME NEW w \in Workers, Commit(w) PROVE Ordered(threads'[i])
  <2>1. threads' = [threads EXCEPT ![req[w].thread] = Delivered(req[w])] /\ req[w].thread \in Users
    BY <1>2, WorkerFacts DEF Commit
  <2>2. threads \in [Users -> ThreadType]
    BY DEF TypeOK
  <2>3. Ordered(Delivered(req[w]))
    BY <1>2, <2>1, DeliveredOrdered
  <2> QED BY <2>1, <2>2, <2>3
<1> QED BY <1>1, <1>2, StepThreads

\* A thread lists its messages in the order of their time, and its own time is not
\* before any of them.
THEOREM MessagesInOrder == Spec => []ThreadsFollowTheirMessages
<1>1. Init => ThreadsFollowTheirMessages
  BY NoThreadFields DEF Init, ThreadsFollowTheirMessages
<1> QED BY <1>1, TypeCorrect, NextOrder, PTL DEF Spec

ReadOnPages(t) == \A n \in DOMAIN t.log : t.log[n].read => t.log[n].shown

LEMMA ReadThreads == OnlyShownMessagesAreRead <=> \A i \in Users : ReadOnPages(threads[i])
  BY DEF OnlyShownMessagesAreRead, ReadOnPages

LEMMA GoneRead == ASSUME NEW t \in ThreadType PROVE ReadOnPages(Gone(t))
  BY NoThreadFields DEF Gone, ThreadType, ReadOnPages

LEMMA WithoutRead ==
  ASSUME NEW t \in ThreadType, NEW u, ReadOnPages(t)
  PROVE  ReadOnPages(Without(t, u))
<1> DEFINE ids == {n \in DOMAIN t.log : t.log[n].author # u}
           new == [n \in ids |-> t.log[n]]
<1>1. Without(t, u) = [t EXCEPT !.log = new]
  BY DEF Without
<1>2. [t EXCEPT !.log = new].log = new
  BY DEF ThreadType
<1>3. \A n \in DOMAIN new : n \in DOMAIN t.log /\ new[n] = t.log[n]
  OBVIOUS
<1> HIDE DEF new
<1> QED BY <1>1, <1>2, <1>3 DEF ReadOnPages

LEMMA DisplayedRead ==
  ASSUME NEW t \in ThreadType, NEW ids, ReadOnPages(t)
  PROVE  ReadOnPages([t EXCEPT !.log = Displayed(t.log, ids)])
<1> DEFINE new == Displayed(t.log, ids)
<1>1. t.log \in Logs
  BY DEF ThreadType
<1>2. /\ DOMAIN new = DOMAIN t.log
      /\ \A n \in DOMAIN t.log : new[n].read = t.log[n].read /\ new[n].shown = (t.log[n].shown \/ n \in ids)
  BY <1>1, DisplayedLog
<1>3. [t EXCEPT !.log = new].log = new
  BY DEF ThreadType
<1> HIDE DEF new
<1>4. ReadOnPages([t EXCEPT !.log = new])
  BY <1>2, <1>3 DEF ReadOnPages
<1> QED BY <1>4 DEF new

\* What is marked has been shown when its page was made.
LEMMA MarkedRead ==
  ASSUME TypeOK, NEW w \in Workers, ReadOnPages(threads[req[w].thread])
  PROVE  ReadOnPages([threads[req[w].thread] EXCEPT !.log = Marked(req[w])])
<1> DEFINE r == req[w]
           t == threads[r.thread]
           new == Marked(r)
<1>1. t \in ThreadType /\ t.log \in Logs
  BY WorkerFacts, ThreadFacts
<1>2. /\ DOMAIN new = DOMAIN t.log
      /\ \A n \in DOMAIN t.log : new[n].shown = t.log[n].shown /\ new[n].read = (t.log[n].read \/ n \in r.ids)
  BY <1>1, MarkedLog
<1>3. \A n \in r.ids : n \in DOMAIN t.log => t.log[n].shown
  BY WorkerFacts DEF WorkerOK
<1>4. [t EXCEPT !.log = new].log = new
  BY <1>1 DEF ThreadType
<1>5. ReadOnPages(t)
  OBVIOUS
<1> HIDE DEF new, t, r
<1>6. ReadOnPages([t EXCEPT !.log = new])
  BY <1>2, <1>3, <1>4, <1>5 DEF ReadOnPages
<1> QED BY <1>6 DEF new, t, r

LEMMA NextRead == TypeOK /\ OnlyShownMessagesAreRead /\ [Next]_vars => OnlyShownMessagesAreRead'
<1> SUFFICES ASSUME TypeOK, \A i \in Users : ReadOnPages(threads[i]), [Next]_vars, NEW j \in Users
             PROVE  ReadOnPages(threads'[j])
  BY ReadThreads DEF OnlyShownMessagesAreRead, ReadOnPages
<1>1. threads \in [Users -> ThreadType] /\ accounts \subseteq Users
  BY DEF TypeOK
<1>2. CASE UNCHANGED threads
  BY <1>2
<1>3. ASSUME NEW w \in Workers, Commit(w) PROVE ReadOnPages(threads'[j])
  <2> DEFINE t == threads[req[w].thread]
             s == Delivered(req[w])
             id == t.last + 1
  <2>1. /\ threads' = [threads EXCEPT ![req[w].thread] = s] /\ req[w].thread \in Users
        /\ DOMAIN s.log = DOMAIN t.log \cup {id} /\ ~ s.log[id].read
        /\ \A n \in DOMAIN t.log : s.log[n] = t.log[n]
    BY <1>3, CommitFacts
  <2> HIDE DEF t, s, id
  <2>2. ReadOnPages(t)
    BY <2>1 DEF t
  <2>3. ReadOnPages(s)
    BY <2>1, <2>2 DEF ReadOnPages
  <2> QED BY <1>1, <2>1, <2>3
<1>4. ASSUME NEW w \in Workers, Open(w) PROVE ReadOnPages(threads'[j])
  <2>1. PICK u, i \in Users : Opened(w, u, i)
    BY <1>1, <1>4, WorkerFacts DEF Open
  <2>2. PICK ids : threads' = [threads EXCEPT ![i].log = Displayed(threads[i].log, ids)]
    BY <2>1 DEF Opened
  <2>3. ReadOnPages([threads[i] EXCEPT !.log = Displayed(threads[i].log, ids)])
    BY <1>1, DisplayedRead
  <2> QED BY <1>1, <2>2, <2>3
<1>5. ASSUME NEW w \in Workers, Mark(w) PROVE ReadOnPages(threads'[j])
  <2>1. threads' = [threads EXCEPT ![req[w].thread].log = Marked(req[w])] /\ req[w].thread \in Users
    BY <1>5, WorkerFacts DEF Mark
  <2>2. ReadOnPages([threads[req[w].thread] EXCEPT !.log = Marked(req[w])])
    BY <2>1, MarkedRead
  <2> QED BY <1>1, <2>1, <2>2
<1>6. ASSUME NEW u \in Users, DeleteUser(u) PROVE ReadOnPages(threads'[j])
  <2>1. threads'[j] = IF j = u \/ u = ad.author THEN Gone(threads[j]) ELSE Without(threads[j], u)
    BY <1>6 DEF DeleteUser
  <2>2. ReadOnPages(Gone(threads[j])) /\ ReadOnPages(Without(threads[j], u))
    BY <1>1, GoneRead, WithoutRead
  <2> QED BY <2>1, <2>2
<1>7. CASE DeleteAd
  <2>1. ReadOnPages(Gone(threads[j]))
    BY <1>1, GoneRead
  <2> QED BY <1>7, <2>1 DEF DeleteAd
<1>8. ASSUME NEW w \in Workers, Serve(w), ~ Commit(w), ~ Open(w), ~ Mark(w) PROVE UNCHANGED threads
  BY <1>8 DEF Serve, Start, Reply, LockUser, CheckQuota, LockThread, Send
<1>9. ASSUME NEW w \in Workers, Crash(w) PROVE UNCHANGED threads
  BY <1>9 DEF Crash
<1>10. ASSUME NEW u \in Users, Expire(u) PROVE UNCHANGED threads
  BY <1>10 DEF Expire
<1>11. CASE UpdateAd \/ Tick \/ UNCHANGED vars
  BY <1>2, <1>11 DEF UpdateAd, Tick, vars
<1> QED BY <1>2, <1>3, <1>4, <1>5, <1>6, <1>7, <1>8, <1>9, <1>10, <1>11 DEF Next

\* A message counts as read only if a page of its reader has held it.
THEOREM ReadAfterShown == Spec => []OnlyShownMessagesAreRead
<1>1. Init => OnlyShownMessagesAreRead
  BY NoThreadFields DEF Init, OnlyShownMessagesAreRead
<1> QED BY <1>1, TypeCorrect, NextRead, PTL DEF Spec
=============================================================================
