------------------------------ MODULE Messaging ------------------------------
(***************************************************************************)
(* Private conversations about one advertisement (messaging/).  A buyer    *)
(* opens a thread from the card, both sides then reply in it, and opening  *)
(* a page of it marks what it shows as read.                               *)
(*                                                                         *)
(* Sending is a transaction that locks rows in the order advertisement,    *)
(* account, thread; its effects, the counters in the database cache        *)
(* included, appear when it commits.  Administrators archive, move and     *)
(* delete the advertisement and the accounts meanwhile.                    *)
(***************************************************************************)
EXTENDS Integers, FiniteSets

CONSTANTS
    Workers,        \* gunicorn workers, each serving one request at a time
    Users,          \* accounts
    Seller,         \* the first author of the advertisement
    Heirs,          \* bound: those an administrator may move it to
    NoWorker,
    Limit,          \* messages a sender may send in one window
    PageSize,       \* messages on a page
    MaxMessages,    \* bound: messages in one thread
    MaxClock        \* bound: the last instant

ASSUME MessagingAssumption ==
    /\ IsFiniteSet(Workers)
    /\ Seller \in Users /\ Heirs \subseteq Users
    /\ NoWorker \notin Workers
    /\ Limit \in Nat \ {0} /\ PageSize \in Nat \ {0}
    /\ MaxMessages \in Nat /\ MaxClock \in Nat

VARIABLES
    ad,             \* the ads_ad row
    accounts,       \* the users_user rows that exist
    threads,        \* initiator -> the thread on this advertisement
    quota,          \* user -> the cache entries messaging:send, messaging:thread
    locks,          \* row -> the worker that holds its lock
    clock,
    req             \* worker -> the request it is serving

vars == <<ad, accounts, threads, quota, locks, clock, req>>

----------------------------------------------------------------------------
(* Values.  A thread's log has its messages by their ids, which grow and   *)
(* are not used again; the pages follow them.  The field shown of a        *)
(* message is a history variable: an incoming page has held it.            *)

AdRow == <<"ad", Seller>>
UserRow(u) == <<"user", u>>
ThreadRow(i) == <<"thread", i>>
Rows == {"ad", "user", "thread"} \X Users

Message(u, at) == [author |-> u, created |-> at, read |-> FALSE, shown |-> FALSE]

NoMessages == [n \in {} |-> Message(Seller, 0)]
NoThread == [exists |-> FALSE, updated |-> 0, last |-> 0, log |-> NoMessages]

NoQuota == [count |-> 0, opened |-> FALSE]

Idle == [ pc |-> "idle", op |-> "none", user |-> Seller, thread |-> Seller,
          fresh |-> FALSE, now |-> 0, ids |-> {} ]

Become(w, r) == req' = [req EXCEPT ![w] = r]
Goto(w, pc) == Become(w, [req[w] EXCEPT !.pc = pc])

\* ThreadQuerySet.for_user.
Participants(i) == {i, ad.author}

CanSee(u, i) == threads[i].exists /\ u \in Participants(i)

Free(row, w) == locks[row] \in {NoWorker, w}
Take(row, w) == Free(row, w) /\ locks' = [locks EXCEPT ![row] = w]
Release(w) == locks' = [row \in Rows |-> IF locks[row] = w THEN NoWorker ELSE locks[row]]

\* Mutant of Abandon: the refusal forgets to end the transaction.
AbandonLocked(w) ==
    /\ Become(w, Idle)
    /\ UNCHANGED locks

\* The transaction ends with nothing written, and the request with it.
Abandon(w) ==
    /\ Release(w)
    /\ Become(w, Idle)

Init ==
    /\ ad = [live |-> TRUE, published |-> TRUE, author |-> Seller]
    /\ accounts = Users
    /\ threads = [i \in Users |-> NoThread]
    /\ quota = [u \in Users |-> NoQuota]
    /\ locks = [row \in Rows |-> NoWorker]
    /\ clock = 0
    /\ req = [w \in Workers |-> Idle]

(***************************************************************************)
(* start and detail go through the same steps in an order of their own.    *)
(* Both lock the sender's account before the thread; start, which may open *)
(* the thread, asks for the quota before it.                               *)
(***************************************************************************)
\* Mutant of After: a reply locks its thread before the sender.
AfterSwapped(op, pc) ==
    CASE pc = "idle" -> IF op = "start" THEN "user" ELSE "thread"
      [] pc = "user" -> "quota"
      [] pc = "thread" -> IF op = "start" THEN "send" ELSE "user"
      [] pc = "quota" -> IF op = "start" THEN "thread" ELSE "send"

After(op, pc) ==
    CASE pc = "idle" -> "user"
      [] pc = "user" -> IF op = "start" THEN "quota" ELSE "thread"
      [] pc = "thread" -> IF op = "start" THEN "send" ELSE "quota"
      [] pc = "quota" -> IF op = "start" THEN "thread" ELSE "send"

Begin(op, u, i) ==
    [Idle EXCEPT !.pc = After(op, "idle"), !.op = op, !.user = u, !.thread = i]

Advance(w) == Goto(w, After(req[w].op, req[w].pc))

InTransaction == {"user", "quota", "thread", "send", "commit"}

\* The bound leaves room for the messages already under way.
UnderWay(i) == Cardinality({w \in Workers : req[w].pc \in InTransaction /\ req[w].thread = i})
Room(i) == threads[i].last + UnderWay(i) < MaxMessages

\* Mutant of Start: the advertisement is read and not locked.
StartUnlocked(w) ==
    /\ req[w].pc = "idle"
    /\ ad.live /\ ad.published
    /\ \E u \in accounts \ {ad.author} : Room(u) /\ Become(w, Begin("start", u, u))
    /\ UNCHANGED <<ad, accounts, threads, quota, locks, clock>>

\* Mutant of Start: neither the advertisement nor the sender is locked.
StartWithoutLocks(w) ==
    /\ req[w].pc = "idle"
    /\ ad.live /\ ad.published
    /\ \E u \in accounts \ {ad.author} :
           Room(u) /\ Become(w, [Begin("start", u, u) EXCEPT !.pc = "quota"])
    /\ UNCHANGED <<ad, accounts, threads, quota, locks, clock>>

\* The advertisement is locked while it is published.
Start(w) ==
    /\ req[w].pc = "idle"
    /\ ad.live /\ ad.published
    /\ Take(AdRow, w)
    /\ \E u \in accounts \ {ad.author} : Room(u) /\ Become(w, Begin("start", u, u))
    /\ UNCHANGED <<ad, accounts, threads, quota, clock>>

\* detail, with a message: the thread is one of the sender's.
Reply(w) ==
    /\ req[w].pc = "idle"
    /\ \E u \in accounts, i \in Users :
           CanSee(u, i) /\ Room(i) /\ Become(w, Begin("reply", u, i))
    /\ UNCHANGED <<ad, accounts, threads, quota, locks, clock>>

\* Mutant of LockUser: the sender's row is read and not locked.
LockNoUser(w) ==
    /\ req[w].pc = "user"
    /\ IF req[w].user \in accounts
       THEN Advance(w) /\ UNCHANGED locks
       ELSE Abandon(w)
    /\ UNCHANGED <<ad, accounts, threads, quota, clock>>

LockUser(w) ==
    /\ req[w].pc = "user"
    /\ IF req[w].user \in accounts
       THEN Take(UserRow(req[w].user), w) /\ Advance(w)
       ELSE Abandon(w)
    /\ UNCHANGED <<ad, accounts, threads, quota, clock>>

\* The thread the request found is not there yet.
Opens(r) == r.op = "start" /\ ~ threads[r.thread].exists

\* allow_send: the counters are read here and written with the message.
Allowed(r) ==
    /\ quota[r.user].count < Limit
    /\ Opens(r) => ~ quota[r.user].opened

\* A reply refused for its quota shows the page with an error.
CheckQuota(w) ==
    LET r == req[w]
    IN  /\ r.pc = "quota"
        /\ IF Allowed(r)
           THEN Become(w, [r EXCEPT !.fresh = Opens(r), !.pc = After(r.op, "quota")])
                /\ UNCHANGED locks
           ELSE /\ Release(w)
                /\ Become(w, IF r.op = "start" THEN Idle ELSE [r EXCEPT !.pc = "page"])
        /\ UNCHANGED <<ad, accounts, threads, quota, clock>>

\* The new thread does not violate the unique constraint, the old one is still
\* the sender's.
Reachable(r) ==
    IF r.fresh THEN ~ threads[r.thread].exists ELSE CanSee(r.user, r.thread)

\* Mutant of LockThread: the thread is read and not locked.
LockNoThread(w) ==
    LET i == req[w].thread
    IN  /\ req[w].pc = "thread"
        /\ IF Reachable(req[w])
           THEN Advance(w) /\ UNCHANGED locks
           ELSE Abandon(w)
        /\ UNCHANGED <<ad, accounts, threads, quota, clock>>

\* A new thread is inserted, an old one selected FOR UPDATE.
LockThread(w) ==
    LET i == req[w].thread
    IN  /\ req[w].pc = "thread"
        /\ IF Reachable(req[w])
           THEN Take(ThreadRow(i), w) /\ Advance(w)
           ELSE Abandon(w)
        /\ UNCHANGED <<ad, accounts, threads, quota, clock>>

\* Message.clean asks for the participants once more; created_at is the clock.
Send(w) ==
    /\ req[w].pc = "send"
    /\ IF req[w].user \in Participants(req[w].thread)
       THEN Become(w, [req[w] EXCEPT !.pc = "commit", !.now = clock]) /\ UNCHANGED locks
       ELSE Abandon(w)
    /\ UNCHANGED <<ad, accounts, threads, quota, clock>>

Delivered(r) ==
    LET old == threads[r.thread]
        id == old.last + 1
    IN  [ exists |-> TRUE, updated |-> r.now, last |-> id,
          log |-> [n \in DOMAIN old.log \cup {id} |->
                       IF n = id THEN Message(r.user, r.now) ELSE old.log[n]] ]

Counted(r) ==
    [count |-> quota[r.user].count + 1, opened |-> quota[r.user].opened \/ r.fresh]

Commit(w) ==
    LET r == req[w]
    IN  /\ r.pc = "commit"
        /\ threads' = [threads EXCEPT ![r.thread] = Delivered(r)]
        /\ quota' = [quota EXCEPT ![r.user] = Counted(r)]
        /\ Release(w)
        /\ Become(w, Idle)
        /\ UNCHANGED <<ad, accounts, clock>>

\* A window of the cache runs out.
Expire(u) ==
    /\ quota[u] # NoQuota
    /\ \E q \in {[quota[u] EXCEPT !.count = 0], [quota[u] EXCEPT !.opened = FALSE]} :
           /\ q # quota[u]
           /\ quota' = [quota EXCEPT ![u] = q]
    /\ UNCHANGED <<ad, accounts, threads, locks, clock, req>>

(***************************************************************************)
(* detail, the page: what is read and what is marked are two statements.   *)
(***************************************************************************)
Page(log, k) ==
    {n \in DOMAIN log : Cardinality({m \in DOMAIN log : m < n}) \div PageSize = k}

Displayed(log, ids) == [n \in DOMAIN log |-> [log[n] EXCEPT !.shown = @ \/ n \in ids]]

Opened(w, u, i) ==
    LET log == threads[i].log
    IN  \E k \in 0..MaxMessages \div PageSize :
            LET incoming == {n \in Page(log, k) : log[n].author # u}
            IN  /\ threads' = [threads EXCEPT ![i].log = Displayed(@, incoming)]
                /\ Become(w, [Idle EXCEPT !.pc = "mark", !.op = "open", !.user = u, !.thread = i,
                       !.ids = {n \in incoming : ~ log[n].read}])

Open(w) ==
    /\ \/ /\ req[w].pc = "idle"
          /\ \E u \in accounts, i \in Users : CanSee(u, i) /\ Opened(w, u, i)
       \/ req[w].pc = "page" /\ Opened(w, req[w].user, req[w].thread)
    /\ UNCHANGED <<ad, accounts, quota, locks, clock>>

\* Mutant of Marked: every incoming message of the thread.
MarkedThread(r) ==
    LET log == threads[r.thread].log
    IN  [n \in DOMAIN log |-> [log[n] EXCEPT !.read = @ \/ log[n].author # r.user]]

Marked(r) ==
    LET log == threads[r.thread].log
    IN  [n \in DOMAIN log |-> [log[n] EXCEPT !.read = @ \/ n \in r.ids]]

Mark(w) ==
    /\ req[w].pc = "mark"
    /\ threads' = [threads EXCEPT ![req[w].thread].log = Marked(req[w])]
    /\ Become(w, Idle)
    /\ UNCHANGED <<ad, accounts, quota, locks, clock>>

(***************************************************************************)
(* Administrators.  update_ad locks the advertisement and its author; a    *)
(* deletion cascades and waits for every row it takes along.               *)
(***************************************************************************)
Unlocked(rows) == \A row \in rows : locks[row] = NoWorker

\* The thread is deleted with its messages; its ids stay used up.
Gone(thread) == [thread EXCEPT !.exists = FALSE, !.log = NoMessages]

\* The messages of a deleted account go with it; those of a former author leave
\* the thread of the others in place.
Without(thread, u) ==
    LET log == thread.log
    IN  [thread EXCEPT !.log = [n \in {m \in DOMAIN log : log[m].author # u} |-> log[n]]]

UpdateAd ==
    /\ ad.live
    /\ \E p \in BOOLEAN, u \in accounts \cap (Heirs \cup {ad.author}) :
           /\ Unlocked({AdRow, UserRow(ad.author), UserRow(u)})
           /\ p = ad.published \/ u = ad.author
           /\ ad' = [ad EXCEPT !.published = p, !.author = u]
           /\ ad' # ad
    /\ UNCHANGED <<accounts, threads, quota, locks, clock, req>>

DeleteAd ==
    /\ ad.live
    /\ Unlocked({AdRow} \cup {ThreadRow(i) : i \in Users})
    /\ ad' = [ad EXCEPT !.live = FALSE]
    /\ threads' = [i \in Users |-> Gone(threads[i])]
    /\ UNCHANGED <<accounts, quota, locks, clock, req>>

DeleteUser(u) ==
    /\ u \in accounts
    /\ Unlocked({UserRow(u), ThreadRow(u)})
    /\ u = ad.author => Unlocked({AdRow} \cup {ThreadRow(i) : i \in Users})
    /\ accounts' = accounts \ {u}
    /\ ad' = IF u = ad.author THEN [ad EXCEPT !.live = FALSE] ELSE ad
    /\ threads' = [i \in Users |->
           IF i = u \/ u = ad.author THEN Gone(threads[i]) ELSE Without(threads[i], u)]
    /\ UNCHANGED <<quota, locks, clock, req>>

\* Killed: PostgreSQL rolls the transaction back.
Crash(w) ==
    /\ req[w].pc # "idle"
    /\ Abandon(w)
    /\ UNCHANGED <<ad, accounts, threads, quota, clock>>

Tick ==
    /\ clock < MaxClock
    /\ clock' = clock + 1
    /\ UNCHANGED <<ad, accounts, threads, quota, locks, req>>

Serve(w) ==
    \/ Start(w) \/ Reply(w) \/ LockUser(w) \/ CheckQuota(w) \/ LockThread(w)
    \/ Send(w) \/ Commit(w) \/ Open(w) \/ Mark(w)

Next ==
    \/ \E w \in Workers : Serve(w) \/ Crash(w)
    \/ \E u \in Users : Expire(u) \/ DeleteUser(u)
    \/ UpdateAd \/ DeleteAd \/ Tick

Spec == Init /\ [][Next]_vars

----------------------------------------------------------------------------
(* Properties.                                                             *)

Times == 0..MaxClock
MessageType == [author : Users, created : Times, read : BOOLEAN, shown : BOOLEAN]
Logs == UNION {[ids -> MessageType] : ids \in SUBSET (1..MaxMessages)}
ThreadType == [exists : BOOLEAN, updated : Times, last : 0..MaxMessages, log : Logs]
Served == [ pc : {"idle", "user", "quota", "thread", "send", "commit", "page", "mark"},
            op : {"none", "start", "reply", "open"}, user : Users, thread : Users,
            fresh : BOOLEAN, now : Times, ids : SUBSET (1..MaxMessages) ]

Phases(op) ==
    CASE op = "none"  -> {"idle"}
      [] op = "start" -> InTransaction
      [] op = "reply" -> InTransaction \cup {"page"}
      [] op = "open"  -> {"mark"}

\* The locks that go with the phase of a request.
HoldsAd(r) == r.op = "start"
HoldsUser(r) == r.pc \in {"quota", "thread", "send", "commit"}
HoldsThread(r) == r.pc \in {"send", "commit"} \/ (r.op = "reply" /\ r.pc = "quota")

Owns(r, row) ==
    \/ HoldsAd(r) /\ row = AdRow
    \/ HoldsUser(r) /\ row = UserRow(r.user)
    \/ HoldsThread(r) /\ row = ThreadRow(r.thread)

\* The request has passed allow_send.
Passed(r) == r.pc \in {"send", "commit"} \/ (r.op = "start" /\ r.pc = "thread")

\* A request holds the locks of its phase and no others, and what it has asked of
\* the rows it has locked still holds.
WorkerOK(w) ==
    LET r == req[w]
    IN  /\ r.pc \in Phases(r.op)
        /\ \A row \in Rows : locks[row] = w <=> Owns(r, row)
        /\ HoldsAd(r) =>
               r.thread = r.user /\ ad.live /\ ad.published /\ ad.author # r.user
        /\ HoldsUser(r) => r.user \in accounts
        /\ Passed(r) => quota[r.user].count < Limit
        /\ r.fresh => HoldsAd(r) /\ Passed(r) /\ ~ threads[r.thread].exists
        /\ HoldsThread(r) /\ ~ r.fresh => threads[r.thread].exists
        /\ r.pc = "commit" => threads[r.thread].updated <= r.now /\ r.now <= clock
        /\ \A n \in r.ids :
               /\ n <= threads[r.thread].last
               /\ n \in DOMAIN threads[r.thread].log => threads[r.thread].log[n].shown

\* The variables keep their types; the ids and times of a thread are not ahead
\* of it; the workers are as WorkerOK has it.
TypeOK ==
    /\ ad \in [live : BOOLEAN, published : BOOLEAN, author : Users]
    /\ accounts \subseteq Users
    /\ threads \in [Users -> ThreadType]
    /\ \A i \in Users :
           /\ DOMAIN threads[i].log \subseteq 1..threads[i].last
           /\ threads[i].updated <= clock
           /\ threads[i].last + UnderWay(i) <= MaxMessages
    /\ quota \in [Users -> [count : Nat, opened : BOOLEAN]]
    /\ locks \in [Rows -> Workers \cup {NoWorker}]
    /\ clock \in Times
    /\ req \in [Workers -> Served]
    /\ \A w \in Workers : WorkerOK(w)

\* A conversation is opened or renewed from the card only while the
\* advertisement is in the catalogue and is somebody else's, at the commit and
\* not merely when the form was sent.
FirstWordsAreOnPublishedAds ==
    [][\A w \in Workers :
           req[w].op = "start" /\ req[w].pc = "commit" /\ threads' # threads =>
               ad.live /\ ad.published /\ ad.author # req[w].user]_vars

\* Two requests of a buyer never open the thread twice: the unique constraint,
\* whose error nobody catches, is never met.
ThreadsOpenOnce ==
    \A w \in Workers : req[w].fresh => ~ threads[req[w].thread].exists

\* The counter goes up with every message committed since its window opened, from
\* whichever thread, page or request, and never past the limit: no two requests
\* of a sender pass allow_send on the same count.
SendersStayWithinQuota ==
    \A u \in Users : quota[u].count <= Limit

\* A thread lists its messages in the order of their time, and its own time is
\* not before any of them, so that the list of threads shows the latest first.
ThreadsFollowTheirMessages ==
    \A i \in Users :
        LET log == threads[i].log
        IN  /\ \A m, n \in DOMAIN log : m < n => log[m].created <= log[n].created
            /\ \A n \in DOMAIN log : log[n].created <= threads[i].updated

\* A message counts as read only if a page of its reader has held it: what
\* arrives while the page is made, or stands on another page, stays unread.
OnlyShownMessagesAreRead ==
    \A i \in Users : \A n \in DOMAIN threads[i].log :
        threads[i].log[n].read => threads[i].log[n].shown

Wanted(r) ==
    CASE r.pc = "user" -> {UserRow(r.user)}
      [] r.pc = "thread" -> {ThreadRow(r.thread)}
      [] OTHER -> {}

WaitsFor(w, v) == \E row \in Wanted(req[w]) : locks[row] = v

\* Senders never wait for one another in a circle: PostgreSQL would end it by
\* killing one of the transactions.
NoCircularWait ==
    ~ \E ws \in (SUBSET Workers) \ {{}} :
          \A w \in ws : \E v \in ws \ {w} : WaitsFor(w, v)

\* What Message.clean says of a message: its author takes part in the thread.
MessagesAreByParticipants ==
    \A i \in Users : threads[i].exists =>
        \A n \in DOMAIN threads[i].log : threads[i].log[n].author \in Participants(i)
=============================================================================
