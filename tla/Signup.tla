------------------------------- MODULE Signup -------------------------------
(***************************************************************************)
(* Registration with a confirmed address (users/signup.py) and the pause   *)
(* between letters that guards it (users/rate_limit.py).                   *)
(*                                                                         *)
(* A visitor's data wait in a SignupRequest until the link mailed for them *)
(* is opened.  Workers submit, repeat and confirm requests concurrently;   *)
(* the statements of a transaction are steps of their own, and PostgreSQL  *)
(* shows each of them the rows committed so far (READ COMMITTED).          *)
(***************************************************************************)
EXTENDS Integers, FiniteSets

CONSTANTS
    Workers,        \* gunicorn workers, each serving one request at a time
    Emails,         \* addresses, stripped and in lower case
    Registering,    \* bound: those registered by visitors, the rest by hand
    Phones,         \* telephone numbers
    NoPhone,        \* the field left empty
    NoWorker,       \* nobody
    Cooldown,       \* EMAIL_SEND_TIMEOUT, the pause between letters
    Timeout,        \* gunicorn --timeout: a slower request is killed
    TTL,            \* SIGNUP_REQUEST_TTL, the life of a request
    MaxClock,       \* bound: the last instant
    MaxTokens       \* bound: requests ever stored

ASSUME SignupAssumption ==
    /\ IsFiniteSet(Workers)
    /\ Emails # {} /\ Registering \subseteq Emails
    /\ NoPhone \notin Phones
    /\ NoWorker \notin Workers
    /\ Cooldown \in Nat \ {0}
    /\ Timeout \in 1..Cooldown
    /\ TTL \in Nat \ {0}
    /\ MaxClock \in Nat
    /\ MaxTokens \in Nat

VARIABLES
    requests,       \* address -> its users_signuprequest row
    accounts,       \* address -> its users_user row
    lock,           \* address -> the worker whose transaction locks its request
    deadline,       \* address -> the cache entry users:email-send:signup
    culled,         \* the cache has thrown away a pause still running
    letters,        \* the tokens that have reached a mailbox
    clock,
    minted,         \* tokens given to committed requests so far
    req             \* worker -> the request it is serving

vars == <<requests, accounts, lock, deadline, culled, letters, clock, minted, req>>

----------------------------------------------------------------------------
(* Values.  A token stands for everything submitted with it: the names and *)
(* the password hash, which nobody changes while the request waits.        *)

Tokens == 1..MaxTokens
Attempts == 3       \* of _replace_signup_request
ByHand == 0         \* an account made in the admin site or the shell
NoEntry == 0        \* no entry in the cache

Request(t, p, at) == [token |-> t, phone |-> p, created |-> at]
NoRequest == Request(0, NoPhone, 0)

Account(from, p) == [exists |-> TRUE, from |-> from, phone |-> p]
NoAccount == [exists |-> FALSE, from |-> ByHand, phone |-> NoPhone]

Idle == [ pc |-> "idle", op |-> "none", email |-> CHOOSE e \in Emails : TRUE,
          began |-> 0, now |-> 0, tries |-> 0, row |-> NoRequest ]

Expired(r) == clock >= r.created + TTL

\* validate_registration_email and validate_registration_phone.
Available(e, p) ==
    /\ ~ accounts[e].exists
    /\ p # NoPhone => \A f \in Emails : accounts[f].phone # p

Become(w, r) == req' = [req EXCEPT ![w] = r]
Goto(w, pc)  == Become(w, [req[w] EXCEPT !.pc = pc])

At(w, op, pc) == req[w].op = op /\ req[w].pc = pc

----------------------------------------------------------------------------
(* Transactions.  A request row stays locked by whoever selected it FOR    *)
(* UPDATE or deleted it, until that transaction ends.                      *)

Free(e, w) == lock[e] \in {NoWorker, w}

\* The row of e is not there, or w has locked it.
Locks(w, e) ==
    IF requests[e] = NoRequest
    THEN UNCHANGED lock
    ELSE Free(e, w) /\ lock' = [lock EXCEPT ![e] = w]

Unlock(ws) == lock' = [e \in Emails |-> IF lock[e] \in ws THEN NoWorker ELSE lock[e]]

\* v's transaction has deleted or inserted the row of e and not yet ended.
Rewrites(v, e) ==
    /\ req[v].email = e
    /\ \/ At(v, "submit", "commit")
       \/ lock[e] = v /\ req[v].pc \in {"insert", "commit"}

\* Mutant of Abandon: the refusal forgets to end the transaction.
AbandonLocked(w) ==
    /\ Become(w, Idle)
    /\ UNCHANGED <<requests, accounts, lock>>

\* The transaction rolls back and the request is answered.
Abandon(w) ==
    /\ Become(w, Idle)
    /\ Unlock({w})
    /\ UNCHANGED <<requests, accounts>>

----------------------------------------------------------------------------
Init ==
    /\ requests = [e \in Emails |-> NoRequest]
    /\ accounts = [e \in Emails |-> NoAccount]
    /\ lock = [e \in Emails |-> NoWorker]
    /\ deadline = [e \in Emails |-> NoEntry]
    /\ culled = FALSE
    /\ letters = {}
    /\ clock = 0
    /\ minted = 0
    /\ req = [w \in Workers |-> Idle]

Begin(w, op, e) ==
    [Idle EXCEPT !.op = op, !.email = e, !.began = clock, !.now = clock]

(***************************************************************************)
(* acquire_email_send: the pause is an entry in the cache, inserted or     *)
(* replaced only once it has run out by the caller's clock.  The caller    *)
(* reads its clock some time before the statement runs, so it looks a      *)
(* second time when the entry runs out in between.                         *)
(***************************************************************************)
\* Mutant of Pause: the deadline loses its fraction of a second.
PauseFloored(now) == now + Cooldown - 1

Pause(now) == now + Cooldown

Reserve(w) ==
    LET r == req[w]
    IN  /\ r.pc = "reserve"
        /\ \E now \in r.now..clock :
              \/ /\ deadline[r.email] <= now
                 /\ deadline' = [deadline EXCEPT ![r.email] = Pause(now)]
                 /\ Become(w, [r EXCEPT !.pc = IF r.op = "submit" THEN "select" ELSE "mail",
                                        !.now = now, !.tries = 0])
              \/ /\ deadline[r.email] > now /\ deadline[r.email] <= clock
                 /\ Become(w, IF r.tries = 0 THEN [r EXCEPT !.now = clock, !.tries = 1] ELSE Idle)
                 /\ UNCHANGED deadline
              \/ /\ deadline[r.email] > clock
                 /\ Become(w, Idle)
                 /\ UNCHANGED deadline
        /\ UNCHANGED <<requests, accounts, lock, culled, letters, clock, minted>>

(***************************************************************************)
(* submit_signup_request and _replace_signup_request.                      *)
(***************************************************************************)
\* _signup_request_fields: what is to be stored, the password hashed once and for all;
\* token and date come with the row.
RequestFields(p) == Request(0, p, 0)

InFlight == Cardinality({w \in Workers : req[w].op = "submit" /\ req[w].pc # "mail"})

\* The serializer of the API and the form of the site ask what the service asks again.
Submit(w) ==
    /\ req[w].pc = "idle"
    /\ minted + InFlight < MaxTokens
    /\ \E e \in Registering, p \in Phones \cup {NoPhone} :
           /\ Available(e, p)
           /\ Become(w, [Begin(w, "submit", e) EXCEPT !.pc = "reserve", !.row = RequestFields(p)])
    /\ UNCHANGED <<requests, accounts, lock, deadline, culled, letters, clock, minted>>

\* SELECT ... FOR UPDATE of the request it is going to replace.
Select(w) ==
    /\ req[w].pc = "select"
    /\ Locks(w, req[w].email)
    /\ Goto(w, "check")
    /\ UNCHANGED <<requests, accounts, deadline, culled, letters, clock, minted>>

Check(w) ==
    /\ At(w, "submit", "check")
    /\ IF Available(req[w].email, req[w].row.phone)
       THEN Goto(w, "delete") /\ UNCHANGED <<requests, accounts, lock>>
       ELSE Abandon(w)
    /\ UNCHANGED <<deadline, culled, letters, clock, minted>>

\* DELETE locks the row once more: another may be there since the SELECT.
Delete(w) ==
    /\ req[w].pc = "delete"
    /\ Locks(w, req[w].email)
    /\ Goto(w, "insert")
    /\ UNCHANGED <<requests, accounts, deadline, culled, letters, clock, minted>>

\* The unique index waits for a transaction that is rewriting the row of this
\* address; if a row is there then, the loser starts over in a new transaction.
Insert(w) ==
    LET e == req[w].email
    IN  /\ req[w].pc = "insert"
        /\ \A v \in Workers \ {w} : ~ Rewrites(v, e)
        /\ IF requests[e] = NoRequest \/ lock[e] = w
           THEN Become(w, [req[w] EXCEPT !.pc = "commit", !.row.created = clock]) /\ UNCHANGED lock
           ELSE /\ Unlock({w})
                /\ Become(w, IF req[w].tries + 1 < Attempts
                             THEN [req[w] EXCEPT !.pc = "select", !.tries = @ + 1]
                             ELSE Idle)
        /\ UNCHANGED <<requests, accounts, deadline, culled, letters, clock, minted>>

CommitRequest(w) ==
    LET row == [req[w].row EXCEPT !.token = minted + 1]
    IN  /\ At(w, "submit", "commit")
        /\ requests' = [requests EXCEPT ![req[w].email] = row]
        /\ minted' = minted + 1
        /\ Unlock({w})
        /\ Become(w, [req[w] EXCEPT !.pc = "mail", !.row = row])
        /\ UNCHANGED <<accounts, deadline, culled, letters, clock>>

\* send_signup_confirmation_email logs a failure and carries on.
Mail(w) ==
    /\ req[w].pc = "mail"
    /\ letters' \in {letters, letters \cup {req[w].row.token}}
    /\ Become(w, Idle)
    /\ UNCHANGED <<requests, accounts, lock, deadline, culled, clock, minted>>

(***************************************************************************)
(* resend_signup_confirmation: the request is read, then the pause taken.  *)
(***************************************************************************)
\* Mutant of Resend: the letter is repeated without taking the pause.
ResendAtOnce(w) ==
    /\ req[w].pc = "idle"
    /\ \E e \in Emails :
           /\ requests[e] # NoRequest /\ ~ Expired(requests[e])
           /\ ~ accounts[e].exists
           /\ Become(w, [Begin(w, "resend", e) EXCEPT !.pc = "mail", !.row = requests[e]])
    /\ UNCHANGED <<requests, accounts, lock, deadline, culled, letters, clock, minted>>

Resend(w) ==
    /\ req[w].pc = "idle"
    /\ \E e \in Emails :
           /\ requests[e] # NoRequest /\ ~ Expired(requests[e])
           /\ ~ accounts[e].exists
           /\ Become(w, [Begin(w, "resend", e) EXCEPT !.pc = "reserve", !.row = requests[e]])
    /\ UNCHANGED <<requests, accounts, lock, deadline, culled, letters, clock, minted>>

(***************************************************************************)
(* confirm_signup_request: one transaction locks the request the token     *)
(* names, creates the account and deletes the request.                     *)
(***************************************************************************)
\* Mutant of ConfirmSelect: the row is read without FOR UPDATE.
ConfirmRead(w) ==
    /\ req[w].pc = "idle"
    /\ \E e \in Emails :
           /\ requests[e].token \in letters
           /\ ~ Expired(requests[e])
           /\ Become(w, [Begin(w, "confirm", e) EXCEPT !.pc = "check", !.row = requests[e]])
    /\ UNCHANGED <<requests, accounts, lock, deadline, culled, letters, clock, minted>>

ConfirmSelect(w) ==
    /\ req[w].pc = "idle"
    /\ \E e \in Emails :
           /\ requests[e].token \in letters
           /\ ~ Expired(requests[e])
           /\ Locks(w, e)
           /\ Become(w, [Begin(w, "confirm", e) EXCEPT !.pc = "check", !.row = requests[e]])
    /\ UNCHANGED <<requests, accounts, deadline, culled, letters, clock, minted>>

ConfirmCheck(w) ==
    /\ At(w, "confirm", "check")
    /\ IF Available(req[w].email, req[w].row.phone)
       THEN Goto(w, "create") /\ UNCHANGED <<requests, accounts, lock>>
       ELSE Abandon(w)
    /\ UNCHANGED <<deadline, culled, letters, clock, minted>>

\* Mutant of ConfirmCreate: the deletion survives the failed creation.
ConfirmCreateUnsafe(w) ==
    /\ req[w].pc = "create"
    /\ IF ~ Available(req[w].email, req[w].row.phone)
       THEN /\ requests' = [requests EXCEPT ![req[w].email] = NoRequest]
            /\ Become(w, Idle) /\ Unlock({w}) /\ UNCHANGED accounts
       ELSE Goto(w, "commit") /\ UNCHANGED <<requests, accounts, lock>>
    /\ UNCHANGED <<deadline, culled, letters, clock, minted>>

\* INSERT of the user: its unique address may have been taken meanwhile.
ConfirmCreate(w) ==
    /\ req[w].pc = "create"
    /\ IF accounts[req[w].email].exists
       THEN Abandon(w)
       ELSE Goto(w, "commit") /\ UNCHANGED <<requests, accounts, lock>>
    /\ UNCHANGED <<deadline, culled, letters, clock, minted>>

CommitAccount(w) ==
    LET r == req[w]
    IN  /\ At(w, "confirm", "commit")
        /\ accounts' = [accounts EXCEPT ![r.email] = Account(r.row.token, r.row.phone)]
        /\ requests' = [requests EXCEPT ![r.email] = IF @.token = r.row.token THEN NoRequest ELSE @]
        /\ Unlock({w})
        /\ Become(w, Idle)
        /\ UNCHANGED <<deadline, culled, letters, clock, minted>>

(***************************************************************************)
(* Everybody else: purge_signup_requests, the admin site, the profile, the *)
(* cache at MAX_ENTRIES, a killed worker, time.                            *)
(***************************************************************************)
Purge(e) ==
    /\ requests[e] # NoRequest /\ Expired(requests[e])
    /\ lock[e] = NoWorker
    /\ requests' = [requests EXCEPT ![e] = NoRequest]
    /\ UNCHANGED <<accounts, lock, deadline, culled, letters, clock, minted, req>>

\* The unique index makes a second INSERT of the address wait for the first.
CreateByHand(e) ==
    /\ ~ accounts[e].exists
    /\ \A w \in Workers : ~ (At(w, "confirm", "commit") /\ req[w].email = e)
    /\ accounts' = [accounts EXCEPT ![e] = Account(ByHand, NoPhone)]
    /\ UNCHANGED <<requests, lock, deadline, culled, letters, clock, minted, req>>

\* ProfileSerializer and the profile form accept any number.
SetPhone(e) ==
    /\ accounts[e].exists
    /\ \E p \in Phones \cup {NoPhone} :
           /\ p # accounts[e].phone
           /\ accounts' = [accounts EXCEPT ![e].phone = p]
    /\ UNCHANGED <<requests, lock, deadline, culled, letters, clock, minted, req>>

DeleteAccount(e) ==
    /\ accounts[e].exists
    /\ accounts' = [accounts EXCEPT ![e] = NoAccount]
    /\ UNCHANGED <<requests, lock, deadline, culled, letters, clock, minted, req>>

\* More than MAX_ENTRIES keys: the cache drops keys that have not expired.
Cull(e) ==
    /\ deadline[e] > clock
    /\ deadline' = [deadline EXCEPT ![e] = NoEntry]
    /\ culled' = TRUE
    /\ UNCHANGED <<requests, accounts, lock, letters, clock, minted, req>>

Crash(w) ==
    /\ req[w].pc # "idle"
    /\ Abandon(w)
    /\ UNCHANGED <<deadline, culled, letters, clock, minted>>

\* The arbiter kills the workers whose request has taken Timeout.
Overdue(w) == req[w].pc # "idle" /\ clock + 1 >= req[w].began + Timeout

Tick ==
    /\ clock < MaxClock
    /\ clock' = clock + 1
    /\ req' = [w \in Workers |-> IF Overdue(w) THEN Idle ELSE req[w]]
    /\ Unlock({w \in Workers : Overdue(w)})
    /\ UNCHANGED <<requests, accounts, deadline, culled, letters, minted>>

Serve(w) ==
    \/ Submit(w) \/ Resend(w) \/ Reserve(w)
    \/ Select(w) \/ Check(w) \/ Delete(w) \/ Insert(w) \/ CommitRequest(w) \/ Mail(w)
    \/ ConfirmSelect(w) \/ ConfirmCheck(w) \/ ConfirmCreate(w) \/ CommitAccount(w)

Next ==
    \/ \E w \in Workers : Serve(w) \/ Crash(w)
    \/ \E e \in Emails :
           Purge(e) \/ CreateByHand(e) \/ SetPhone(e) \/ DeleteAccount(e) \/ Cull(e)
    \/ Tick

Spec == Init /\ [][Next]_vars

----------------------------------------------------------------------------
(* Properties.                                                             *)

RequestRow == [token : 0..MaxTokens, phone : Phones \cup {NoPhone}, created : 0..MaxClock]
AccountRow == [exists : BOOLEAN, from : 0..MaxTokens, phone : Phones \cup {NoPhone}]
Served == [ pc : {"idle", "reserve", "select", "check", "delete", "insert", "create", "commit", "mail"},
            op : {"none", "submit", "resend", "confirm"}, email : Emails,
            began : 0..MaxClock, now : 0..MaxClock, tries : 0..Attempts - 1, row : RequestRow ]

InTransaction == {"check", "delete", "insert", "create", "commit"}

Phases(op) ==
    CASE op = "none"    -> {"idle"}
      [] op = "submit"  -> {"reserve", "select", "check", "delete", "insert", "commit", "mail"}
      [] op = "resend"  -> {"reserve", "mail"}
      [] op = "confirm" -> {"check", "create", "commit"}

\* A request is younger than Timeout.  A confirmation holds the row it has copied.
\* At the commit of a submission its address has no row or one it has locked, and
\* nobody else is committing one.
ServedOK(w) ==
    LET r == req[w]
    IN  /\ r.pc \in Phases(r.op)
        /\ r.pc = "idle" => r = Idle
        /\ r.began <= r.now /\ r.now <= clock
        /\ r.pc # "idle" => clock < r.began + Timeout
        /\ r.op = "confirm" => lock[r.email] = w /\ requests[r.email] = r.row
        /\ r.op \in {"resend", "confirm"} \/ r.pc = "mail" => r.row.token \in Tokens
        /\ At(w, "submit", "commit") =>
               /\ requests[r.email] = NoRequest \/ lock[r.email] = w
               /\ \A v \in Workers \ {w} : At(v, "submit", "commit") => req[v].email # r.email

\* The variables keep their types, a request row is locked only inside a
\* transaction on its address (_replace_signup_request, confirm_signup_request),
\* and every worker is as ServedOK has it.
TypeOK ==
    /\ requests \in [Emails -> RequestRow]
    /\ accounts \in [Emails -> AccountRow]
    /\ lock \in [Emails -> Workers \cup {NoWorker}]
    /\ deadline \in [Emails -> 0..MaxClock + Cooldown]
    /\ culled \in BOOLEAN
    /\ letters \subseteq Tokens
    /\ clock \in 0..MaxClock
    /\ minted \in Nat /\ minted + InFlight <= MaxTokens
    /\ \A e \in Emails : requests[e] = NoRequest \/ requests[e].token \in 1..minted
    /\ req \in [Workers -> Served]
    /\ \A e \in Emails : lock[e] # NoWorker =>
           /\ requests[e] # NoRequest
           /\ req[lock[e]].email = e
           /\ req[lock[e]].pc \in InTransaction
    /\ \A w \in Workers : ServedOK(w)

Sending(w) ==
    req[w].op \in {"submit", "resend"} /\ req[w].pc \notin {"idle", "reserve"}

\* While the cache keeps its entries, the pause is a lock: between taking it and
\* sending the letter a worker is alone with the address, although nothing but
\* the sixty seconds and the worker timeout keeps others out.
OneSenderPerAddress ==
    \A v, w \in Workers :
        v # w /\ Sending(v) /\ Sending(w) /\ req[v].email = req[w].email => culled

\* A letter carries the link of the request that is waiting now: the row has not
\* been replaced by the time the letter goes out.  A link repeated by
\* resend_signup_confirmation may have been, if it was read more than
\* Cooldown - Timeout before the pause was taken.
LettersAreCurrent ==
    \A w \in Workers : req[w].pc = "mail" =>
        \/ culled
        \/ requests[req[w].email] \in {NoRequest, req[w].row}
        \/ req[w].op = "resend" /\ req[w].now + Timeout > req[w].began + Cooldown

\* Whoever has taken the pause has a deadline at least Cooldown ahead of its clock.
PausesHold ==
    \A w \in Workers : Sending(w) =>
        culled \/ deadline[req[w].email] >= req[w].now + Cooldown

\* What a resend has read is current until a pause runs out.
CopiesAreCurrent ==
    \A w \in Workers : At(w, "resend", "reserve") =>
        \/ culled
        \/ requests[req[w].email] \in {NoRequest, req[w].row}
        \/ deadline[req[w].email] + Timeout > req[w].began + Cooldown

\* The inductive invariant behind OneSenderPerAddress and LettersAreCurrent.
Inductive == TypeOK /\ OneSenderPerAddress /\ PausesHold /\ CopiesAreCurrent /\ LettersAreCurrent

\* An account made by confirmation has the data of the request that was waiting
\* for its address at that moment, never of one replaced meanwhile, and uses
\* that request up: a link makes one account.
AccountsComeFromCurrentRequests ==
    [][\A e \in Emails :
           ~ accounts[e].exists /\ accounts'[e].exists /\ accounts'[e].from # ByHand =>
               /\ requests[e].token = accounts'[e].from
               /\ requests[e].phone = accounts'[e].phone
               /\ requests'[e] = NoRequest]_vars

\* A confirmation that fails, by conflict or by crash, leaves the request and its
\* link: a request goes only with its account, after its day, or for a newer one.
RequestsAreKept ==
    [][\A e \in Emails :
           requests[e] # NoRequest /\ requests'[e] # requests[e] =>
               \/ requests'[e].token > requests[e].token
               \/ accounts'[e].exists /\ accounts'[e].from = requests[e].token
               \/ Expired(requests[e])]_vars

\* What users/validation.py and the tests say of a confirmation: it never makes
\* an account with a telephone number that another account has.
PhonesStayUnique ==
    [][\A e, f \in Emails :
           /\ e # f /\ ~ accounts[e].exists
           /\ accounts'[e].exists /\ accounts'[e].phone # NoPhone
           => accounts'[f].phone # accounts'[e].phone]_vars
=============================================================================
