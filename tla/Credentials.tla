---------------------------- MODULE Credentials ----------------------------
(***************************************************************************)
(* The life of one account's password and of everything that proves it:    *)
(* JSON web tokens, site sessions and password reset links (users/).       *)
(*                                                                         *)
(* A worker serves one request at a time and works on the copy of the user *)
(* row it has read; another worker, or an administrator, may change the    *)
(* row between any two of its statements.  PostgreSQL gives each statement *)
(* the committed row (READ COMMITTED); SELECT FOR UPDATE and UPDATE wait   *)
(* for the row lock.                                                       *)
(***************************************************************************)
EXTENDS Integers, Sequences, FiniteSets

CONSTANTS
    Workers,        \* gunicorn workers, each serving one request at a time
    Passwords,      \* raw passwords
    FirstPassword,  \* the one the account was registered with
    Unusable,       \* the password of set_unusable_password()
    NoWorker,       \* the row lock is free
    MaxClock,       \* bound: no change of the password starts past this time
    MaxHeld         \* bound: tokens, sessions and links watched at once

ASSUME CredentialsAssumption ==
    /\ FirstPassword \in Passwords
    /\ Unusable \notin Passwords
    /\ NoWorker \notin Workers
    /\ MaxClock \in Nat
    /\ MaxHeld \in Nat

VARIABLES
    row,            \* the users_user row
    lock,           \* the worker holding its row lock, or NoWorker
    clock,          \* timezone.now(); computing a hash takes a unit of time
    req,            \* worker -> the request it is serving
    tokens,         \* the claims of the JSON web tokens handed out so far
    sessions,       \* the authenticated site sessions
    links,          \* the reset links mailed and not yet expired
    history         \* history variable: the password changes, oldest first

vars == <<row, lock, clock, req, tokens, sessions, links, history>>

----------------------------------------------------------------------------
(* Values.  A hash is told from every other by its salt; "old" says that   *)
(* the preferred hasher would replace it (must_update).  The field proof   *)
(* of a credential is a history variable: the epoch of the password whose  *)
(* knowledge (or mailbox) it attests.  A refresh token and the access      *)
(* tokens made from it carry the same claims and pass the same check, so   *)
(* one value stands for them all.                                          *)

Never   == 0        \* password_changed_at IS NULL
NoStamp == -1       \* a token of an earlier release, without the two claims

Epoch == Len(history)

Hash(p, salt)  == [pw |-> p, salt |-> salt, old |-> FALSE]
NoHash         == Hash(Unusable, -1)
Token(stamp, at, e) == [stamp |-> stamp, issuedAt |-> at, proof |-> e]
Session(h, e)    == [hash |-> h, proof |-> e]
Link(h, login, e) == [hash |-> h, lastLogin |-> login, proof |-> e]

Idle ==
    [ pc |-> "idle", op |-> "none", raw |-> Unusable, new |-> Unusable,
      hash |-> NoHash, changedAt |-> Never, basis |-> 0,
      token |-> Token(NoStamp, 0, 0), link |-> Link(NoHash, 0, 0) ]

Begin(op) == [Idle EXCEPT !.op = op]

Changing == {"change", "reset", "site_reset"}

Legacy == Token(NoStamp, 0, 0)

----------------------------------------------------------------------------
(* The checks every request passes through.                                *)

\* Mutant of TokenAccepted: the date alone decides.
TokenAcceptedByDate(t, u) ==
    /\ u.exists /\ u.active
    /\ u.changedAt = Never \/ t.issuedAt >= u.changedAt

\* A token is honoured for an active user, and only if it was issued since the
\* last password change and, when it says so, for that very change.
TokenAccepted(t, u) ==
    /\ u.exists /\ u.active
    /\ \/ u.changedAt = Never
       \/ /\ t.issuedAt >= u.changedAt
          /\ t.stamp \in {NoStamp, u.changedAt}

\* Django compares the session's hash with the row's on every request.
SessionAccepted(s, u) ==
    u.exists /\ u.active /\ s.hash = u.hash

\* The reset token hashes the password and last_login it was made for.
LinkValid(l, u) ==
    /\ u.exists /\ u.active
    /\ l.hash = u.hash /\ l.lastLogin = u.lastLogin

----------------------------------------------------------------------------
Init ==
    /\ \E old \in BOOLEAN :
           row = [ exists |-> TRUE, active |-> TRUE, changedAt |-> Never, lastLogin |-> 0,
                   hash |-> [pw |-> FirstPassword, salt |-> 0, old |-> old] ]
    /\ lock = NoWorker
    /\ clock = 0
    /\ req = [w \in Workers |-> Idle]
    /\ tokens \in {{}, {Legacy}}
    /\ sessions = {}
    /\ links = {}
    /\ history = << >>

CanStart(w) == req[w].pc = "idle"

\* The bound leaves time for the changes already under way.
CanChange(w) ==
    /\ CanStart(w)
    /\ clock + Cardinality({v \in Workers : req[v].op \in Changing}) < MaxClock

Become(w, r) == req' = [req EXCEPT ![w] = r]

Finish(w) == Become(w, Idle)

\* The credentials in circulation; those thrown away are no longer watched.
Hold(t, s, l) ==
    /\ tokens' \in SUBSET t /\ sessions' \in SUBSET s /\ links' \in SUBSET l
    /\ Cardinality(tokens') + Cardinality(sessions') + Cardinality(links') <= MaxHeld

(***************************************************************************)
(* check_user_password.  The copy has been compared with the raw password; *)
(* an outdated hash is then replaced by compare-and-set, and whoever loses *)
(* the race is judged by the hash now in the row.                          *)
(***************************************************************************)
Proved(r, u) ==
    LET proved == [Begin(r.op) EXCEPT !.basis = Epoch]
    IN  CASE r.op = "jwt" -> [proved EXCEPT !.pc = "mint", !.changedAt = u.changedAt]
          [] r.op = "session" -> [proved EXCEPT !.pc = "login", !.hash = u.hash]
          [] OTHER -> [proved EXCEPT !.pc = "lock", !.raw = r.raw, !.new = r.new]

\* Where the request goes when its user copy has been read.
Checked(r, u) ==
    IF u.hash.pw # r.raw THEN Idle
    ELSE IF u.hash.old THEN [r EXCEPT !.pc = "upgrade", !.hash = u.hash, !.basis = Epoch]
    ELSE IF u.active THEN Proved(r, u)
    ELSE Idle

\* Mutant of Replaces: UPDATE ... WHERE pk, without the hash.
ReplacesAny(r) == row.exists

Replaces(r) == row.exists /\ row.hash = r.hash

\* Mutant of Upgraded: the upgrade goes through save() and dates the change.
UpgradedBySave(h) == [row EXCEPT !.hash = h, !.changedAt = h.salt]

Upgraded(h) == [row EXCEPT !.hash = h]

Upgrade(w) ==
    /\ req[w].pc = "upgrade"
    /\ lock = NoWorker
    /\ LET h == Hash(req[w].raw, clock + 1)
       IN  /\ row' = IF Replaces(req[w]) THEN Upgraded(h) ELSE row
           /\ Become(w, [req[w] EXCEPT !.pc = "recheck", !.hash = h])
    /\ clock' = clock + 1
    /\ UNCHANGED <<lock, tokens, sessions, links, history>>

Recheck(w) ==
    /\ req[w].pc = "recheck"
    /\ IF /\ row.exists /\ row.active
          /\ row.hash = req[w].hash \/ row.hash.pw = req[w].raw
       THEN Become(w, Proved(req[w], row))
       ELSE Finish(w)
    /\ UNCHANGED <<row, lock, clock, tokens, sessions, links, history>>

(***************************************************************************)
(* Login, through the API (a token pair) or the site (a session).  Both    *)
(* stamp last_login before they answer, an UPDATE that waits for the lock. *)
(***************************************************************************)
LoginLoad(w) ==
    /\ CanStart(w)
    /\ row.exists
    /\ \E op \in {"jwt", "session"}, p \in Passwords :
           Become(w, Checked([Begin(op) EXCEPT !.raw = p], row))
    /\ UNCHANGED <<row, lock, clock, tokens, sessions, links, history>>

LoginMint(w) ==
    /\ req[w].pc = "mint"
    /\ Become(w, [Begin("jwt") EXCEPT !.pc = "deliver",
           !.token = Token(req[w].changedAt, clock, req[w].basis)])
    /\ UNCHANGED <<row, lock, clock, tokens, sessions, links, history>>

LoginDeliver(w) ==
    /\ req[w].pc = "deliver"
    /\ lock = NoWorker
    /\ IF row.exists
       THEN /\ row' = [row EXCEPT !.lastLogin = clock]
            /\ Hold(tokens \cup {req[w].token}, sessions, links)
       ELSE UNCHANGED <<row, tokens, sessions, links>>
    /\ Finish(w)
    /\ UNCHANGED <<lock, clock, history>>

SiteLogin(w) ==
    /\ req[w].pc = "login"
    /\ lock = NoWorker
    /\ IF row.exists
       THEN /\ row' = [row EXCEPT !.lastLogin = clock]
            /\ Hold(tokens, sessions \cup {Session(req[w].hash, req[w].basis)}, links)
       ELSE UNCHANGED <<row, tokens, sessions, links>>
    /\ Finish(w)
    /\ UNCHANGED <<lock, clock, history>>

(***************************************************************************)
(* Refresh: our check fixes the claims of the token, then SimpleJWT reads  *)
(* the user again and copies them into the access token.                   *)
(***************************************************************************)
RefreshCheck(w) ==
    /\ CanStart(w)
    /\ \E t \in tokens :
           /\ TokenAccepted(t, row)
           /\ Become(w, [Begin("refresh") EXCEPT !.pc = "reissue",
                  !.token = [t EXCEPT !.stamp = row.changedAt]])
    /\ UNCHANGED <<row, lock, clock, tokens, sessions, links, history>>

RefreshIssue(w) ==
    /\ req[w].pc = "reissue"
    /\ IF row.exists /\ row.active
       THEN Hold(tokens \cup {req[w].token}, sessions, links)
       ELSE UNCHANGED <<tokens, sessions, links>>
    /\ Finish(w)
    /\ UNCHANGED <<row, lock, clock, history>>

(***************************************************************************)
(* Password changes.  User.save dates the change when it stores the hash.  *)
(***************************************************************************)
Store(h, at, by, basis) ==
    /\ row' = [row EXCEPT !.hash = h, !.changedAt = at]
    /\ history' = Append(history, [by |-> by, basis |-> basis, at |-> at])

StoreNew(w, basis) ==
    /\ Store(Hash(req[w].new, clock + 1), clock + 1, "owner", basis)
    /\ clock' = clock + 1

\* The transaction of a change or a reset ends: commit or rollback.
EndTransaction(w) ==
    /\ lock' = NoWorker
    /\ Finish(w)

\* Mutant of LeaveUnchanged: the refusal forgets to end the transaction.
LeaveLocked(w) ==
    /\ Finish(w)
    /\ UNCHANGED <<row, clock, history, lock>>

LeaveUnchanged(w) ==
    /\ EndTransaction(w)
    /\ UNCHANGED <<row, clock, history>>

\* PasswordChangeSerializer.validate_current_password, on request.user.
ChangeLoad(w) ==
    /\ CanChange(w)
    /\ \E t \in tokens : TokenAccepted(t, row)
    /\ \E p \in Passwords, q \in Passwords :
           Become(w, Checked([Begin("change") EXCEPT !.raw = p, !.new = q], row))
    /\ UNCHANGED <<row, lock, clock, tokens, sessions, links, history>>

\* SELECT ... FOR UPDATE of the user, for a change or a reset.
LockUser(w) ==
    /\ req[w].pc = "lock"
    /\ lock = NoWorker
    /\ IF row.exists /\ row.active
       THEN /\ lock' = w
            /\ Become(w, [req[w] EXCEPT !.pc = "locked"])
       ELSE Finish(w) /\ UNCHANGED lock
    /\ UNCHANGED <<row, clock, tokens, sessions, links, history>>

\* The epoch at which the password presented was last known to be the row's.
ProvedAt(r) == IF r.raw = row.hash.pw THEN Epoch ELSE r.basis

\* Mutant of ChangeCommit: the first check is trusted, as before the lock.
ChangeCommitUnchecked(w) ==
    /\ req[w].pc = "locked" /\ req[w].op = "change"
    /\ StoreNew(w, ProvedAt(req[w])) /\ EndTransaction(w)
    /\ UNCHANGED <<tokens, sessions, links>>

ChangeCommit(w) ==
    /\ req[w].pc = "locked" /\ req[w].op = "change"
    /\ IF req[w].raw = row.hash.pw
       THEN StoreNew(w, ProvedAt(req[w])) /\ EndTransaction(w)
       ELSE LeaveUnchanged(w)
    /\ UNCHANGED <<tokens, sessions, links>>

\* request_password_reset: the link goes to the account's mailbox.
RequestReset ==
    /\ row.exists /\ row.active /\ row.hash.pw # Unusable
    /\ Hold(tokens, sessions, links \cup {Link(row.hash, row.lastLogin, Epoch)})
    /\ UNCHANGED <<row, lock, clock, req, history>>

ResetLoad(w) ==
    /\ CanChange(w)
    /\ \E l \in links, q \in Passwords :
           /\ LinkValid(l, row) /\ row.hash.pw # Unusable
           /\ Become(w, [Begin("reset") EXCEPT !.pc = "lock", !.new = q, !.link = l])
    /\ UNCHANGED <<row, lock, clock, tokens, sessions, links, history>>

\* The site keeps the token in the session between the link and the form.
SiteResetLoad(w) ==
    /\ CanChange(w)
    /\ \E l \in links, q \in Passwords :
           /\ LinkValid(l, row)
           /\ Become(w, [Begin("site_reset") EXCEPT !.pc = "lock", !.new = q, !.link = l])
    /\ UNCHANGED <<row, lock, clock, tokens, sessions, links, history>>

ResetCommit(w) ==
    /\ req[w].pc = "locked" /\ req[w].op = "reset"
    /\ IF req[w].link \in links /\ LinkValid(req[w].link, row)
       THEN StoreNew(w, req[w].link.proof) /\ EndTransaction(w)
       ELSE LeaveUnchanged(w)
    /\ UNCHANGED <<tokens, sessions, links>>

SiteResetCommit(w) ==
    /\ req[w].pc = "locked" /\ req[w].op = "site_reset"
    /\ IF req[w].link \in links /\ LinkValid(req[w].link, row)
       THEN StoreNew(w, req[w].link.proof) /\ EndTransaction(w)
       ELSE LeaveUnchanged(w)
    /\ UNCHANGED <<tokens, sessions, links>>

(***************************************************************************)
(* The administrator's form dates the change and then writes, unlocked.    *)
(***************************************************************************)
AdminSet(w) ==
    /\ CanChange(w)
    /\ row.exists
    /\ \E q \in Passwords \cup {Unusable} :
           Become(w, [Begin("admin") EXCEPT !.pc = "store",
               !.hash = Hash(q, clock + 1), !.changedAt = clock + 1])
    /\ clock' = clock + 1
    /\ UNCHANGED <<row, lock, tokens, sessions, links, history>>

AdminStore(w) ==
    /\ req[w].pc = "store"
    /\ lock = NoWorker
    /\ IF row.exists
       THEN Store(req[w].hash, req[w].changedAt, "admin", Epoch)
       ELSE UNCHANGED <<row, history>>
    /\ Finish(w)
    /\ UNCHANGED <<lock, clock, tokens, sessions, links>>

\* UserAdmin.save_model writes the changed fields only.
SetActive ==
    /\ row.exists /\ lock = NoWorker
    /\ row' = [row EXCEPT !.active = ~ @]
    /\ UNCHANGED <<lock, clock, req, tokens, sessions, links, history>>

DeleteUser ==
    /\ row.exists /\ lock = NoWorker
    /\ row' = [row EXCEPT !.exists = FALSE]
    /\ UNCHANGED <<lock, clock, req, tokens, sessions, links, history>>

(***************************************************************************)
(* The environment.                                                        *)
(***************************************************************************)
ExpireLink ==
    /\ \E l \in links : links' = links \ {l}
    /\ UNCHANGED <<row, lock, clock, req, tokens, sessions, history>>

\* The worker is killed: PostgreSQL rolls its transaction back.
Crash(w) ==
    /\ req[w].pc # "idle"
    /\ lock' = IF lock = w THEN NoWorker ELSE lock
    /\ Finish(w)
    /\ UNCHANGED <<row, clock, tokens, sessions, links, history>>

----------------------------------------------------------------------------
Start(w) ==
    \/ LoginLoad(w) \/ RefreshCheck(w) \/ ChangeLoad(w)
    \/ ResetLoad(w) \/ SiteResetLoad(w) \/ AdminSet(w)

\* The statements that wait for the row lock.
Blocking(w) ==
    \/ Upgrade(w) \/ LoginDeliver(w) \/ SiteLogin(w) \/ LockUser(w) \/ AdminStore(w)

Running(w) ==
    \/ Recheck(w) \/ LoginMint(w) \/ RefreshIssue(w)
    \/ ChangeCommit(w) \/ ResetCommit(w) \/ SiteResetCommit(w)

Environment == RequestReset \/ SetActive \/ DeleteUser \/ ExpireLink

Next ==
    \/ \E w \in Workers : Start(w) \/ Blocking(w) \/ Running(w) \/ Crash(w)
    \/ Environment

Spec == Init /\ [][Next]_vars

\* A worker runs on, and PostgreSQL queues the waiters of a row lock, so none
\* waits for ever.
Fairness == \A w \in Workers : WF_vars(Running(w)) /\ SF_vars(Blocking(w))

FairSpec == Spec /\ Fairness

----------------------------------------------------------------------------
(* Properties.                                                             *)

Hashes  == [pw : Passwords \cup {Unusable}, salt : Int, old : BOOLEAN]
Tokens  == [stamp : Int, issuedAt : Nat, proof : Nat]
Links   == [hash : Hashes, lastLogin : Nat, proof : Nat]
Changes == [by : {"owner", "admin"}, basis : Nat, at : Nat]

Requests ==
    [ pc : {"idle", "upgrade", "recheck", "mint", "deliver", "login", "reissue",
            "lock", "locked", "store"},
      op : {"none", "jwt", "session", "refresh", "change", "reset", "site_reset", "admin"},
      raw : Passwords \cup {Unusable}, new : Passwords \cup {Unusable},
      hash : Hashes, changedAt : Nat, basis : Nat, token : Tokens, link : Links ]

\* Every variable has its type, and the row lock is held by exactly the worker
\* that is inside its select_for_update transaction.
TypeOK ==
    /\ row \in [exists : BOOLEAN, active : BOOLEAN, hash : Hashes, changedAt : Nat,
                lastLogin : Nat]
    /\ lock \in Workers \cup {NoWorker}
    /\ clock \in Nat
    /\ req \in [Workers -> Requests]
    /\ tokens \subseteq Tokens
    /\ sessions \subseteq [hash : Hashes, proof : Nat]
    /\ links \subseteq Links
    /\ history \in Seq(Changes)
    /\ \A w \in Workers : req[w].pc = "locked" <=> lock = w

\* The epochs of the credentials the account answers to at this moment.
Honoured ==
    {t.proof : t \in {x \in tokens : TokenAccepted(x, row)}}
    \cup {s.proof : s \in {x \in sessions : SessionAccepted(x, row)}}
    \cup {l.proof : l \in {x \in links : LinkValid(x, row)}}

\* A token, session or reset link is honoured only if it was proved against the
\* password now in force: whatever login, refresh or reset was under way when
\* the password changed, its result is refused (authentication.py, tokens.py).
RevokedStaysRevoked == Honoured \subseteq {Epoch}

\* An upgrade of the hash never undoes a change of the password: between two
\* recorded changes the row verifies the same raw password (passwords.py).
UpgradeKeepsPassword ==
    [][history' = history => row'.hash.pw = row.hash.pw]_vars

\* Nothing but a password change, a deactivation or a deletion takes a token
\* away; logging in elsewhere and upgrading the hash do not (models.py).
TokensOutliveUpgrades ==
    [][history' = history /\ row'.exists /\ row'.active
       => \A t \in tokens : TokenAccepted(t, row) => TokenAccepted(t, row')]_vars

\* The detailed system implements the abstract account: the owner's changes,
\* by form or by link, are compare-and-set, so a reset link changes the
\* password once, and revocation is atomic and final.
Account == INSTANCE AccountAccess WITH
    log <- history, honoured <- Honoured

ImplementsAccountAccess == Account!Spec

\* Every request ends: no worker waits for ever for the row lock.
RequestsFinish == \A w \in Workers : req[w].pc # "idle" ~> req[w].pc = "idle"
----------------------------------------------------------------------------
(* The inductive invariant behind RevokedStaysRevoked: dates name changes, *)
(* and salts name hashes.                                                  *)

StampAt(e) == IF e = 0 THEN Never ELSE history[e].at

\* Requests of an administrator that have dated their change, not stored it.
Pending == {w \in Workers : req[w].pc = "store"}

\* The dates of the changes are in the past and all different.
HistoryOK ==
    /\ \A i \in 1..Epoch : history[i].at \in 1..clock
    /\ \A i, j \in 1..Epoch : history[i].at = history[j].at => i = j

RowOK ==
    /\ row.changedAt = StampAt(Epoch)
    /\ row.hash.salt \in 0..clock

\* A date and salt taken and not yet stored belongs to nobody else.
PendingOK ==
    \A w \in Pending :
        /\ req[w].changedAt \in 1..clock
        /\ req[w].hash.salt = req[w].changedAt
        /\ row.hash.salt # req[w].changedAt
        /\ \A i \in 1..Epoch : history[i].at # req[w].changedAt
        /\ \A v \in Pending : req[v].changedAt = req[w].changedAt => v = w

\* Stamp s attests epoch e.
StampOK(s, e) == e \in 0..Epoch /\ s = StampAt(e)

TokenOK(t) == t = Legacy \/ StampOK(t.stamp, t.proof)

\* Hash h attests epoch e: it is the row's hash only if e is the present epoch.
HashOK(h, e) ==
    /\ e \in 0..Epoch
    /\ h.salt \in 0..clock
    /\ h = row.hash => e = Epoch
    /\ \A w \in Pending : h.salt # req[w].changedAt

RequestOK(r) ==
    /\ r.pc = "mint" => StampOK(r.changedAt, r.basis)
    /\ r.pc \in {"deliver", "reissue"} => TokenOK(r.token)
    /\ r.pc = "login" => HashOK(r.hash, r.basis)
    /\ r.pc = "upgrade" => r.hash.pw = r.raw

CredentialsOK ==
    /\ \A t \in tokens : TokenOK(t)
    /\ \A s \in sessions : HashOK(s.hash, s.proof)
    /\ \A l \in links : HashOK(l.hash, l.proof)
    /\ \A w \in Workers : RequestOK(req[w])

Inductive == TypeOK /\ HistoryOK /\ RowOK /\ PendingOK /\ CredentialsOK
=============================================================================
