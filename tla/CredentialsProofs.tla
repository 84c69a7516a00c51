------------------------- MODULE CredentialsProofs -------------------------
(***************************************************************************)
(* Proofs that the account of Credentials never honours a superseded       *)
(* credential and implements AccountAccess, for any number of workers,     *)
(* passwords and changes.                                                  *)
(***************************************************************************)
EXTENDS Credentials, FiniteSetTheorems, TLAPS

(***************************************************************************)
(* Type correctness.                                                       *)
(***************************************************************************)
LEMMA ValueTypes ==
  /\ \A p \in Passwords \cup {Unusable}, n \in Int : Hash(p, n) \in Hashes
  /\ \A n \in Int, at \in Nat, e \in Nat : Token(n, at, e) \in Tokens
  /\ \A h \in Hashes, n \in Nat, e \in Nat : Link(h, n, e) \in Links
  BY DEF Hash, Token, Link, Hashes, Tokens, Links

LEMMA IdleType == Idle \in Requests
  <1>1. NoHash \in Hashes
    BY ValueTypes DEF NoHash
  <1>2. Token(NoStamp, 0, 0) \in Tokens
    BY ValueTypes DEF NoStamp
  <1>3. Link(NoHash, 0, 0) \in Links
    BY <1>1, ValueTypes
  <1> QED
    BY <1>1, <1>2, <1>3 DEF Idle, Requests, Never

Ops == {"none", "jwt", "session", "refresh", "change", "reset", "site_reset", "admin"}

LEMMA BeginType == \A op \in Ops : Begin(op) \in Requests
  BY IdleType DEF Begin, Requests, Ops

\* A worker that is outside its transaction before and after a step leaves the
\* lock to whom it belongs.
LEMMA BecomeType ==
  ASSUME TypeOK, NEW w \in Workers, NEW r \in Requests, Become(w, r),
         req[w].pc # "locked", r.pc # "locked", lock' = lock
  PROVE  /\ req' \in [Workers -> Requests]
         /\ \A v \in Workers : req'[v].pc = "locked" <=> lock' = v
  BY DEF TypeOK, Become

\* A commit or a rollback frees the lock.
LEMMA EndType ==
  ASSUME TypeOK, NEW w \in Workers, req[w].pc = "locked", EndTransaction(w)
  PROVE  /\ req' \in [Workers -> Requests]
         /\ lock' \in Workers \cup {NoWorker}
         /\ \A v \in Workers : req'[v].pc = "locked" <=> lock' = v
  BY IdleType, CredentialsAssumption DEF TypeOK, EndTransaction, Finish, Become, Idle

LEMMA HoldType ==
  ASSUME NEW t, NEW s, NEW l, Hold(t, s, l)
  PROVE  tokens' \subseteq t /\ sessions' \subseteq s /\ links' \subseteq l
  BY DEF Hold

LEMMA EpochType == TypeOK => Epoch \in Nat
  BY DEF TypeOK, Epoch

LEMMA ProvedType ==
  ASSUME TypeOK, NEW r \in Requests
  PROVE  Proved(r, row) \in Requests /\ Proved(r, row).pc \in {"mint", "login", "lock"}
  <1>1. Begin(r.op) \in Requests
    BY BeginType DEF Requests, Ops
  <1>2. [Begin(r.op) EXCEPT !.basis = Epoch] \in Requests
    BY <1>1, EpochType DEF Requests
  <1> DEFINE proved == [Begin(r.op) EXCEPT !.basis = Epoch]
  <1> HIDE DEF proved
  <1>3. proved \in Requests
    BY <1>2 DEF proved
  <1>4. row.hash \in Hashes /\ row.changedAt \in Nat
    BY DEF TypeOK
  <1>5. [proved EXCEPT !.pc = "mint", !.changedAt = row.changedAt] \in Requests
    BY <1>3, <1>4 DEF Requests
  <1>6. [proved EXCEPT !.pc = "login", !.hash = row.hash] \in Requests
    BY <1>3, <1>4 DEF Requests
  <1>7. [proved EXCEPT !.pc = "lock", !.raw = r.raw, !.new = r.new] \in Requests
    BY <1>3, <1>4 DEF Requests
  <1> QED
    BY <1>3, <1>5, <1>6, <1>7 DEF Proved, proved, Requests

LEMMA CheckedType ==
  ASSUME TypeOK, NEW r \in Requests
  PROVE  Checked(r, row) \in Requests /\ Checked(r, row).pc # "locked"
  <1>1. [r EXCEPT !.pc = "upgrade", !.hash = row.hash, !.basis = Epoch] \in Requests
    BY EpochType DEF TypeOK, Requests
  <1>2. Idle \in Requests /\ Idle.pc = "idle"
    BY IdleType DEF Idle
  <1> QED
    BY <1>1, <1>2, ProvedType DEF Checked, Requests

LEMMA HashFresh ==
  ASSUME TypeOK, NEW p \in Passwords \cup {Unusable}
  PROVE  Hash(p, clock + 1) \in Hashes /\ clock + 1 \in Nat
  BY ValueTypes DEF TypeOK

\* A new hash and its date, and one more entry of the history.
LEMMA StoreType ==
  ASSUME TypeOK, NEW h \in Hashes, NEW at \in Nat, NEW by \in {"owner", "admin"},
         NEW basis \in Nat, Store(h, at, by, basis)
  PROVE  /\ row' \in [exists : BOOLEAN, active : BOOLEAN, hash : Hashes,
                      changedAt : Nat, lastLogin : Nat]
         /\ history' \in Seq(Changes)
  <1>1. [by |-> by, basis |-> basis, at |-> at] \in Changes
    BY DEF Changes
  <1>2. row' \in [exists : BOOLEAN, active : BOOLEAN, hash : Hashes, changedAt : Nat,
                 lastLogin : Nat]
    BY DEF Store, TypeOK
  <1> DEFINE change == [by |-> by, basis |-> basis, at |-> at]
  <1>3. change \in Changes /\ history \in Seq(Changes) /\ history' = Append(history, change)
    BY <1>1 DEF Store, TypeOK
  <1> HIDE DEF change
  <1>4. history' \in Seq(Changes)
    BY <1>3
  <1> QED
    BY <1>2, <1>4

LEMMA TypeInit == Init => TypeOK
  <1> SUFFICES ASSUME Init PROVE TypeOK
    OBVIOUS
  <1>1. \A old \in BOOLEAN : [pw |-> FirstPassword, salt |-> 0, old |-> old] \in Hashes
    BY CredentialsAssumption DEF Hashes
  <1>2. tokens \subseteq Tokens
    BY ValueTypes DEF Init, Legacy, NoStamp
  <1>3. history \in Seq(Changes)
    BY DEF Init
  <1> QED
    BY <1>1, <1>2, <1>3, IdleType, CredentialsAssumption DEF Init, TypeOK, Idle, Never

LEMMA TypeNext == TypeOK /\ [Next]_vars => TypeOK'
  <1> SUFFICES ASSUME TypeOK, [Next]_vars PROVE TypeOK'
    OBVIOUS
  <1> USE DEF TypeOK
  <1>login. ASSUME NEW w \in Workers, LoginLoad(w) PROVE TypeOK'
    <2>1. PICK op \in {"jwt", "session"}, p \in Passwords :
              Become(w, Checked([Begin(op) EXCEPT !.raw = p], row))
      BY <1>login DEF LoginLoad
    <2>2. [Begin(op) EXCEPT !.raw = p] \in Requests
      <3>1. Begin(op) \in Requests
        BY BeginType DEF Ops
      <3> QED
        BY <3>1 DEF Requests
    <2> QED
      BY <1>login, <2>1, <2>2, CheckedType, BecomeType DEF LoginLoad, CanStart
  <1>refresh. ASSUME NEW w \in Workers, RefreshCheck(w) PROVE TypeOK'
    <2>1. PICK t \in tokens :
              Become(w, [Begin("refresh") EXCEPT !.pc = "reissue",
                             !.token = [t EXCEPT !.stamp = row.changedAt]])
      BY <1>refresh DEF RefreshCheck
    <2>2. [t EXCEPT !.stamp = row.changedAt] \in Tokens
      BY DEF Tokens
    <2> DEFINE r == [Begin("refresh") EXCEPT !.pc = "reissue",
                         !.token = [t EXCEPT !.stamp = row.changedAt]]
    <2>3. r \in Requests /\ r.pc # "locked"
      BY <2>2, BeginType DEF Ops, Requests
    <2> QED
      BY <1>refresh, <2>1, <2>3, BecomeType DEF RefreshCheck, CanStart
  <1>change. ASSUME NEW w \in Workers, ChangeLoad(w) PROVE TypeOK'
    <2>1. PICK p \in Passwords, q \in Passwords :
              Become(w, Checked([Begin("change") EXCEPT !.raw = p, !.new = q], row))
      BY <1>change DEF ChangeLoad
    <2>2. [Begin("change") EXCEPT !.raw = p, !.new = q] \in Requests
      BY BeginType DEF Ops, Requests
    <2> QED
      BY <1>change, <2>1, <2>2, CheckedType, BecomeType DEF ChangeLoad, CanChange, CanStart
  <1>reset. ASSUME NEW w \in Workers, ResetLoad(w) \/ SiteResetLoad(w) PROVE TypeOK'
    <2>1. PICK op \in {"reset", "site_reset"}, l \in links, q \in Passwords :
              Become(w, [Begin(op) EXCEPT !.pc = "lock", !.new = q, !.link = l])
      BY <1>reset DEF ResetLoad, SiteResetLoad
    <2> DEFINE r == [Begin(op) EXCEPT !.pc = "lock", !.new = q, !.link = l]
    <2>2. r \in Requests /\ r.pc # "locked"
      <3>1. Begin(op) \in Requests
        BY BeginType DEF Ops
      <3> QED
        BY <3>1 DEF Requests
    <2> QED
      BY <1>reset, <2>1, <2>2, BecomeType DEF ResetLoad, SiteResetLoad, CanChange, CanStart
  <1>admin. ASSUME NEW w \in Workers, AdminSet(w) PROVE TypeOK'
    <2>1. PICK q \in Passwords \cup {Unusable} :
              Become(w, [Begin("admin") EXCEPT !.pc = "store",
                             !.hash = Hash(q, clock + 1), !.changedAt = clock + 1])
      BY <1>admin DEF AdminSet
    <2> DEFINE r == [Begin("admin") EXCEPT !.pc = "store",
                         !.hash = Hash(q, clock + 1), !.changedAt = clock + 1]
    <2>2. r \in Requests /\ r.pc # "locked"
      BY BeginType, HashFresh DEF Ops, Requests
    <2> QED
      BY <1>admin, <2>1, <2>2, HashFresh, BecomeType DEF AdminSet, CanChange, CanStart
  <1>upgrade. ASSUME NEW w \in Workers, Upgrade(w) PROVE TypeOK'
    <2> DEFINE h == Hash(req[w].raw, clock + 1)
               r == [req[w] EXCEPT !.pc = "recheck", !.hash = h]
    <2>1. h \in Hashes /\ clock' \in Nat
      BY <1>upgrade, HashFresh DEF Upgrade, Requests
    <2>2. r \in Requests /\ r.pc # "locked"
      BY <2>1 DEF Requests
    <2>3. row' \in [exists : BOOLEAN, active : BOOLEAN, hash : Hashes, changedAt : Nat,
                   lastLogin : Nat]
      BY <1>upgrade, <2>1 DEF Upgrade, Upgraded
    <2> QED
      BY <1>upgrade, <2>1, <2>2, <2>3, BecomeType DEF Upgrade
  <1>recheck. ASSUME NEW w \in Workers, Recheck(w) PROVE TypeOK'
    <2>1. PICK r \in {Idle, Proved(req[w], row)} : Become(w, r)
      BY <1>recheck DEF Recheck, Finish
    <2>2. r \in Requests /\ r.pc # "locked"
      BY <2>1, IdleType, ProvedType DEF Idle
    <2> QED
      BY <1>recheck, <2>1, <2>2, BecomeType DEF Recheck
  <1>mint. ASSUME NEW w \in Workers, LoginMint(w) PROVE TypeOK'
    <2> DEFINE t == Token(req[w].changedAt, clock, req[w].basis)
               r == [Begin("jwt") EXCEPT !.pc = "deliver", !.token = t]
    <2>1. t \in Tokens
      BY ValueTypes DEF Requests
    <2>2. r \in Requests /\ r.pc # "locked"
      BY <2>1, BeginType DEF Ops, Requests
    <2> QED
      BY <1>mint, <2>2, BecomeType DEF LoginMint
  <1>deliver. ASSUME NEW w \in Workers, LoginDeliver(w) PROVE TypeOK'
    <2>1. tokens' \subseteq Tokens /\ sessions' \subseteq sessions /\ links' \subseteq links
      BY <1>deliver, HoldType DEF LoginDeliver, Requests
    <2> QED
      BY <1>deliver, <2>1, IdleType, BecomeType DEF LoginDeliver, Finish, Idle
  <1>site. ASSUME NEW w \in Workers, SiteLogin(w) PROVE TypeOK'
    <2>1. Session(req[w].hash, req[w].basis) \in [hash : Hashes, proof : Nat]
      BY DEF Session, Requests
    <2>2. /\ tokens' \subseteq tokens /\ links' \subseteq links
          /\ sessions' \subseteq [hash : Hashes, proof : Nat]
      BY <1>site, <2>1, HoldType DEF SiteLogin
    <2> QED
      BY <1>site, <2>2, IdleType, BecomeType DEF SiteLogin, Finish, Idle
  <1>reissue. ASSUME NEW w \in Workers, RefreshIssue(w) PROVE TypeOK'
    <2>1. tokens' \subseteq Tokens /\ sessions' \subseteq sessions /\ links' \subseteq links
      BY <1>reissue, HoldType DEF RefreshIssue, Requests
    <2> QED
      BY <1>reissue, <2>1, IdleType, BecomeType DEF RefreshIssue, Finish, Idle
  <1>lock. ASSUME NEW w \in Workers, LockUser(w) PROVE TypeOK'
    <2>1. CASE row.exists /\ row.active
      <3>1. [req[w] EXCEPT !.pc = "locked"] \in Requests
        BY DEF Requests
      <3> QED
        <4>1. req' = [req EXCEPT ![w] = [req[w] EXCEPT !.pc = "locked"]]
          BY <1>lock, <2>1 DEF LockUser, Become
        <4>2. lock' = w /\ lock = NoWorker /\ UNCHANGED <<row, clock, tokens, sessions, links, history>>
          BY <1>lock, <2>1 DEF LockUser
        <4>3. \A v \in Workers : req[v].pc # "locked"
          BY <4>2, CredentialsAssumption
        <4>4. \A v \in Workers : req'[v].pc = "locked" <=> v = w
          BY <4>1, <4>3, <3>1 DEF Requests
        <4>5. req' \in [Workers -> Requests]
          BY <4>1, <3>1
        <4> QED
          BY <4>2, <4>4, <4>5
    <2>2. CASE ~ (row.exists /\ row.active)
      BY <1>lock, <2>2, IdleType, BecomeType DEF LockUser, Finish, Idle
    <2> QED
      BY <2>1, <2>2
  <1>commit. ASSUME NEW w \in Workers,
                    ChangeCommit(w) \/ ResetCommit(w) \/ SiteResetCommit(w)
             PROVE  TypeOK'
    <2>1. /\ req[w].pc = "locked" /\ EndTransaction(w)
          /\ UNCHANGED <<tokens, sessions, links>>
          /\ \/ \E basis \in {ProvedAt(req[w]), req[w].link.proof} : StoreNew(w, basis)
             \/ UNCHANGED <<row, clock, history>>
      BY <1>commit DEF ChangeCommit, ResetCommit, SiteResetCommit, LeaveUnchanged
    <2>2. /\ req' \in [Workers -> Requests]
          /\ lock' \in Workers \cup {NoWorker}
          /\ \A v \in Workers : req'[v].pc = "locked" <=> lock' = v
      BY <2>1, EndType
    <2>3. CASE UNCHANGED <<row, clock, history>>
      BY <2>1, <2>2, <2>3
    <2>4. CASE \E basis \in {ProvedAt(req[w]), req[w].link.proof} : StoreNew(w, basis)
      <3>1. PICK basis \in {ProvedAt(req[w]), req[w].link.proof} : StoreNew(w, basis)
        BY <2>4
      <3>2. basis \in Nat
        BY <3>1, EpochType DEF ProvedAt, Requests, Links
      <3>3. Hash(req[w].new, clock + 1) \in Hashes /\ clock + 1 \in Nat
        BY HashFresh DEF Requests
      <3> QED
        BY <2>1, <2>2, <3>1, <3>2, <3>3, StoreType DEF StoreNew
    <2> QED
      BY <2>1, <2>3, <2>4
  <1>store. ASSUME NEW w \in Workers, AdminStore(w) PROVE TypeOK'
    <2>1. CASE row.exists
      <3>1. Store(req[w].hash, req[w].changedAt, "admin", Epoch)
        BY <1>store, <2>1 DEF AdminStore
      <3>2. req[w].hash \in Hashes /\ req[w].changedAt \in Nat
        BY DEF Requests
      <3> QED
        BY <1>store, <3>1, <3>2, StoreType, EpochType, IdleType, BecomeType
           DEF AdminStore, Finish, Idle
    <2>2. CASE ~ row.exists
      BY <1>store, <2>2, IdleType, BecomeType DEF AdminStore, Finish, Idle
    <2> QED
      BY <2>1, <2>2
  <1>crash. ASSUME NEW w \in Workers, Crash(w) PROVE TypeOK'
    <2>1. req' \in [Workers -> Requests]
      BY <1>crash, IdleType DEF Crash, Finish, Become
    <2>2. \A v \in Workers : req'[v].pc = "locked" <=> lock' = v
      BY <1>crash, IdleType, CredentialsAssumption DEF Crash, Finish, Become, Idle
    <2> QED
      BY <1>crash, <2>1, <2>2 DEF Crash
  <1>env. ASSUME Environment PROVE TypeOK'
    <2>1. CASE RequestReset
      <3>1. Link(row.hash, row.lastLogin, Epoch) \in Links
        BY ValueTypes, EpochType
      <3>2. /\ tokens' \subseteq tokens /\ sessions' \subseteq sessions
            /\ links' \subseteq Links
        BY <2>1, <3>1, HoldType DEF RequestReset
      <3> QED
        BY <2>1, <3>2 DEF RequestReset
    <2>2. CASE SetActive
      BY <2>2 DEF SetActive
    <2>3. CASE DeleteUser
      BY <2>3 DEF DeleteUser
    <2>4. CASE ExpireLink
      BY <2>4 DEF ExpireLink
    <2> QED
      BY <1>env, <2>1, <2>2, <2>3, <2>4 DEF Environment
  <1>stutter. CASE UNCHANGED vars
    BY <1>stutter DEF vars
  <1> QED
    BY <1>login, <1>refresh, <1>change, <1>reset, <1>admin, <1>upgrade, <1>recheck, <1>mint,
       <1>deliver, <1>site, <1>reissue, <1>lock, <1>commit, <1>store, <1>crash, <1>env,
       <1>stutter
       DEF Next, Start, Blocking, Running

\* The variables always have their types, and only a worker inside its
\* transaction holds the row lock.
THEOREM TypeCorrect == Spec => []TypeOK
  <1> QED
    BY TypeInit, TypeNext, PTL DEF Spec

(***************************************************************************)
(* The inductive invariant.  A step either leaves the password, its date   *)
(* and the clock alone, or takes a date nobody has.                        *)
(***************************************************************************)

\* Without a change of the password or the clock, what is attested stays so.
LEMMA QuietStep ==
  ASSUME Inductive, TypeOK', UNCHANGED <<clock, history>>,
         row'.hash = row.hash, row'.changedAt = row.changedAt,
         \A v \in Workers : \/ req'[v] = req[v]
                            \/ req'[v].pc # "store" /\ RequestOK(req'[v]),
         \A t \in tokens' : TokenOK(t),
         \A s \in sessions' : HashOK(s.hash, s.proof),
         \A l \in links' : HashOK(l.hash, l.proof)
  PROVE  Inductive'
  <1>1. Pending' \subseteq Pending /\ \A v \in Pending' : req'[v] = req[v]
    BY DEF Pending
  <1>2. Epoch' = Epoch /\ \A e : StampAt(e)' = StampAt(e)
    BY DEF Epoch, StampAt
  <1>3. \A s, e : StampOK(s, e) => StampOK(s, e)'
    BY <1>2 DEF StampOK
  <1>4. \A t : TokenOK(t) => TokenOK(t)'
    BY <1>3 DEF TokenOK
  <1>5. \A h, e : HashOK(h, e) => HashOK(h, e)'
    BY <1>1, <1>2 DEF HashOK
  <1>6. \A r : RequestOK(r) => RequestOK(r)'
    BY <1>3, <1>4, <1>5 DEF RequestOK
  <1>7. HistoryOK'
    BY <1>2 DEF Inductive, HistoryOK
  <1>8. RowOK'
    BY <1>2 DEF Inductive, RowOK
  <1>9. PendingOK'
    BY <1>1, <1>2 DEF Inductive, PendingOK
  <1>10. \A v \in Workers : RequestOK(req[v])'
    BY <1>6 DEF Inductive, CredentialsOK
  <1>11. CredentialsOK'
    BY <1>4, <1>5, <1>10 DEF CredentialsOK
  <1> QED
    BY <1>7, <1>8, <1>9, <1>11 DEF Inductive

\* A change of the password takes a fresh date: it becomes the present epoch,
\* and no hash handed out before is the row's any more.
LEMMA ChangeStep ==
  ASSUME Inductive, TypeOK', NEW c \in Changes, NEW h \in Hashes,
         history' = Append(history, c), row'.hash = h, row'.changedAt = c.at,
         clock' >= clock, c.at \in 1..clock', h.salt = c.at,
         \A i \in 1..Epoch : history[i].at # c.at,
         \A k, e : HashOK(k, e) => k.salt # c.at,
         \A v \in Workers : req'[v] = req[v] \/ req'[v] = Idle,
         \A v \in Pending' : req[v].changedAt # c.at,
         UNCHANGED <<tokens, sessions, links>>
  PROVE  Inductive'
  <1> USE DEF Inductive
  <1>1. Pending' \subseteq Pending /\ \A v \in Pending' : req'[v] = req[v]
    BY DEF Pending, Idle
  <1>2. history \in Seq(Changes) /\ clock \in Nat /\ clock' \in Nat /\ c.at \in Nat
    BY DEF TypeOK, Changes
  <1>3. /\ Epoch \in Nat /\ Epoch' = Epoch + 1
        /\ \A i \in 1..Epoch : history'[i] = history[i]
        /\ history'[Epoch'] = c
    BY <1>2 DEF Epoch
  <1>4. \A e \in 0..Epoch : StampAt(e)' = StampAt(e)
    BY <1>3 DEF StampAt
  <1>5. StampAt(Epoch)' = c.at
    BY <1>3 DEF StampAt
  <1>6. \A s, e : StampOK(s, e) => StampOK(s, e)'
    BY <1>3, <1>4 DEF StampOK
  <1>7. \A t : TokenOK(t) => TokenOK(t)'
    BY <1>6 DEF TokenOK
  <1>8. \A k, e : HashOK(k, e) => HashOK(k, e)'
    <2> SUFFICES ASSUME NEW k, NEW e, HashOK(k, e) PROVE HashOK(k, e)'
      OBVIOUS
    <2>1. k # row'.hash
      OBVIOUS
    <2>2. e \in 0..Epoch' /\ k.salt \in 0..clock'
      BY <1>2, <1>3 DEF HashOK
    <2>3. \A v \in Pending' : k.salt # req'[v].changedAt
      BY <1>1 DEF HashOK
    <2> QED
      BY <2>1, <2>2, <2>3 DEF HashOK
  <1>9. \A r : RequestOK(r) => RequestOK(r)'
    BY <1>6, <1>7, <1>8 DEF RequestOK
  <1>10. HistoryOK'
    <2>1. \A i \in 1..Epoch' : history'[i].at \in 1..clock'
      BY <1>2, <1>3 DEF HistoryOK
    <2>2. \A i, j \in 1..Epoch' : history'[i].at = history'[j].at => i = j
      BY <1>3 DEF HistoryOK
    <2> QED
      BY <2>1, <2>2 DEF HistoryOK
  <1>11. RowOK'
    BY <1>2, <1>5 DEF RowOK
  <1>12. PendingOK'
    <2> SUFFICES ASSUME NEW v \in Pending'
                 PROVE  /\ req'[v].changedAt \in 1..clock'
                        /\ req'[v].hash.salt = req'[v].changedAt
                        /\ row'.hash.salt # req'[v].changedAt
                        /\ \A i \in 1..Epoch' : history'[i].at # req'[v].changedAt
                        /\ \A u \in Pending' : req'[u].changedAt = req'[v].changedAt => u = v
      BY DEF PendingOK
    <2>1. v \in Pending /\ req'[v] = req[v] /\ req[v].changedAt # c.at
      BY <1>1
    <2>2. req[v].changedAt \in 1..clock /\ req[v].hash.salt = req[v].changedAt
      BY <2>1 DEF PendingOK
    <2>3. \A i \in 1..Epoch' : history'[i].at # req'[v].changedAt
      BY <1>3, <2>1 DEF PendingOK
    <2>4. \A u \in Pending' : req'[u].changedAt = req'[v].changedAt => u = v
      BY <1>1, <2>1 DEF PendingOK
    <2>5. req'[v].changedAt \in 1..clock' /\ req'[v].hash.salt = req'[v].changedAt
      BY <1>2, <2>1, <2>2
    <2>6. row'.hash.salt # req'[v].changedAt
      BY <2>1
    <2> QED
      BY <2>3, <2>4, <2>5, <2>6
  <1>13. RequestOK(Idle)'
    BY DEF RequestOK, Idle
  <1>14. \A v \in Workers : RequestOK(req[v])'
    BY <1>9, <1>13 DEF CredentialsOK
  <1>15. CredentialsOK'
    BY <1>7, <1>8, <1>14 DEF CredentialsOK
  <1> QED
    BY <1>10, <1>11, <1>12, <1>15

\* Time passes and the history stands: hashes computed meanwhile are new, so
\* an upgraded row is not the hash of any credential handed out, and a date
\* taken is later than all others.
LEMMA ClockStep ==
  ASSUME Inductive, TypeOK', NEW w \in Workers, NEW r \in Requests, Become(w, r),
         clock' = clock + 1, UNCHANGED <<tokens, sessions, links, history>>,
         row'.changedAt = row.changedAt,
         row'.hash = row.hash \/ row'.hash.salt = clock + 1,
         r.pc = "store" => /\ r.changedAt = clock + 1 /\ r.hash.salt = clock + 1
                           /\ row'.hash = row.hash,
         r.pc \in {"store", "recheck"}
  PROVE  Inductive'
  <1> USE DEF Inductive
  <1>1. /\ clock \in Nat /\ req \in [Workers -> Requests]
        /\ req' = [req EXCEPT ![w] = r]
    BY DEF TypeOK, Become
  <1>2. Epoch' = Epoch /\ \A e : StampAt(e)' = StampAt(e)
    BY DEF Epoch, StampAt
  <1>3. \A v \in Pending' :
            \/ v \in Pending /\ req'[v] = req[v] /\ req[v].changedAt \in 1..clock
            \/ v = w /\ r.pc = "store" /\ req'[v].changedAt = clock + 1
    <2>1. \A v \in Workers : req'[v] = IF v = w THEN r ELSE req[v]
      BY <1>1
    <2>2. \A v \in Pending' : v # w => v \in Pending
      BY <2>1 DEF Pending
    <2>3. Pending' \subseteq Workers /\ (w \in Pending' => r.pc = "store")
      BY <2>1 DEF Pending
    <2>4. \A v \in Pending : req[v].changedAt \in 1..clock
      BY DEF PendingOK
    <2> TAKE v \in Pending'
    <2>5. CASE v = w
      BY <2>1, <2>3, <2>5
    <2>6. CASE v # w
      <3>1. v \in Pending
        BY <2>2, <2>6
      <3>2. req'[v] = req[v]
        BY <2>1, <2>3, <2>6
      <3>3. req[v].changedAt \in 1..clock
        BY <2>4, <3>1
      <3> QED
        BY <3>1, <3>2, <3>3
    <2> QED
      BY <2>5, <2>6
  <1>4. \A t : TokenOK(t) => TokenOK(t)'
    BY <1>2 DEF TokenOK, StampOK
  <1>5. \A h, e : HashOK(h, e) => HashOK(h, e)'
    <2> SUFFICES ASSUME NEW h, NEW e, HashOK(h, e) PROVE HashOK(h, e)'
      OBVIOUS
    <2>1. h.salt \in 0..clock /\ h.salt \in 0..clock'
      BY <1>1 DEF HashOK
    <2>2. h = row'.hash => h = row.hash
      BY <1>1, <2>1
    <2>3. \A v \in Pending' : h.salt # req'[v].changedAt
      BY <1>1, <1>3, <2>1 DEF HashOK
    <2> QED
      BY <1>2, <2>1, <2>2, <2>3 DEF HashOK
  <1>6. HistoryOK'
    BY <1>1, <1>2 DEF HistoryOK
  <1>7. RowOK'
    BY <1>1, <1>2 DEF RowOK
  <1>8. PendingOK'
    <2> SUFFICES ASSUME NEW v \in Pending'
                 PROVE  /\ req'[v].changedAt \in 1..clock'
                        /\ req'[v].hash.salt = req'[v].changedAt
                        /\ row'.hash.salt # req'[v].changedAt
                        /\ \A i \in 1..Epoch' : history'[i].at # req'[v].changedAt
                        /\ \A u \in Pending' : req'[u].changedAt = req'[v].changedAt => u = v
      BY DEF PendingOK
    <2>1. CASE v \in Pending /\ req'[v] = req[v] /\ req[v].changedAt \in 1..clock
      <3>1. req'[v].changedAt \in 1..clock' /\ req'[v].hash.salt = req'[v].changedAt
        BY <1>1, <2>1 DEF PendingOK
      <3>2. row'.hash.salt # req'[v].changedAt
        BY <1>1, <2>1 DEF PendingOK
      <3>3. \A i \in 1..Epoch' : history'[i].at # req'[v].changedAt
        BY <1>2, <2>1 DEF PendingOK
      <3>4. \A u \in Pending' : req'[u].changedAt = req'[v].changedAt => u = v
        BY <1>1, <1>3, <2>1 DEF PendingOK
      <3> QED
        BY <3>1, <3>2, <3>3, <3>4
    <2>2. CASE v = w /\ r.pc = "store" /\ req'[v].changedAt = clock + 1
      <3>1. req'[v] = r /\ row'.hash.salt \in 0..clock
        BY <1>1, <2>2 DEF RowOK
      <3>2. \A i \in 1..Epoch' : history'[i].at \in 1..clock
        BY <1>2 DEF HistoryOK
      <3>3. \A u \in Pending' : req'[u].changedAt = req'[v].changedAt => u = v
        BY <1>1, <1>3, <2>2
      <3> QED
        BY <1>1, <2>2, <3>1, <3>2, <3>3
    <2> QED
      BY <1>3, <2>1, <2>2
  <1>9. \A q : RequestOK(q) => RequestOK(q)'
    BY <1>2, <1>4, <1>5 DEF RequestOK, StampOK
  <1>10. RequestOK(r)'
    BY DEF RequestOK
  <1>11. \A v \in Workers : RequestOK(req[v])'
    BY <1>1, <1>9, <1>10 DEF CredentialsOK
  <1>12. CredentialsOK'
    BY <1>4, <1>5, <1>11 DEF CredentialsOK
  <1> QED
    BY <1>6, <1>7, <1>8, <1>12

(***************************************************************************)
(* What the invariant says of the credentials honoured now.                *)
(***************************************************************************)
LEMMA AcceptedTokenCurrent ==
  ASSUME Inductive, NEW t, TokenOK(t), TokenAccepted(t, row)
  PROVE  t.proof = Epoch /\ (row.changedAt = Never => Epoch = 0)
  <1>1. Epoch \in Nat /\ row.changedAt = StampAt(Epoch)
    BY EpochType DEF Inductive, RowOK
  <1>2. \A i \in 1..Epoch : history[i].at >= 1
    BY DEF Inductive, HistoryOK, TypeOK
  <1>3. row.changedAt = Never => Epoch = 0
    BY <1>1, <1>2 DEF StampAt, Never
  <1>4. CASE t = Legacy
    <2>1. t.proof = 0 /\ t.issuedAt = 0 /\ t.stamp = NoStamp
      BY <1>4 DEF Legacy, Token
    <2>2. CASE Epoch = 0
      BY <1>3, <2>1, <2>2
    <2>3. CASE Epoch # 0
      <3>1. row.changedAt >= 1 /\ row.changedAt \in Int
        BY <1>1, <1>2, <2>3 DEF StampAt, Inductive, TypeOK
      <3> QED
        BY <2>1, <3>1 DEF TokenAccepted, Never
    <2> QED
      BY <2>2, <2>3
  <1>5. CASE StampOK(t.stamp, t.proof)
    <2>1. t.proof \in 0..Epoch /\ t.stamp = StampAt(t.proof)
      BY <1>5 DEF StampOK
    <2>2. CASE row.changedAt = Never
      BY <1>1, <1>3, <2>1, <2>2
    <2>3. CASE row.changedAt # Never
      <3>1. Epoch # 0
        BY <1>1, <2>3 DEF StampAt
      <3>2. t.stamp # NoStamp
        <4>1. CASE t.proof = 0
          BY <2>1, <4>1 DEF StampAt, Never, NoStamp
        <4>2. CASE t.proof # 0
          <5>1. t.stamp = history[t.proof].at /\ history[t.proof].at \in 1..clock
            BY <1>1, <2>1, <4>2 DEF StampAt, Inductive, HistoryOK
          <5> QED
            BY <5>1 DEF NoStamp, Inductive, TypeOK
        <4> QED
          BY <4>1, <4>2
      <3>3. t.stamp = row.changedAt
        BY <2>3, <3>2 DEF TokenAccepted
      <3>4. t.proof # 0
        BY <2>1, <2>3, <3>3 DEF StampAt
      <3> QED
        BY <1>1, <2>1, <3>1, <3>3, <3>4, <1>3, <2>3 DEF StampAt, Inductive, HistoryOK
    <2> QED
      BY <2>2, <2>3
  <1> QED
    BY <1>4, <1>5 DEF TokenOK

LEMMA HonouredCurrent == Inductive => RevokedStaysRevoked
  BY AcceptedTokenCurrent
     DEF Inductive, CredentialsOK, HashOK, RevokedStaysRevoked, Honoured,
         SessionAccepted, LinkValid

(***************************************************************************)
(* Every step keeps the invariant.                                         *)
(***************************************************************************)
LEMMA InductiveInit == Init => Inductive
  <1> SUFFICES ASSUME Init PROVE Inductive
    OBVIOUS
  <1>1. TypeOK
    BY TypeInit
  <1>2. Epoch = 0
    BY DEF Init, Epoch
  <1>3. Pending = {} /\ \A w \in Workers : RequestOK(req[w])
    BY DEF Init, Pending, RequestOK, Idle
  <1>4. CredentialsOK
    BY <1>3 DEF Init, CredentialsOK, TokenOK
  <1> QED
    BY <1>1, <1>2, <1>3, <1>4
       DEF Inductive, Init, HistoryOK, RowOK, PendingOK, StampAt

\* A request whose password has just been checked against the row.
LEMMA CheckedOK ==
  ASSUME Inductive, NEW r \in Requests
  PROVE  Checked(r, row).pc # "store" /\ RequestOK(Checked(r, row))
         /\ Proved(r, row).pc # "store" /\ RequestOK(Proved(r, row))
  <1>1. Epoch \in Nat /\ row.changedAt = StampAt(Epoch)
    BY EpochType DEF Inductive, RowOK
  <1>2. StampOK(row.changedAt, Epoch) /\ HashOK(row.hash, Epoch)
    BY <1>1 DEF StampOK, HashOK, Inductive, RowOK, PendingOK
  <1>3. Begin(r.op) \in Requests /\ Begin(r.op).pc = "idle"
    BY BeginType DEF Requests, Ops, Begin, Idle
  <1>4. Proved(r, row).pc # "store" /\ RequestOK(Proved(r, row))
    BY <1>2, <1>3 DEF Proved, RequestOK, Requests
  <1>5. RequestOK(Idle) /\ Idle.pc # "store"
    BY DEF RequestOK, Idle
  <1> QED
    BY <1>4, <1>5 DEF Checked, RequestOK, Requests

LEMMA InductiveNext == Inductive /\ [Next]_vars => Inductive'
  <1> SUFFICES ASSUME Inductive, [Next]_vars PROVE Inductive'
    OBVIOUS
  <1>type. TypeOK /\ TypeOK'
    BY TypeNext DEF Inductive
  <1>vars. /\ row \in [exists : BOOLEAN, active : BOOLEAN, hash : Hashes, changedAt : Nat,
                       lastLogin : Nat]
           /\ req \in [Workers -> Requests] /\ clock \in Nat
           /\ tokens \subseteq Tokens /\ links \subseteq Links
    BY <1>type DEF TypeOK
  <1>held. /\ \A t \in tokens : TokenOK(t)
           /\ \A s \in sessions : HashOK(s.hash, s.proof)
           /\ \A l \in links : HashOK(l.hash, l.proof)
           /\ \A w \in Workers : RequestOK(req[w])
    BY DEF Inductive, CredentialsOK
  <1>idle. RequestOK(Idle) /\ Idle.pc # "store" /\ Idle \in Requests
    BY IdleType DEF RequestOK, Idle
  <1>become. \A w \in Workers, r \in Requests :
                 Become(w, r) => \A v \in Workers : req'[v] = IF v = w THEN r ELSE req[v]
    BY <1>type DEF Become, TypeOK
  <1>hash. StampOK(row.changedAt, Epoch) /\ HashOK(row.hash, Epoch)
    BY EpochType DEF StampOK, HashOK, Inductive, RowOK, PendingOK
  \* A request begins or moves on without touching the account.
  <1>login. ASSUME NEW w \in Workers, LoginLoad(w) PROVE Inductive'
    <2>1. PICK op \in {"jwt", "session"}, p \in Passwords :
              Become(w, Checked([Begin(op) EXCEPT !.raw = p], row))
      BY <1>login DEF LoginLoad
    <2> DEFINE r == Checked([Begin(op) EXCEPT !.raw = p], row)
    <2>2. [Begin(op) EXCEPT !.raw = p] \in Requests
      <3>1. Begin(op) \in Requests
        BY BeginType DEF Ops
      <3> QED
        BY <3>1 DEF Requests
    <2>3. r.pc # "store" /\ RequestOK(r) /\ r \in Requests
      BY <2>2, CheckedOK, CheckedType, <1>type
    <2> HIDE DEF r
    <2> QED
      BY <1>login, <1>type, <1>held, <1>become, <2>1, <2>3, QuietStep DEF LoginLoad, r
  <1>refresh. ASSUME NEW w \in Workers, RefreshCheck(w) PROVE Inductive'
    <2>1. PICK t \in tokens :
              /\ TokenAccepted(t, row)
              /\ Become(w, [Begin("refresh") EXCEPT !.pc = "reissue",
                                !.token = [t EXCEPT !.stamp = row.changedAt]])
      BY <1>refresh DEF RefreshCheck
    <2> DEFINE u == [t EXCEPT !.stamp = row.changedAt]
               r == [Begin("refresh") EXCEPT !.pc = "reissue", !.token = u]
    <2>2. t.proof = Epoch /\ t \in Tokens
      BY <2>1, <1>held, <1>vars, AcceptedTokenCurrent
    <2>3. u \in Tokens /\ u.stamp = row.changedAt /\ u.proof = Epoch
      BY <2>2, <1>vars DEF Tokens
    <2>4. TokenOK(u)
      BY <2>3, <1>hash DEF TokenOK
    <2> HIDE DEF u
    <2>5. r \in Requests /\ r.pc = "reissue" /\ r.token = u
      BY <2>3, BeginType DEF Ops, Requests
    <2>6. RequestOK(r)
      BY <2>4, <2>5 DEF RequestOK
    <2>7. Become(w, r)
      BY <2>1 DEF u
    <2> HIDE DEF r
    <2> QED
      BY <1>refresh, <1>type, <1>held, <1>become, <2>5, <2>6, <2>7, QuietStep DEF RefreshCheck
  <1>change. ASSUME NEW w \in Workers, ChangeLoad(w) PROVE Inductive'
    <2>1. PICK p \in Passwords, q \in Passwords :
              Become(w, Checked([Begin("change") EXCEPT !.raw = p, !.new = q], row))
      BY <1>change DEF ChangeLoad
    <2> DEFINE r == Checked([Begin("change") EXCEPT !.raw = p, !.new = q], row)
    <2>2. [Begin("change") EXCEPT !.raw = p, !.new = q] \in Requests
      BY BeginType DEF Ops, Requests
    <2>3. r.pc # "store" /\ RequestOK(r) /\ r \in Requests
      BY <2>2, CheckedOK, CheckedType, <1>type
    <2> HIDE DEF r
    <2> QED
      BY <1>change, <1>type, <1>held, <1>become, <2>1, <2>3, QuietStep DEF ChangeLoad, r
  <1>reset. ASSUME NEW w \in Workers, ResetLoad(w) \/ SiteResetLoad(w) PROVE Inductive'
    <2>1. PICK op \in {"reset", "site_reset"}, l \in links, q \in Passwords :
              Become(w, [Begin(op) EXCEPT !.pc = "lock", !.new = q, !.link = l])
      BY <1>reset DEF ResetLoad, SiteResetLoad
    <2> DEFINE r == [Begin(op) EXCEPT !.pc = "lock", !.new = q, !.link = l]
    <2>2. r \in Requests /\ r.pc = "lock"
      <3>1. Begin(op) \in Requests
        BY BeginType DEF Ops
      <3> QED
        BY <3>1, <1>type DEF Requests, TypeOK
    <2>3. RequestOK(r)
      BY <2>2 DEF RequestOK
    <2> HIDE DEF r
    <2> QED
      BY <1>reset, <1>type, <1>held, <1>become, <2>1, <2>2, <2>3, QuietStep
         DEF ResetLoad, SiteResetLoad, r
  <1>recheck. ASSUME NEW w \in Workers, Recheck(w) PROVE Inductive'
    <2>1. PICK r \in {Idle, Proved(req[w], row)} : Become(w, r)
      BY <1>recheck DEF Recheck, Finish
    <2>2. r \in Requests /\ r.pc # "store" /\ RequestOK(r)
      BY <2>1, <1>idle, <1>type, CheckedOK, ProvedType DEF TypeOK
    <2> QED
      BY <1>recheck, <1>type, <1>held, <1>become, <2>1, <2>2, QuietStep DEF Recheck
  <1>mint. ASSUME NEW w \in Workers, LoginMint(w) PROVE Inductive'
    <2> DEFINE t == Token(req[w].changedAt, clock, req[w].basis)
               r == [Begin("jwt") EXCEPT !.pc = "deliver", !.token = t]
    <2>1. StampOK(req[w].changedAt, req[w].basis)
      BY <1>mint, <1>held DEF LoginMint, RequestOK
    <2>2. t \in Tokens /\ TokenOK(t)
      BY <2>1, <1>type, ValueTypes DEF TokenOK, Token, TypeOK, Requests
    <2> HIDE DEF t
    <2>3. r \in Requests /\ r.pc = "deliver" /\ r.token = t
      BY <2>2, BeginType DEF Ops, Requests
    <2>4. RequestOK(r)
      BY <2>2, <2>3 DEF RequestOK
    <2>5. Become(w, r)
      BY <1>mint DEF LoginMint, t
    <2> HIDE DEF r
    <2> QED
      BY <1>mint, <1>type, <1>held, <1>become, <2>3, <2>4, <2>5, QuietStep DEF LoginMint
  \* A request hands a credential out.
  <1>deliver. ASSUME NEW w \in Workers, LoginDeliver(w) \/ RefreshIssue(w) PROVE Inductive'
    <2>1. TokenOK(req[w].token)
      BY <1>deliver, <1>held DEF LoginDeliver, RefreshIssue, RequestOK
    <2>2. /\ tokens' \subseteq tokens \cup {req[w].token}
          /\ sessions' \subseteq sessions /\ links' \subseteq links
      BY <1>deliver, HoldType DEF LoginDeliver, RefreshIssue
    <2>3. row'.hash = row.hash /\ row'.changedAt = row.changedAt
      BY <1>deliver, <1>type DEF LoginDeliver, RefreshIssue, TypeOK
    <2>4. Become(w, Idle) /\ UNCHANGED <<clock, history>>
      BY <1>deliver DEF LoginDeliver, RefreshIssue, Finish
    <2> QED
      BY <1>type, <1>held, <1>idle, <1>become, <2>1, <2>2, <2>3, <2>4, QuietStep
  <1>site. ASSUME NEW w \in Workers, SiteLogin(w) PROVE Inductive'
    <2> DEFINE s == Session(req[w].hash, req[w].basis)
    <2>1. HashOK(s.hash, s.proof)
      BY <1>site, <1>held DEF SiteLogin, RequestOK, Session
    <2>2. /\ tokens' \subseteq tokens /\ links' \subseteq links
          /\ sessions' \subseteq sessions \cup {s}
      BY <1>site, HoldType DEF SiteLogin
    <2>3. row'.hash = row.hash /\ row'.changedAt = row.changedAt
      BY <1>site, <1>type DEF SiteLogin, TypeOK
    <2>4. Become(w, Idle) /\ UNCHANGED <<clock, history>>
      BY <1>site DEF SiteLogin, Finish
    <2> HIDE DEF s
    <2> QED
      BY <1>type, <1>held, <1>idle, <1>become, <2>1, <2>2, <2>3, <2>4, QuietStep
  <1>lock. ASSUME NEW w \in Workers, LockUser(w) PROVE Inductive'
    <2>1. PICK r \in {Idle, [req[w] EXCEPT !.pc = "locked"]} : Become(w, r)
      BY <1>lock DEF LockUser, Finish
    <2>2. r \in Requests /\ r.pc # "store" /\ RequestOK(r)
      <3>1. [req[w] EXCEPT !.pc = "locked"] \in Requests
        BY <1>vars DEF Requests
      <3>2. RequestOK([req[w] EXCEPT !.pc = "locked"])
        BY <1>vars DEF Requests, RequestOK
      <3> QED
        BY <2>1, <1>idle, <1>vars, <3>1, <3>2 DEF Requests
    <2> QED
      BY <1>lock, <1>type, <1>held, <1>become, <2>1, <2>2, QuietStep DEF LockUser
  <1>crash. ASSUME NEW w \in Workers, Crash(w) PROVE Inductive'
    BY <1>crash, <1>type, <1>held, <1>idle, <1>become, QuietStep DEF Crash, Finish

  \* The clock moves on, and perhaps the password.
  <1>upgrade. ASSUME NEW w \in Workers, Upgrade(w) PROVE Inductive'
    <2> DEFINE h == Hash(req[w].raw, clock + 1)
               r == [req[w] EXCEPT !.pc = "recheck", !.hash = h]
    <2>1. h \in Hashes /\ h.salt = clock + 1
      BY HashFresh, <1>type, <1>vars DEF Requests, Hash
    <2>2. r \in Requests /\ r.pc = "recheck"
      BY <2>1, <1>vars DEF Requests
    <2>3. row'.changedAt = row.changedAt /\ (row'.hash = row.hash \/ row'.hash = h)
      BY <1>upgrade, <1>type DEF Upgrade, Upgraded, TypeOK
    <2>4. Become(w, r)
      BY <1>upgrade DEF Upgrade
    <2> HIDE DEF h, r
    <2> QED
      BY <1>upgrade, <1>type, <2>1, <2>2, <2>3, <2>4, ClockStep DEF Upgrade
  <1>admin. ASSUME NEW w \in Workers, AdminSet(w) PROVE Inductive'
    <2>1. PICK q \in Passwords \cup {Unusable} :
              Become(w, [Begin("admin") EXCEPT !.pc = "store",
                             !.hash = Hash(q, clock + 1), !.changedAt = clock + 1])
      BY <1>admin DEF AdminSet
    <2> DEFINE h == Hash(q, clock + 1)
               r == [Begin("admin") EXCEPT !.pc = "store", !.hash = h,
                                           !.changedAt = clock + 1]
    <2>2. h \in Hashes /\ h.salt = clock + 1 /\ clock + 1 \in Nat
      BY HashFresh, <1>type DEF Hash
    <2>3. Become(w, r)
      BY <2>1
    <2> HIDE DEF h
    <2>4. /\ r \in Requests /\ r.pc = "store" /\ r.changedAt = clock + 1
          /\ r.hash.salt = clock + 1
      BY <2>2, BeginType DEF Ops, Requests
    <2> HIDE DEF r
    <2> QED
      BY <1>admin, <1>type, <2>3, <2>4, ClockStep DEF AdminSet
  <1>commit. ASSUME NEW w \in Workers,
                    ChangeCommit(w) \/ ResetCommit(w) \/ SiteResetCommit(w)
             PROVE  Inductive'
    <2>1. /\ req[w].pc = "locked" /\ Become(w, Idle)
          /\ UNCHANGED <<tokens, sessions, links>>
          /\ \/ \E basis \in {ProvedAt(req[w]), req[w].link.proof} : StoreNew(w, basis)
             \/ UNCHANGED <<row, clock, history>>
      BY <1>commit DEF ChangeCommit, ResetCommit, SiteResetCommit, LeaveUnchanged,
                       EndTransaction, Finish
    <2>2. CASE UNCHANGED <<row, clock, history>>
      BY <1>type, <1>held, <1>idle, <1>become, <2>1, <2>2, QuietStep
    <2>3. CASE \E basis \in {ProvedAt(req[w]), req[w].link.proof} : StoreNew(w, basis)
      <3>1. PICK basis \in {ProvedAt(req[w]), req[w].link.proof} : StoreNew(w, basis)
        BY <2>3
      <3>2. basis \in Nat
        <4>1. req[w].basis \in Nat /\ req[w].link.proof \in Nat
          BY <1>vars DEF Requests, Links
        <4> QED
          BY <3>1, <4>1, <1>type, EpochType DEF ProvedAt
      <3> DEFINE c == [by |-> "owner", basis |-> basis, at |-> clock + 1]
                 h == Hash(req[w].new, clock + 1)
      <3>3. h \in Hashes /\ h.salt = clock + 1 /\ clock \in Nat
        BY HashFresh, <1>type, <1>vars DEF Requests, Hash
      <3>4. c \in Changes /\ c.at = clock + 1
        BY <3>2, <3>3 DEF Changes
      <3>5. history' = Append(history, c) /\ clock' = clock + 1
        BY <3>1 DEF StoreNew, Store
      <3>6. row'.hash = h /\ row'.changedAt = clock + 1
        BY <3>1, <1>type DEF StoreNew, Store, TypeOK
      <3> HIDE DEF c, h
      <3>7. \A i \in 1..Epoch : history[i].at # c.at
        BY <3>3, <3>4 DEF Inductive, HistoryOK
      <3>8. \A k, e : HashOK(k, e) => k.salt # c.at
        BY <3>3, <3>4 DEF HashOK
      <3>9. \A v \in Pending' : req[v].changedAt # c.at
        <4> TAKE v \in Pending'
        <4>1. v \in Pending
          BY <1>become, <1>idle, <2>1 DEF Pending
        <4> QED
          BY <3>3, <3>4, <4>1 DEF Inductive, PendingOK
      <3>10. \A v \in Workers : req'[v] = req[v] \/ req'[v] = Idle
        BY <1>become, <1>idle, <2>1
      <3>11. clock' >= clock /\ c.at \in 1..clock'
        BY <3>3, <3>4, <3>5
      <3> QED
        BY <1>type, <2>1, <3>3, <3>4, <3>5, <3>6, <3>7, <3>8, <3>9, <3>10, <3>11, ChangeStep
    <2> QED
      BY <2>1, <2>2, <2>3
  <1>store. ASSUME NEW w \in Workers, AdminStore(w) PROVE Inductive'
    <2>1. req[w].pc = "store" /\ Become(w, Idle) /\ UNCHANGED <<clock, tokens, sessions, links>>
      BY <1>store DEF AdminStore, Finish
    <2>2. CASE ~ row.exists
      BY <1>store, <1>type, <1>held, <1>idle, <1>become, <2>1, <2>2, QuietStep DEF AdminStore
    <2>3. CASE row.exists
      <3> DEFINE c == [by |-> "admin", basis |-> Epoch, at |-> req[w].changedAt]
                 h == req[w].hash
      <3>1. Store(h, req[w].changedAt, "admin", Epoch)
        BY <1>store, <2>3 DEF AdminStore
      <3>2. w \in Pending /\ h \in Hashes /\ c \in Changes /\ clock \in Nat
        BY <2>1, EpochType, <1>type DEF Pending, Changes, TypeOK, Requests
      <3>3. /\ c.at \in 1..clock /\ h.salt = c.at
            /\ \A i \in 1..Epoch : history[i].at # c.at
            /\ \A v \in Pending : req[v].changedAt = c.at => v = w
        BY <3>2 DEF Inductive, PendingOK
      <3>4. /\ history' = Append(history, c) /\ row'.hash = h /\ row'.changedAt = c.at
        BY <3>1, <1>type DEF Store, TypeOK
      <3>5. \A k, e : HashOK(k, e) => k.salt # c.at
        BY <3>2 DEF HashOK
      <3> HIDE DEF c, h
      <3>6. \A v \in Pending' : req[v].changedAt # c.at
        <4> TAKE v \in Pending'
        <4>1. v \in Pending /\ v # w
          BY <1>become, <1>idle, <2>1 DEF Pending
        <4> QED
          BY <3>3, <4>1
      <3>7. \A v \in Workers : req'[v] = req[v] \/ req'[v] = Idle
        BY <1>become, <1>idle, <2>1
      <3>8. clock' >= clock /\ c.at \in 1..clock'
        BY <2>1, <3>2, <3>3
      <3> QED
        BY <1>type, <2>1, <3>2, <3>3, <3>4, <3>5, <3>6, <3>7, <3>8, ChangeStep
    <2> QED
      BY <2>2, <2>3
  <1>env. ASSUME Environment PROVE Inductive'
    <2> USE DEF TypeOK
    <2>1. UNCHANGED <<clock, history, req>> /\ tokens' \subseteq tokens
          /\ sessions' \subseteq sessions
      BY <1>env, HoldType DEF Environment, RequestReset, SetActive, DeleteUser, ExpireLink
    <2>2. row'.hash = row.hash /\ row'.changedAt = row.changedAt
      BY <1>env, <1>type DEF Environment, RequestReset, SetActive, DeleteUser, ExpireLink
    <2>3. links' \subseteq links \cup {Link(row.hash, row.lastLogin, Epoch)}
      BY <1>env, HoldType DEF Environment, RequestReset, SetActive, DeleteUser, ExpireLink
    <2>4. \A l \in links' : HashOK(l.hash, l.proof)
      BY <1>held, <1>hash, <2>3 DEF Link
    <2> QED
      BY <1>type, <1>held, <2>1, <2>2, <2>4, QuietStep
  <1>stutter. CASE UNCHANGED vars
    BY <1>stutter, <1>type, <1>held, QuietStep DEF vars
  <1> QED
    BY <1>login, <1>refresh, <1>change, <1>reset, <1>admin, <1>upgrade, <1>recheck, <1>mint,
       <1>deliver, <1>site, <1>lock, <1>commit, <1>store, <1>crash, <1>env, <1>stutter
       DEF Next, Start, Blocking, Running

THEOREM InductiveInvariant == Spec => []Inductive
  <1> QED
    BY InductiveInit, InductiveNext, PTL DEF Spec

\* No token, session or reset link is ever honoured once the password it was
\* proved against has been changed, whatever requests were under way.
THEOREM RevocationFinal == Spec => []RevokedStaysRevoked
  <1> QED
    BY InductiveInvariant, HonouredCurrent, PTL

(***************************************************************************)
(* Action properties and the refinement.  The history grows by the commit  *)
(* of an owner, or of an administrator, and by nothing else.               *)
(***************************************************************************)
LEMMA HistoryStep ==
  ASSUME Inductive, [Next]_vars
  PROVE  \/ history' = history /\ row'.hash.pw = row.hash.pw /\ row'.changedAt = row.changedAt
         \/ /\ \E c \in [by : {"owner"}, basis : {Epoch}, at : Nat] \cup [by : {"admin"}, basis : Nat, at : Nat] :
                   history' = Append(history, c)
            /\ UNCHANGED <<tokens, sessions, links>>
  <1>vars. /\ row \in [exists : BOOLEAN, active : BOOLEAN, hash : Hashes, changedAt : Nat,
                       lastLogin : Nat]
           /\ req \in [Workers -> Requests] /\ clock \in Nat
    BY DEF Inductive, TypeOK
  <1>epoch. Epoch \in Nat
    BY EpochType DEF Inductive
  <1>upgrade. ASSUME NEW w \in Workers, Upgrade(w)
              PROVE  history' = history /\ row'.hash.pw = row.hash.pw /\ row'.changedAt = row.changedAt
    <2>1. req[w].hash.pw = req[w].raw
      BY <1>upgrade DEF Upgrade, Inductive, CredentialsOK, RequestOK
    <2> QED
      BY <1>upgrade, <1>vars, <2>1 DEF Upgrade, Upgraded, Replaces, Hash
  <1>commit. ASSUME NEW w \in Workers,
                    ChangeCommit(w) \/ ResetCommit(w) \/ SiteResetCommit(w)
             PROVE  \/ UNCHANGED <<history, row>>
                    \/ /\ \E c \in [by : {"owner"}, basis : {Epoch}, at : Nat] :
                              history' = Append(history, c)
                       /\ UNCHANGED <<tokens, sessions, links>>
    <2>1. UNCHANGED <<tokens, sessions, links>>
      BY <1>commit DEF ChangeCommit, ResetCommit, SiteResetCommit
    <2>2. \/ UNCHANGED <<row, history>>
          \/ req[w].raw = row.hash.pw /\ StoreNew(w, ProvedAt(req[w]))
          \/ /\ req[w].link \in links /\ LinkValid(req[w].link, row)
             /\ StoreNew(w, req[w].link.proof)
      BY <1>commit DEF ChangeCommit, ResetCommit, SiteResetCommit, LeaveUnchanged
    <2>3. req[w].raw = row.hash.pw => ProvedAt(req[w]) = Epoch
      BY DEF ProvedAt
    <2>4. req[w].link \in links /\ LinkValid(req[w].link, row) => req[w].link.proof = Epoch
      BY DEF LinkValid, Inductive, CredentialsOK, HashOK
    <2>5. CASE StoreNew(w, Epoch)
      <3> DEFINE c == [by |-> "owner", basis |-> Epoch, at |-> clock + 1]
      <3>1. c \in [by : {"owner"}, basis : {Epoch}, at : Nat]
        BY <1>vars
      <3>2. history' = Append(history, c)
        BY <2>5 DEF StoreNew, Store
      <3> QED
        BY <2>1, <3>1, <3>2
    <2> QED
      BY <2>2, <2>3, <2>4, <2>5
  <1>store. ASSUME NEW w \in Workers, AdminStore(w)
            PROVE  \/ UNCHANGED <<history, row>>
                   \/ /\ \E c \in [by : {"admin"}, basis : Nat, at : Nat] :
                             history' = Append(history, c)
                      /\ UNCHANGED <<tokens, sessions, links>>
    <2> DEFINE c == [by |-> "admin", basis |-> Epoch, at |-> req[w].changedAt]
    <2>1. c \in [by : {"admin"}, basis : Nat, at : Nat]
      BY <1>vars, <1>epoch DEF Requests
    <2>2. \/ UNCHANGED <<history, row>>
          \/ history' = Append(history, c)
      BY <1>store DEF AdminStore, Store
    <2>3. UNCHANGED <<tokens, sessions, links>>
      BY <1>store DEF AdminStore
    <2> QED
      BY <2>1, <2>2, <2>3
  <1>login. ASSUME NEW w \in Workers, LoginDeliver(w) \/ SiteLogin(w)
            PROVE  history' = history /\ row'.hash = row.hash /\ row'.changedAt = row.changedAt
    BY <1>login, <1>vars DEF LoginDeliver, SiteLogin
  <1>env. ASSUME Environment
          PROVE  history' = history /\ row'.hash = row.hash /\ row'.changedAt = row.changedAt
    BY <1>env, <1>vars DEF Environment, RequestReset, SetActive, DeleteUser, ExpireLink
  <1>other. ASSUME NEW w \in Workers,
                   \/ Start(w) \/ Recheck(w) \/ LoginMint(w) \/ RefreshIssue(w)
                   \/ LockUser(w) \/ Crash(w)
            PROVE  UNCHANGED <<history, row>>
    BY <1>other DEF Start, LoginLoad, RefreshCheck, ChangeLoad, ResetLoad, SiteResetLoad,
                    AdminSet, Recheck, LoginMint, RefreshIssue, LockUser, Crash
  <1> QED
    BY <1>upgrade, <1>commit, <1>store, <1>login, <1>env, <1>other
       DEF Next, Blocking, Running, vars

\* A hash upgrade, racing with anything, leaves the password what the last
\* recorded change made it.
THEOREM UpgradeHarmless == Spec => UpgradeKeepsPassword
  <1>1. Inductive /\ [Next]_vars => [history' = history => row'.hash.pw = row.hash.pw]_vars
    <2> SUFFICES ASSUME Inductive, [Next]_vars, history' = history
                 PROVE  row'.hash.pw = row.hash.pw
      OBVIOUS
    <2>1. \A c : Append(history, c) # history
      BY DEF Inductive, TypeOK
    <2> QED
      BY <2>1, HistoryStep
  <1> QED
    BY <1>1, InductiveInvariant, PTL DEF UpgradeKeepsPassword, Spec

\* Without a change of the password, a deactivation or a deletion, every token that
\* was accepted still is: logins and upgrades elsewhere end nobody's tokens.
THEOREM TokensOutlive == Spec => TokensOutliveUpgrades
  <1>1. Inductive /\ [Next]_vars =>
          [history' = history /\ row'.exists /\ row'.active
             => \A t \in tokens : TokenAccepted(t, row) => TokenAccepted(t, row')]_vars
    <2> SUFFICES ASSUME Inductive, [Next]_vars, history' = history, row'.exists, row'.active
                 PROVE  \A t \in tokens : TokenAccepted(t, row) => TokenAccepted(t, row')
      OBVIOUS
    <2>1. \A c : Append(history, c) # history
      BY DEF Inductive, TypeOK
    <2>2. row'.changedAt = row.changedAt
      BY <2>1, HistoryStep
    <2> QED
      BY <2>2 DEF TokenAccepted
  <1> QED
    BY <1>1, InductiveInvariant, PTL DEF TokensOutliveUpgrades, Spec

LEMMA ImplementsInit == Init => Account!Init
  <1> SUFFICES ASSUME Init PROVE Account!Init
    OBVIOUS
  <1>1. tokens \in {{}, {Legacy}} /\ sessions = {} /\ links = {} /\ history = << >>
    BY DEF Init
  <1>2. \A t \in tokens : t.proof = 0
    BY <1>1 DEF Legacy, Token
  <1>3. Honoured \subseteq {t.proof : t \in tokens}
    BY <1>1 DEF Honoured
  <1>4. {t.proof : t \in tokens} \subseteq {0}
    BY <1>2
  <1> QED
    BY <1>1, <1>3, <1>4 DEF Account!Init

\* Whatever is honoured attests an epoch up to the present one.
LEMMA HonouredPast ==
  ASSUME Inductive
  PROVE  /\ \A t \in tokens : t.proof \in 0..Epoch
         /\ \A s \in sessions : s.proof \in 0..Epoch
         /\ \A l \in links : l.proof \in 0..Epoch
  <1>1. Epoch \in Nat
    BY EpochType DEF Inductive
  <1>2. \A t : TokenOK(t) => t.proof \in 0..Epoch
    BY <1>1 DEF TokenOK, StampOK, Legacy, Token
  <1> QED
    BY <1>2 DEF Inductive, CredentialsOK, HashOK

LEMMA ImplementsNext ==
  ASSUME Inductive, Inductive', [Next]_vars
  PROVE  [Account!Next]_<<history, Honoured>>
  <1>1. Inductive' => RevokedStaysRevoked'
    BY HonouredCurrent, PTL
  <1>2. Honoured' \subseteq {Epoch'}
    BY <1>1 DEF RevokedStaysRevoked
  <1>3. CASE history' = history
    <2>1. Epoch' = Epoch
      BY <1>3 DEF Epoch
    <2> QED
      BY <1>2, <1>3, <2>1 DEF Account!Next, Account!Serve, Account!Epoch, Epoch
  <1>4. ASSUME NEW c \in [by : {"owner"}, basis : {Epoch}, at : Nat]
                       \cup [by : {"admin"}, basis : Nat, at : Nat],
               history' = Append(history, c), UNCHANGED <<tokens, sessions, links>>
        PROVE  Account!Next
    <2>1. history \in Seq(Changes)
      BY DEF Inductive, TypeOK
    <2>2. /\ Len(history') = Epoch + 1 /\ history'[Epoch + 1] = c
          /\ Epoch \in Nat /\ Epoch' = Epoch + 1
      BY <1>4, <2>1 DEF Epoch
    <2>3. \A e \in 0..Epoch : e # Epoch'
      BY <2>2
    <2>4. Honoured' \subseteq {t.proof : t \in tokens} \cup {s.proof : s \in sessions}
                             \cup {l.proof : l \in links}
      BY <1>4 DEF Honoured
    <2>5. Honoured' = {}
      BY <1>2, <2>3, <2>4, HonouredPast
    <2>6. Account!Change
      BY <1>4, <2>2, <2>5 DEF Account!Change, Account!Epoch, Epoch
    <2>7. CASE c \in [by : {"owner"}, basis : {Epoch}, at : Nat]
      <3>1. c.by = "owner" /\ c.basis = Epoch
        BY <2>7
      <3> QED
        BY <2>2, <2>6, <3>1 DEF Account!Next, Account!OwnerChange, Account!Epoch, Epoch
    <2>8. CASE c \in [by : {"admin"}, basis : Nat, at : Nat]
      <3>1. c.by = "admin"
        BY <2>8
      <3> QED
        BY <2>2, <2>6, <3>1 DEF Account!Next, Account!AdminChange, Account!Epoch, Epoch
    <2> QED
      BY <1>4, <2>7, <2>8
  <1> QED
    BY <1>3, <1>4, HistoryStep

\* The whole of the credentials code is, seen from outside, one account whose
\* owner changes the password by compare-and-set and revokes all else at once.
THEOREM Refinement == Spec => ImplementsAccountAccess
  <1> QED
    BY ImplementsInit, ImplementsNext, InductiveInvariant, PTL
       DEF Spec, Account!Spec, ImplementsAccountAccess
=============================================================================
