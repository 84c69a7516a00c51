----------------------------- MODULE UpkeepProofs -----------------------------
(***************************************************************************)
(* Proofs about the four parts that MCUpkeep runs one at a time:           *)
(*   Accounts, for any number of accounts, addresses and writers: no two   *)
(*     accounts come to share an address, and a late save changes nothing  *)
(*     it was not asked to change;                                         *)
(*   MediaCleanup, for any rows, files and requests: no image in use is    *)
(*     removed, and an undisturbed run is exact;                           *)
(*   Catalogue, for any advertisements and size of the pages: who turns    *)
(*     the pages of a list misses nothing that stays on it;                *)
(*   DemoData, for any number of visits: marks name what they should,      *)
(*     flush spares what visitors wrote and leaves nothing it could take.  *)
(***************************************************************************)
EXTENDS MCUpkeep, FiniteSetTheorems, TLAPS

(***************************************************************************)
(* Accounts.  AccountsInductive gives both: an address that has passed its *)
(* check is normalised, and whoever shares it afterwards must spell it     *)
(* letter by letter alike, which is what the unique column refuses.        *)
(***************************************************************************)
LEMMA NoWriteType == NoWrite \in Request
  BY DEF NoWrite, Request, Unborn, Row, Rights, Fields

LEMMA NoWriteIdle == NoWrite.pc = "idle" /\ NoWrite.op = "none" /\ NoWrite.fields = {}
  BY DEF NoWrite

\* The initial rows and requests satisfy the invariant.
LEMMA AccountsInitInductive == AccountsInit => AccountsInductive
<1> SUFFICES ASSUME AccountsInit PROVE AccountsInductive
  OBVIOUS
<1> USE AccountsAssumption
<1>1. ASSUME NEW i \in AccountIds
      PROVE  account[i] \in Row /\ (account[i].life = "live" => account[i].email \in Addresses)
  <2>1. CASE account[i] = Unborn
    BY <2>1 DEF Unborn, Row, Rights
  <2>2. ASSUME NEW e \in Addresses, account[i] = [Unborn EXCEPT !.life = "live", !.email = e]
        PROVE  account[i] \in Row /\ account[i].email \in Addresses
    BY <2>2 DEF Unborn, Row, Rights
  <2>3. account[i] \in {Unborn} \cup {[Unborn EXCEPT !.life = "live", !.email = e] : e \in Addresses}
    BY DEF AccountsInit
  <2> QED BY <2>1, <2>2, <2>3, Zenon DEF Unborn
<1>2. AccountsTypeOK
  <2>1. account \in [AccountIds -> Row]
    BY <1>1 DEF AccountsInit
  <2>2. write \in [Writers -> Request]
    BY NoWriteType DEF AccountsInit
  <2>3. requests \in 0..MaxRequests
    <3>1. requests = 0
      BY DEF AccountsInit
    <3>2. MaxRequests \in Nat
      BY DEF AccountsAssumption
    <3> QED BY <3>1, <3>2
  <2>4. \A i, j \in Living : account[i].email = account[j].email => i = j
    BY DEF AccountsInit
  <2> QED BY <2>1, <2>2, <2>3, <2>4 DEF AccountsTypeOK
<1>3. LivingOK
  BY <1>1 DEF LivingOK, Living
<1>4. RequestsOK
  <2> SUFFICES ASSUME NEW w \in Writers PROVE RequestOK(w)
    BY DEF RequestsOK
  <2>1. write[w] = NoWrite
    BY DEF AccountsInit
  <2> QED BY <2>1, NoWriteIdle DEF RequestOK
<1> QED BY <1>2, <1>3, <1>4 DEF AccountsInductive

(***************************************************************************)
(* Steps that leave the rows alone: one request becomes q.                 *)
(***************************************************************************)
Fits(w, q) ==
    /\ q \in Request
    /\ q.pc = "idle" => q = NoWrite
    /\ q.pc # "idle" => q.id \in AccountIds
    /\ q.op = "create" => /\ account[q.id].life = "unborn"
                          /\ q.instance.life = "live" /\ q.fields = Fields
                          /\ \A v \in Writers \ {w} : write[v].op = "create" => write[v].id # q.id
    /\ "email" \in q.fields => q.instance.email \in Addresses
    /\ "email" \in q.fields /\ q.pc = "write" =>
           /\ Normal[q.instance.email] = q.instance.email
           /\ \A j \in Owners(q.instance.email) \ {q.id} : account[j].email = q.instance.email

LEMMA NoWriteFits == \A w \in Writers : Fits(w, NoWrite)
  BY NoWriteType, NoWriteIdle DEF Fits

LEMMA RewriteStep ==
  ASSUME AccountsInductive, NEW w \in Writers, NEW q, Fits(w, q),
         write' = [write EXCEPT ![w] = q], account' = account, requests' \in 0..MaxRequests
  PROVE  AccountsInductive'
<1>1. AccountsTypeOK'
  <2>1. write' \in [Writers -> Request]
    BY DEF AccountsInductive, AccountsTypeOK, Fits
  <2>2. Living' = Living
    BY DEF Living
  <2> QED BY <2>1, <2>2 DEF AccountsInductive, AccountsTypeOK
<1>2. LivingOK'
  BY DEF AccountsInductive, LivingOK, Living
<1>3. \A e : Owners(e)' = Owners(e)
  BY DEF Owners, Living
<1>4. ASSUME NEW v \in Writers PROVE RequestOK(v)'
  <2>1. write'[w] = q /\ (v # w => write'[v] = write[v])
    BY DEF AccountsInductive, AccountsTypeOK
  <2>2. CASE v = w
    <3>1. \A u \in Writers \ {w} : write'[u] = write[u]
      BY DEF AccountsInductive, AccountsTypeOK
    <3> QED BY <2>1, <2>2, <3>1, <1>3 DEF Fits, RequestOK
  <2>3. CASE v # w
    <3>1. RequestOK(v)
      BY DEF AccountsInductive, RequestsOK
    <3>2. ASSUME write[v].op = "create", NEW u \in Writers \ {v}, write'[u].op = "create"
          PROVE  write'[u].id # write[v].id
      <4>1. CASE u = w
        BY <2>1, <3>2, <4>1, <2>3 DEF Fits
      <4>2. CASE u # w
        <5>1. write'[u] = write[u]
          BY <4>2 DEF AccountsInductive, AccountsTypeOK
        <5> QED BY <5>1, <3>1, <3>2 DEF RequestOK
      <4> QED BY <4>1, <4>2
    <3> QED BY <2>1, <2>3, <3>1, <3>2, <1>3 DEF RequestOK
  <2> QED BY <2>2, <2>3
<1> QED BY <1>1, <1>2, <1>4 DEF AccountsInductive, RequestsOK

LEMMA DoneStep ==
  ASSUME AccountsInductive, NEW w \in Writers, Done(w)
  PROVE  AccountsInductive'
<1>1. requests' \in 0..MaxRequests
  BY DEF Done, AccountsInductive, AccountsTypeOK
<1> QED BY <1>1, NoWriteFits, RewriteStep DEF Done

(***************************************************************************)
(* Reading.                                                                *)
(***************************************************************************)
LEMMA LoadedStep ==
  ASSUME AccountsInductive, NEW w \in Writers, Idles(w),
         NEW op \in {"profile", "admin", "password", "create"}, NEW next \in {"check", "write"},
         NEW id \in AccountIds, NEW instance \in Row, NEW fields \in SUBSET Fields,
         "email" \in fields => next = "check" /\ instance.email \in Addresses,
         op = "create" => /\ account[id].life = "unborn" /\ instance.life = "live" /\ fields = Fields
                          /\ \A v \in Writers : write[v].op = "create" => write[v].id # id,
         Loaded(w, op, next, id, instance, fields)
  PROVE  AccountsInductive'
<1> DEFINE q == [pc |-> next, op |-> op, id |-> id, instance |-> instance, fields |-> fields]
<1>1. /\ q \in Request /\ q.pc = next /\ q.op = op /\ q.id = id
      /\ q.instance = instance /\ q.fields = fields
  BY DEF Request
<1>2. write' = [write EXCEPT ![w] = q] /\ account' = account
  BY DEF Loaded
<1>3. requests' \in 0..MaxRequests
  <2>1. requests \in 0..MaxRequests /\ requests < MaxRequests /\ requests' = requests + 1
    BY DEF Loaded, Idles, AccountsInductive, AccountsTypeOK
  <2> QED BY <2>1, AccountsAssumption DEF AccountsAssumption
<1> HIDE DEF q
<1>4. Fits(w, q)
  BY <1>1 DEF Fits
<1> QED BY <1>2, <1>3, <1>4, RewriteStep

LEMMA RowType == AccountsInductive => \A i \in Living : account[i] \in Row /\ account[i].email \in Addresses
  BY DEF AccountsInductive, AccountsTypeOK, LivingOK, Living

LEMMA ProfileStep == ASSUME AccountsInductive, NEW w \in Writers, ProfileLoad(w) PROVE AccountsInductive'
<1>1. PICK i \in Living, name \in {0, 1} : Loaded(w, "profile", "write", i, [account[i] EXCEPT !.name = name], {"name"})
  BY DEF ProfileLoad
<1>2. [account[i] EXCEPT !.name = name] \in Row /\ i \in AccountIds
  BY RowType DEF Row, Living
<1>3. {"name"} \in SUBSET Fields /\ "email" \notin {"name"}
  BY DEF Fields
<1>4. Idles(w)
  BY DEF ProfileLoad
<1> QED BY <1>1, <1>2, <1>3, <1>4, LoadedStep

LEMMA PasswordStep == ASSUME AccountsInductive, NEW w \in Writers, PasswordLoad(w) PROVE AccountsInductive'
<1>1. PICK i \in Living : Loaded(w, "password", "write", i, [account[i] EXCEPT !.password = 1], {"password"})
  BY DEF PasswordLoad
<1>2. [account[i] EXCEPT !.password = 1] \in Row /\ i \in AccountIds
  BY RowType DEF Row, Living
<1>3. {"password"} \in SUBSET Fields /\ "email" \notin {"password"}
  BY DEF Fields
<1>4. Idles(w)
  BY DEF PasswordLoad
<1> QED BY <1>1, <1>2, <1>3, <1>4, LoadedStep

LEMMA AdminStep == ASSUME AccountsInductive, NEW w \in Writers, AdminLoad(w) PROVE AccountsInductive'
<1>1. PICK i \in Living, e \in Addresses, name \in {0, 1}, rights \in Rights :
        Loaded(w, "admin", "check", i, [account[i] EXCEPT !.email = e, !.name = name, !.rights = rights],
               {f \in Fields : [account[i] EXCEPT !.email = e, !.name = name, !.rights = rights][f] # account[i][f]})
  BY DEF AdminLoad
<1> DEFINE form == [account[i] EXCEPT !.email = e, !.name = name, !.rights = rights]
           changed == {f \in Fields : form[f] # account[i][f]}
<1>2. form \in Row /\ form.email \in Addresses /\ i \in AccountIds
  BY RowType DEF Row, Living
<1>3. changed \in SUBSET Fields
  OBVIOUS
<1>4. Loaded(w, "admin", "check", i, form, changed)
  BY <1>1
<1>5. Idles(w)
  BY DEF AdminLoad
<1> HIDE DEF form, changed
<1> QED BY <1>2, <1>3, <1>4, <1>5, LoadedStep

LEMMA CreateStep == ASSUME AccountsInductive, NEW w \in Writers, CreateLoad(w) PROVE AccountsInductive'
<1>1. PICK i \in AccountIds, e \in Addresses :
        /\ account[i].life = "unborn" /\ \A v \in Writers : write[v].op = "create" => write[v].id # i
        /\ Loaded(w, "create", "check", i, [Unborn EXCEPT !.life = "live", !.email = e], Fields)
  BY DEF CreateLoad
<1> DEFINE row == [Unborn EXCEPT !.life = "live", !.email = e]
<1>2. row \in Row /\ row.email \in Addresses /\ row.life = "live"
  BY DEF Row, Unborn, Rights
<1>3. Idles(w)
  BY DEF CreateLoad
<1>4. Loaded(w, "create", "check", i, row, Fields)
  BY <1>1
<1> HIDE DEF row
<1> QED BY <1>1, <1>2, <1>3, <1>4, LoadedStep

(***************************************************************************)
(* The check: nobody else has the address in any spelling, so nobody has   *)
(* the normalised one in another spelling.                                 *)
(***************************************************************************)
Judged(k) ==
    /\ Comes(k)
    /\ run' = CASE run.entries[k] \notin View -> [run EXCEPT !.marks[k] = NoRecord, !.todo = @ \ {k}]
                [] run.entries[k] \in View /\ (Dependent(run.entries[k]) \/ OwnsMarks(k)) ->
                       [run EXCEPT !.todo = @ \ {k}]
                [] OTHER -> [run EXCEPT !.pc = "delete"]

LEMMA CheckStep == ASSUME AccountsInductive, NEW w \in Writers, CheckAddress(w) PROVE AccountsInductive'
<1> DEFINE r == write[w]
           e == r.instance.email
           q == [r EXCEPT !.pc = "write", !.instance.email = IF "email" \in r.fields THEN Normalized(@) ELSE @]
<1>1. CASE Owners(e) \ {r.id} # {}
  BY <1>1, DoneStep DEF CheckAddress
<1>2. CASE Owners(e) \ {r.id} = {}
  <2>1. /\ write' = [write EXCEPT ![w].pc = "write", ![w].instance.email =
                                     IF "email" \in r.fields THEN Normalized(@) ELSE @]
        /\ UNCHANGED <<account, requests>> /\ r.pc = "check"
    BY <1>2 DEF CheckAddress
  <2>2. r \in Request /\ RequestOK(w) /\ r.id \in AccountIds
    BY <2>1 DEF AccountsInductive, AccountsTypeOK, RequestsOK, RequestOK
  <2>3. /\ q.pc = "write" /\ q.op = r.op /\ q.id = r.id /\ q.fields = r.fields
        /\ q.instance.life = r.instance.life
        /\ q.instance.email = IF "email" \in r.fields THEN Normal[e] ELSE e
    BY <2>2 DEF Request, Row, Normalized
  <2>4. "email" \in r.fields => e \in Addresses /\ Normal[e] \in Addresses /\ Normal[Normal[e]] = Normal[e]
    BY <2>2, AccountsAssumption DEF RequestOK, AccountsAssumption
  <2>5. q \in Request
    <3>1. q.instance.email \in Addresses \cup {NoAddress}
      BY <2>2, <2>3, <2>4 DEF Request, Row
    <3> QED BY <2>2, <2>3, <3>1 DEF Request, Row
  <2>6. write' = [write EXCEPT ![w] = q]
    BY <2>1, <2>2 DEF AccountsInductive, AccountsTypeOK, Request, Row
  <2>7. "email" \in r.fields => Owners(Normal[e]) = Owners(e)
    BY <2>4 DEF Owners
  <2>8. Fits(w, q)
    <3> HIDE DEF q
    <3> QED BY <1>2, <2>2, <2>3, <2>4, <2>5, <2>7 DEF Fits, RequestOK
  <2>9. requests' \in 0..MaxRequests
    BY <2>1 DEF AccountsInductive, AccountsTypeOK
  <2> HIDE DEF q
  <2> QED BY <2>1, <2>6, <2>8, <2>9, RewriteStep
<1> QED BY <1>1, <1>2

(***************************************************************************)
(* The save.  n is the row it leaves: its address is either the one it had *)
(* or the one that was checked, which no other row spells alike.           *)
(***************************************************************************)
Leaves(w, n) ==
    /\ write[w].pc = "write" /\ n \in Row /\ n.life = "live" /\ n.email \in Addresses
    /\ write[w].op = "create" \/ write[w].id \in Living
    /\ account' = [account EXCEPT ![write[w].id] = n]
    /\ write' = [write EXCEPT ![w] = NoWrite]
    /\ UNCHANGED requests
    /\ \/ "email" \notin write[w].fields /\ write[w].id \in Living /\ n.email = account[write[w].id].email
       \/ /\ "email" \in write[w].fields /\ n.email = write[w].instance.email
          /\ \A j \in Living \ {write[w].id} : account[j].email # n.email

\* Whoever shares an address with the row a save leaves has shared it before.
LEMMA NobodyJoins ==
  ASSUME AccountsInductive, NEW w \in Writers, NEW n, Leaves(w, n), NEW e \in Addresses,
         Normal[n.email] = Normal[e], NEW j \in Owners(e) \ {write[w].id}
  PROVE  /\ "email" \notin write[w].fields
         /\ write[w].id \in Owners(e)
<1>1. j \in Living /\ Normal[account[j].email] = Normal[e]
  BY DEF Owners
<1>2. "email" \notin write[w].fields
  <2> SUFFICES ASSUME "email" \in write[w].fields PROVE FALSE
    OBVIOUS
  <2>1. n.email = write[w].instance.email /\ account[j].email # n.email
    BY <1>1 DEF Leaves
  <2>2. \A k \in Owners(n.email) \ {write[w].id} : account[k].email = n.email
    BY <2>1 DEF Leaves, AccountsInductive, RequestsOK, RequestOK
  <2>3. j \in Owners(n.email)
    BY <1>1 DEF Owners
  <2> QED BY <2>1, <2>2, <2>3
<1>3. write[w].id \in Living /\ account[write[w].id].email = n.email
  BY <1>2 DEF Leaves
<1> QED BY <1>2, <1>3 DEF Owners

LEMMA LeavesStep == ASSUME AccountsInductive, NEW w \in Writers, NEW n, Leaves(w, n) PROVE AccountsInductive'
<1> DEFINE r == write[w]
<1>1. r.id \in AccountIds /\ RequestOK(w) /\ NoWrite.pc = "idle"
  BY NoWriteIdle DEF Leaves, AccountsInductive, RequestsOK, RequestOK
<1>2. /\ account'[r.id] = n
      /\ \A j \in AccountIds \ {r.id} : account'[j] = account[j]
      /\ account' \in [AccountIds -> Row]
  BY <1>1 DEF Leaves, AccountsInductive, AccountsTypeOK
<1>3. Living' = Living \cup {r.id}
  BY <1>1, <1>2 DEF Living, Leaves
<1>4. /\ write'[w] = NoWrite
      /\ \A v \in Writers \ {w} : write'[v] = write[v]
      /\ write' \in [Writers -> Request]
  BY NoWriteType DEF Leaves, AccountsInductive, AccountsTypeOK
<1>5. ASSUME NEW i \in Living', NEW j \in Living', account'[i].email = account'[j].email PROVE i = j
  <2>1. ASSUME NEW k \in Living \ {r.id}, account[k].email = n.email PROVE FALSE
    <3>1. \A a, b \in Living : account[a].email = account[b].email => a = b
      BY DEF AccountsInductive, AccountsTypeOK
    <3> QED BY <2>1, <3>1 DEF Leaves
  <2>2. \A a, b \in Living : account[a].email = account[b].email => a = b
    BY DEF AccountsInductive, AccountsTypeOK
  <2>3. Living \subseteq AccountIds
    BY DEF Living
  <2> QED BY <1>2, <1>3, <1>5, <2>1, <2>2, <2>3
<1>6. AccountsTypeOK'
  BY <1>2, <1>4, <1>5 DEF AccountsTypeOK, AccountsInductive, Leaves
<1>7. LivingOK'
  <2>1. \A i \in Living : account[i].email \in Addresses /\ i \in AccountIds
    BY DEF AccountsInductive, LivingOK, Living
  <2> QED BY <1>2, <1>3, <2>1 DEF LivingOK, Leaves
<1>8. ASSUME NEW v \in Writers PROVE RequestOK(v)'
  <2>1. CASE v = w
    BY <1>4, <2>1, NoWriteIdle DEF RequestOK
  <2>2. CASE v # w
    <3>1. write'[v] = write[v] /\ RequestOK(v)
      BY <1>4, <2>2 DEF AccountsInductive, RequestsOK
    <3>2. ASSUME write[v].op = "create" PROVE account'[write[v].id].life = "unborn"
      <4>1. account[write[v].id].life = "unborn" /\ write[v].id \in AccountIds
        BY <3>1, <3>2, NoWriteIdle DEF RequestOK
      <4>2. write[v].id # r.id
        BY <1>1, <2>2, <3>2, <4>1 DEF RequestOK, Leaves, Living
      <4> QED BY <1>2, <4>1, <4>2
    <3>3. ASSUME NEW u \in Writers \ {v}, write'[u].op = "create", write[v].op = "create"
          PROVE  write'[u].id # write[v].id
      BY <1>4, <3>1, <3>3, NoWriteIdle DEF RequestOK
    <3>4. ASSUME "email" \in write[v].fields, write[v].pc = "write",
                 NEW j \in Owners(write[v].instance.email)' \ {write[v].id}
          PROVE  account'[j].email = write[v].instance.email
      <4> DEFINE e == write[v].instance.email
      <4>1. /\ Normal[e] = e /\ e \in Addresses
            /\ \A k \in Owners(e) \ {write[v].id} : account[k].email = e
        BY <3>1, <3>4 DEF RequestOK
      <4>2. j \in Living' /\ Normal[account'[j].email] = Normal[e]
        BY <3>1, <3>4 DEF Owners
      <4>3. CASE j # r.id
        <5>1. j \in Living /\ account'[j] = account[j]
          BY <1>2, <1>3, <4>2, <4>3 DEF Living
        <5> QED BY <3>4, <4>1, <4>2, <5>1 DEF Owners
      <4>4. CASE j = r.id /\ "email" \in r.fields
        <5>1. account'[j].email = r.instance.email /\ Normal[r.instance.email] = r.instance.email
          BY <1>1, <1>2, <4>4 DEF RequestOK, Leaves
        <5> QED BY <4>1, <4>2, <5>1
      <4>5. CASE j = r.id /\ "email" \notin r.fields
        <5>1. j \in Living /\ account'[j].email = account[j].email
          BY <1>2, <4>5 DEF Leaves
        <5> QED BY <3>4, <4>1, <4>2, <5>1 DEF Owners
      <4> QED BY <4>3, <4>4, <4>5
    <3> QED BY <3>1, <3>2, <3>3, <3>4 DEF RequestOK
  <2> QED BY <2>1, <2>2
<1> QED BY <1>6, <1>7, <1>8 DEF AccountsInductive, RequestsOK

LEMMA WrittenRow ==
  ASSUME NEW r \in Request, NEW row \in Row
  PROVE  /\ Written(r, row) \in Row /\ Written(r, row).life = row.life
         /\ Written(r, row).email = IF "email" \in r.fields THEN r.instance.email ELSE row.email
         /\ \A f \in Fields \ r.fields : Written(r, row)[f] = row[f]
  BY DEF Written, Request, Row, Fields

\* A save either leaves a row, the one sent or the merged one, or gives up.
LEMMA SaveLeaves ==
  ASSUME AccountsInductive, NEW w \in Writers, Save(w)
  PROVE  \/ Done(w)
         \/ Leaves(w, IF write[w].op = "create" THEN write[w].instance
                      ELSE Written(write[w], account[write[w].id]))
<1> DEFINE r == write[w]
           n == IF r.op = "create" THEN r.instance ELSE Written(r, account[r.id])
<1> SUFFICES ASSUME ~ Done(w) PROVE Leaves(w, n)
  OBVIOUS
<1>1. /\ r.pc = "write" /\ ~ Taken(r)
      /\ r.op = "create" \/ r.id \in Living
      /\ account' = [account EXCEPT ![r.id] = n]
      /\ write' = [write EXCEPT ![w] = NoWrite]
      /\ UNCHANGED requests
  BY DEF Save
<1>2. RequestOK(w) /\ r \in Request /\ r.id \in AccountIds /\ account[r.id] \in Row
  BY <1>1 DEF AccountsInductive, AccountsTypeOK, RequestsOK, RequestOK
<1>3. "email" \in r.fields => \A j \in Living \ {r.id} : account[j].email # r.instance.email
  BY <1>1 DEF Taken
<1>4. CASE r.op = "create"
  <2>1. n = r.instance /\ "email" \in r.fields /\ n.life = "live" /\ n.email \in Addresses /\ n \in Row
    BY <1>2, <1>4 DEF RequestOK, Request, Fields
  <2> QED BY <1>1, <1>3, <2>1 DEF Leaves
<1>5. CASE r.op # "create"
  <2>1. n = Written(r, account[r.id]) /\ r.id \in Living
    BY <1>1, <1>5
  <2>2. n \in Row /\ n.life = "live"
    BY <1>2, <2>1, WrittenRow DEF Living
  <2>3. n.email = IF "email" \in r.fields THEN r.instance.email ELSE account[r.id].email
    BY <1>2, <2>1, WrittenRow
  <2>4. n.email \in Addresses
    BY <1>2, <2>1, <2>3, RowType DEF RequestOK
  <2> HIDE DEF n
  <2> QED BY <1>1, <1>3, <2>1, <2>2, <2>3, <2>4 DEF Leaves
<1> QED BY <1>4, <1>5

LEMMA SaveStep == ASSUME AccountsInductive, NEW w \in Writers, Save(w) PROVE AccountsInductive'
  BY SaveLeaves, LeavesStep, DoneStep

LEMMA DeleteFacts ==
  ASSUME AccountsInductive, DeleteAccount
  PROVE  \E i \in Living : /\ account' \in [AccountIds -> Row] /\ account'[i].life = "gone"
                           /\ \A j \in AccountIds \ {i} : account'[j] = account[j]
                           /\ Living' = Living \ {i}
<1>1. PICK i \in Living : account' = [account EXCEPT ![i] = [Unborn EXCEPT !.life = "gone"]]
  BY DEF DeleteAccount
<1> DEFINE row == [Unborn EXCEPT !.life = "gone"]
<1>2. row \in Row /\ row.life = "gone"
  BY DEF Row, Unborn, Rights
<1>3. i \in AccountIds
  BY DEF Living
<1>4. account' = [account EXCEPT ![i] = row]
  BY <1>1
<1> HIDE DEF row
<1>5. /\ account' \in [AccountIds -> Row] /\ account'[i].life = "gone"
      /\ \A j \in AccountIds \ {i} : account'[j] = account[j]
  BY <1>2, <1>3, <1>4 DEF AccountsInductive, AccountsTypeOK
<1>6. Living' = Living \ {i}
  BY <1>3, <1>5 DEF Living
<1> QED BY <1>1, <1>5, <1>6

LEMMA DeleteStep == ASSUME AccountsInductive, DeleteAccount PROVE AccountsInductive'
<1>1. PICK i \in Living : /\ account' \in [AccountIds -> Row] /\ account'[i].life = "gone"
                          /\ \A j \in AccountIds \ {i} : account'[j] = account[j]
                          /\ Living' = Living \ {i}
  BY DeleteFacts
<1>2. UNCHANGED <<write, requests>> /\ Living \subseteq AccountIds /\ account[i].life = "live"
  BY DEF DeleteAccount, Living
<1>3. AccountsTypeOK'
  BY <1>1, <1>2 DEF AccountsTypeOK, AccountsInductive
<1>4. LivingOK'
  BY <1>1, <1>2 DEF AccountsInductive, LivingOK
<1>5. ASSUME NEW w \in Writers PROVE RequestOK(w)'
  <2>1. RequestOK(w) /\ write' = write
    BY <1>2 DEF AccountsInductive, RequestsOK
  <2>2. ASSUME NEW e PROVE Owners(e)' \subseteq Owners(e) /\ \A j \in Owners(e)' : account'[j] = account[j]
    BY <1>1, <1>2 DEF Owners
  <2>3. write[w].op = "create" => account'[write[w].id].life = "unborn"
    <3> SUFFICES ASSUME write[w].op = "create" PROVE account'[write[w].id].life = "unborn"
      OBVIOUS
    <3>1. account[write[w].id].life = "unborn" /\ write[w].id \in AccountIds
      BY <2>1, NoWriteIdle DEF RequestOK
    <3> QED BY <1>1, <1>2, <3>1
  <2> QED BY <2>1, <2>2, <2>3 DEF RequestOK
<1> QED BY <1>3, <1>4, <1>5 DEF AccountsInductive, RequestsOK

(***************************************************************************)
(* The theorems.                                                           *)
(***************************************************************************)
LEMMA AccountsStepInductive == AccountsInductive /\ [AccountsNext]_accountsVars => AccountsInductive'
<1> SUFFICES ASSUME AccountsInductive, [AccountsNext]_accountsVars PROVE AccountsInductive'
  OBVIOUS
<1>1. CASE UNCHANGED accountsVars
  BY <1>1 DEF accountsVars, AccountsInductive, AccountsTypeOK, LivingOK, RequestsOK, RequestOK, Living, Owners
<1>2. ASSUME NEW w \in Writers,
             ProfileLoad(w) \/ AdminLoad(w) \/ PasswordLoad(w) \/ CreateLoad(w) \/ CheckAddress(w) \/ Save(w)
      PROVE  AccountsInductive'
  BY <1>2, ProfileStep, AdminStep, PasswordStep, CreateStep, CheckStep, SaveStep
<1>3. CASE DeleteAccount
  BY <1>3, DeleteStep
<1> QED BY <1>1, <1>2, <1>3 DEF AccountsNext

LEMMA AccountsAlwaysInductive == AccountsSpec => []AccountsInductive
<1>1. AccountsInit => AccountsInductive
  BY AccountsInitInductive
<1>2. AccountsInductive /\ [AccountsNext]_accountsVars => AccountsInductive'
  BY AccountsStepInductive
<1> QED BY <1>1, <1>2, PTL DEF AccountsSpec

\* The rows keep their types and no two have the same address, whatever the writers do.
THEOREM AccountsTyped == AccountsSpec => []AccountsTypeOK
<1>1. AccountsInductive => AccountsTypeOK
  BY DEF AccountsInductive
<1> QED BY <1>1, AccountsAlwaysInductive, PTL

\* The steps that change a row.
LEMMA RowsChange ==
  ASSUME AccountsInductive, [AccountsNext]_accountsVars, account' # account
  PROVE  \/ DeleteAccount
         \/ \E w \in Writers : Save(w) /\ ~ Done(w)
<1>1. ~ UNCHANGED accountsVars
  BY DEF accountsVars
<1>2. ASSUME NEW w \in Writers, CheckAddress(w) PROVE FALSE
  BY <1>2 DEF CheckAddress, Done
<1> QED BY <1>1, <1>2 DEF AccountsNext, ProfileLoad, AdminLoad, PasswordLoad, CreateLoad, Loaded, Done

LEMMA UniqueStep ==
  ASSUME AccountsInductive, [AccountsNext]_accountsVars, account' # account,
         NEW e \in Addresses, NEW i \in Owners(e)', NEW j \in Owners(e)', i # j
  PROVE  {i, j} \subseteq Owners(e)
<1>0. /\ i \in Living' /\ Normal[account'[i].email] = Normal[e]
      /\ j \in Living' /\ Normal[account'[j].email] = Normal[e]
  BY DEF Owners
<1>1. CASE DeleteAccount
  <2>1. PICK k \in Living : /\ \A l \in AccountIds \ {k} : account'[l] = account[l]
                            /\ Living' = Living \ {k}
    BY <1>1, DeleteFacts
  <2> QED BY <1>0, <2>1 DEF Owners, Living
<1>2. ASSUME NEW w \in Writers, Save(w), ~ Done(w) PROVE {i, j} \subseteq Owners(e)
  <2> DEFINE id == write[w].id
  <2>1. PICK n : Leaves(w, n)
    BY <1>2, SaveLeaves
  <2>2. id \in AccountIds
    BY <2>1 DEF Leaves, AccountsInductive, RequestsOK, RequestOK
  <2>3. account'[id] = n /\ \A l \in AccountIds \ {id} : account'[l] = account[l]
    BY <2>1, <2>2 DEF Leaves, AccountsInductive, AccountsTypeOK
  <2>4. \A l \in Owners(e)' \ {id} : l \in Owners(e)
    BY <2>3 DEF Owners, Living
  <2>5. CASE i = id
    BY <1>0, <2>1, <2>3, <2>4, <2>5, NobodyJoins
  <2>6. CASE j = id
    BY <1>0, <2>1, <2>3, <2>4, <2>6, NobodyJoins
  <2> QED BY <2>4, <2>5, <2>6
<1> QED BY <1>1, <1>2, RowsChange

\* No address comes to stand for two accounts, although the check and the save are
\* apart and the unique column compares letter by letter.
THEOREM AddressesUnique == AccountsSpec => AddressesStayUnique
<1>1. AccountsInductive /\ [AccountsNext]_accountsVars =>
        [account' # account => \A e \in Addresses : \A i, j \in Owners(e)' :
             i # j => {i, j} \subseteq Owners(e)]_accountsVars
  BY UniqueStep
<1> QED BY <1>1, AccountsAlwaysInductive, PTL DEF AccountsSpec, AddressesStayUnique

LEMMA FieldsStep ==
  ASSUME AccountsInductive, [AccountsNext]_accountsVars, account' # account, NEW i \in AccountIds
  PROVE  /\ account[i].life = "gone" => account'[i] = account[i]
         /\ i \in Living /\ account'[i].life = "live" =>
                \A f \in Fields : account'[i][f] # account[i][f] =>
                    \E w \in Writers : /\ write[w].pc = "write" /\ write'[w].pc = "idle"
                                       /\ write[w].id = i /\ f \in write[w].fields
<1>1. CASE DeleteAccount
  <2>1. PICK k \in Living : /\ \A l \in AccountIds \ {k} : account'[l] = account[l]
                            /\ account'[k].life = "gone"
    BY <1>1, DeleteFacts
  <2> QED BY <2>1 DEF Living
<1>2. ASSUME NEW w \in Writers, Save(w), ~ Done(w)
      PROVE  /\ account[i].life = "gone" => account'[i] = account[i]
             /\ i \in Living /\ account'[i].life = "live" =>
                    \A f \in Fields : account'[i][f] # account[i][f] =>
                        \E v \in Writers : /\ write[v].pc = "write" /\ write'[v].pc = "idle"
                                           /\ write[v].id = i /\ f \in write[v].fields
  <2> DEFINE r == write[w]
  <2>1. Leaves(w, IF r.op = "create" THEN r.instance ELSE Written(r, account[r.id]))
    BY <1>2, SaveLeaves
  <2>2. /\ r.pc = "write"
        /\ r.op = "create" \/ r.id \in Living
        /\ account' = [account EXCEPT ![r.id] = IF r.op = "create" THEN r.instance ELSE Written(r, account[r.id])]
        /\ write' = [write EXCEPT ![w] = NoWrite]
    BY <2>1 DEF Leaves
  <2>3. /\ r \in Request /\ r.id \in AccountIds
        /\ r.op = "create" => account[r.id].life = "unborn"
    BY <2>2 DEF AccountsInductive, AccountsTypeOK, RequestsOK, RequestOK
  <2>4. write'[w].pc = "idle"
    BY <2>2, NoWriteIdle DEF AccountsInductive, AccountsTypeOK
  <2>5. account'[r.id] = (IF r.op = "create" THEN r.instance ELSE Written(r, account[r.id]))
        /\ \A l \in AccountIds \ {r.id} : account'[l] = account[l]
    BY <2>2, <2>3 DEF AccountsInductive, AccountsTypeOK
  <2>6. CASE i # r.id
    BY <2>5, <2>6
  <2>7. CASE i = r.id
    <3>1. account[i].life # "gone"
      BY <2>2, <2>3, <2>7 DEF Living
    <3>2. ASSUME i \in Living, NEW f \in Fields, account'[i][f] # account[i][f] PROVE f \in r.fields
      <4>1. account'[i] = Written(r, account[i]) /\ account[i] \in Row
        BY <2>3, <2>5, <2>7, <3>2, RowType DEF Living
      <4> QED BY <2>3, <3>2, <4>1, WrittenRow
    <3>3. ASSUME i \in Living, account'[i].life = "live", NEW f \in Fields, account'[i][f] # account[i][f]
          PROVE  \E v \in Writers : /\ write[v].pc = "write" /\ write'[v].pc = "idle"
                                    /\ write[v].id = i /\ f \in write[v].fields
      <4>1. /\ write[w].pc = "write" /\ write'[w].pc = "idle"
            /\ write[w].id = i /\ f \in write[w].fields
        BY <2>2, <2>4, <2>7, <3>2, <3>3
      <4> QED BY <4>1
    <3> QED BY <3>1, <3>3
  <2> QED BY <2>6, <2>7
<1> QED BY <1>1, <1>2, RowsChange

\* A request saves late the object it has read early, and still the row keeps every
\* field it did not name; a deleted account does not come back.
THEOREM SavesNarrow == AccountsSpec => SavesTouchOnlyTheirFields
<1>1. AccountsInductive /\ [AccountsNext]_accountsVars =>
        [account' # account => \A i \in AccountIds :
           /\ account[i].life = "gone" => account'[i] = account[i]
           /\ i \in Living /\ account'[i].life = "live" =>
                  \A f \in Fields : account'[i][f] # account[i][f] =>
                      \E w \in Writers : /\ write[w].pc = "write" /\ write'[w].pc = "idle"
                                         /\ write[w].id = i /\ f \in write[w].fields]_accountsVars
  BY FieldsStep
<1> QED BY <1>1, AccountsAlwaysInductive, PTL DEF AccountsSpec, SavesTouchOnlyTheirFields

(***************************************************************************)
(* Media clean-up: the type invariant.                                     *)
(***************************************************************************)
LEMMA Values ==
  /\ NoFile \in FileState /\ NoFile.kind = "none"
  /\ \A t \in 0..MaxTime : File("image", t) \in FileState /\ File("link", t) \in FileState
  /\ \A t : File("image", t).kind = "image" /\ File("image", t).changed = t
  /\ NoUpload.row = NoImage /\ NoUpload.name = NoImage /\ NoUpload.at = 0
  /\ NoImage \notin Names /\ Outside \notin Names
  /\ MinimumAge \in Nat /\ 2 <= MinimumAge /\ MinimumAge <= MaxTime /\ MaxTime \in Nat
  /\ KeyOf \in [Names -> Names]
<1> USE MediaAssumption DEF MediaAssumption
<1>1. NoFile \in FileState /\ NoFile.kind = "none"
  BY DEF NoFile, File, FileState
<1>2. \A t \in 0..MaxTime : File("image", t) \in FileState /\ File("link", t) \in FileState
  BY DEF File, FileState
<1>3. \A t : File("image", t).kind = "image" /\ File("image", t).changed = t
  BY DEF File
<1>4. NoUpload.row = NoImage /\ NoUpload.name = NoImage /\ NoUpload.at = 0
  BY DEF NoUpload
<1> QED BY <1>1, <1>2, <1>3, <1>4

LEMMA NoJobFields ==
  /\ NoJob \in JobType /\ NoJob.pc = "idle" /\ NoJob.used = {} /\ NoJob.todo = {}
  /\ NoJob.candidates = {} /\ NoJob.deleted = {} /\ NoJob.quiet = TRUE
  BY Values DEF NoJob, JobType

\* The job after a step of its own.
Went(pc, name, seen, used, todo, candidates, deleted) ==
    [job EXCEPT !.pc = pc, !.name = name, !.seen = seen, !.used = used, !.todo = todo,
                !.candidates = candidates, !.deleted = deleted]

Pcs == {"idle", "users", "ads", "walk", "verify", "recheck", "unlink", "done", "aborted"}

LEMMA WentFields ==
  ASSUME job \in JobType, NEW pc \in Pcs, NEW name \in Names \cup {NoImage}, NEW seen \in FileState,
         NEW used \in SUBSET Names, NEW todo \in SUBSET Names, NEW candidates \in SUBSET Names,
         NEW deleted \in SUBSET Names
  PROVE  LET j == Went(pc, name, seen, used, todo, candidates, deleted)
         IN  /\ j \in JobType /\ j.pc = pc /\ j.name = name /\ j.seen = seen /\ j.used = used
             /\ j.todo = todo /\ j.candidates = candidates /\ j.deleted = deleted
             /\ j.delete = job.delete /\ j.cutoff = job.cutoff /\ j.due = job.due
             /\ j.quiet = job.quiet /\ j.repointed = job.repointed
  BY DEF JobType, Went, Pcs

\* The step leaves what the run began with.
SameRun ==
    /\ job'.delete = job.delete /\ job'.cutoff = job.cutoff /\ job'.due = job.due
    /\ job'.quiet = job.quiet /\ job'.repointed = job.repointed

LEMMA JobFacts ==
  ASSUME MediaTypeOK
  PROVE  /\ job \in JobType /\ job.pc \in Pcs /\ job.name \in Names \cup {NoImage}
         /\ job.seen \in FileState /\ job.used \in SUBSET Names /\ job.todo \in SUBSET Names
         /\ job.candidates \in SUBSET Names /\ job.deleted \in SUBSET Names
         /\ job.cutoff \in Int /\ job.due \in SUBSET Names
         /\ job.quiet \in BOOLEAN /\ job.repointed \in BOOLEAN /\ job.delete \in BOOLEAN
         /\ time \in Int /\ \A f \in Names : files[f] \in FileState /\ files[f].changed \in Int
<1>1. job \in JobType /\ time \in Int
  BY Values DEF MediaTypeOK
<1>2. \A f \in Names : files[f] \in FileState /\ files[f].changed \in Int
  BY Values DEF MediaTypeOK, FileState
<1> QED BY <1>1, <1>2 DEF JobType, Pcs

LEMMA ReadEffect ==
  ASSUME MediaTypeOK, NEW table \in SUBSET Rows, NEW next \in {"ads", "walk"}, Read(table, next)
  PROVE  /\ job' \in JobType /\ SameRun /\ UNCHANGED <<files, image, upload, time>>
         /\ job'.todo = job.todo /\ job'.candidates = job.candidates /\ job'.deleted = job.deleted
         /\ \/ job'.pc = "aborted"
            \/ job'.pc = next /\ job'.used = job.used \cup ReferenceKeys(Named(table)) /\ Plain(table)
<1>1. ReferenceKeys(Named(table)) \in SUBSET Names
  BY Values DEF ReferenceKeys, Named
<1>2. UNCHANGED <<files, image, upload, time>>
  BY DEF Read
<1>3. CASE job' = [job EXCEPT !.pc = "aborted"]
  <2>1. job' = Went("aborted", job.name, job.seen, job.used, job.todo, job.candidates, job.deleted)
    BY <1>3, JobFacts DEF Went, JobType
  <2> QED BY <1>2, <2>1, JobFacts, WentFields DEF Pcs, SameRun
<1>4. CASE /\ job' = [job EXCEPT !.pc = next, !.used = job.used \cup ReferenceKeys(Named(table))]
           /\ ~ ((\E r \in table : image[r] = Outside) \/ (\E n \in Named(table) : files[n].kind = "link"))
  <2> DEFINE used == job.used \cup ReferenceKeys(Named(table))
  <2>1. job' = Went(next, job.name, job.seen, used, job.todo, job.candidates, job.deleted)
    BY <1>4, JobFacts DEF Went, JobType
  <2>2. used \in SUBSET Names
    BY <1>1, JobFacts
  <2> HIDE DEF used
  <2>3. /\ job' \in JobType /\ SameRun /\ job'.pc = next /\ job'.used = used
        /\ job'.todo = job.todo /\ job'.candidates = job.candidates /\ job'.deleted = job.deleted
    BY <2>1, <2>2, JobFacts, WentFields DEF Pcs, SameRun
  <2>4. Plain(table)
    BY <1>4 DEF Plain, Named
  <2> QED BY <1>2, <2>3, <2>4 DEF used
<1> QED BY <1>3, <1>4 DEF Read

LEMMA LookEffect ==
  ASSUME MediaTypeOK, Look
  PROVE  /\ job.pc = "walk" /\ UNCHANGED <<files, image, upload, time>>
         /\ job' \in JobType /\ SameRun
         /\ job'.used = job.used /\ job'.candidates = job.candidates /\ job'.deleted = job.deleted
         /\ \E f \in job.todo :
                /\ f \in Names /\ job'.todo = job.todo \ {f}
                /\ LET examined == /\ KeyOf[f] \notin job.used
                                   /\ files[f].kind = "image" /\ files[f].changed <= job.cutoff
                   IN  \/ examined /\ job'.pc = "verify" /\ job'.name = f /\ job'.seen = files[f]
                       \/ ~ examined /\ job'.pc = "walk"
<1>1. job.pc = "walk" /\ UNCHANGED <<files, image, upload, time>>
  BY DEF Look
<1> DEFINE examined(f) == /\ KeyOf[f] \notin job.used
                          /\ files[f].kind = "image" /\ files[f].changed <= job.cutoff
<1>2. PICK f \in job.todo :
          job' = IF examined(f)
                 THEN [job EXCEPT !.pc = "verify", !.name = f, !.seen = files[f], !.todo = job.todo \ {f}]
                 ELSE [job EXCEPT !.todo = job.todo \ {f}]
  BY DEF Look
<1>3. f \in Names /\ job.todo \ {f} \in SUBSET Names
  BY JobFacts
<1>4. CASE examined(f)
  <2>1. job' = Went("verify", f, files[f], job.used, job.todo \ {f}, job.candidates, job.deleted)
    BY <1>2, <1>4, JobFacts DEF Went, JobType
  <2>2. /\ job' \in JobType /\ SameRun /\ job'.pc = "verify" /\ job'.name = f /\ job'.seen = files[f]
        /\ job'.used = job.used /\ job'.candidates = job.candidates /\ job'.deleted = job.deleted
        /\ job'.todo = job.todo \ {f}
    BY <1>3, <2>1, JobFacts, WentFields DEF Pcs, SameRun
  <2> QED BY <1>1, <1>3, <1>4, <2>2
<1>5. CASE ~ examined(f)
  <2>1. job' = Went("walk", job.name, job.seen, job.used, job.todo \ {f}, job.candidates, job.deleted)
    BY <1>1, <1>2, <1>5, JobFacts DEF Went, JobType
  <2>2. /\ job' \in JobType /\ SameRun /\ job'.pc = "walk"
        /\ job'.used = job.used /\ job'.candidates = job.candidates /\ job'.deleted = job.deleted
        /\ job'.todo = job.todo \ {f}
    BY <1>3, <2>1, JobFacts, WentFields DEF Pcs, SameRun
  <2> QED BY <1>1, <1>3, <1>5, <2>2
<1> QED BY <1>4, <1>5

\* Verify and Recheck: the file in hand is dropped when it is not the one looked at.
LEMMA CheckEffect ==
  ASSUME MediaTypeOK, Verify \/ Recheck
  PROVE  /\ job.pc \in {"verify", "recheck"} /\ job.name \in Names
         /\ UNCHANGED <<files, image, upload, time>>
         /\ job' \in JobType /\ SameRun
         /\ job'.used = job.used /\ job'.todo = job.todo /\ job'.deleted = job.deleted
         /\ \/ ~ Same /\ job'.pc = "walk" /\ job'.candidates = job.candidates
            \/ /\ Same /\ job.pc = "verify" /\ job'.pc = "recheck" /\ job'.name = job.name
               /\ job'.seen = job.seen /\ job'.candidates = job.candidates
            \/ /\ Same /\ job.pc = "recheck" /\ job'.pc = (IF job.delete THEN "unlink" ELSE "walk")
               /\ job'.name = job.name /\ job'.candidates = job.candidates \cup {job.name}
<1>1. /\ job.pc \in {"verify", "recheck"} /\ UNCHANGED <<files, image, upload, time>>
      /\ job.name \in Names
  BY DEF Verify, Recheck, MediaTypeOK
<1>2. CASE ~ Same
  <2>1. job' = [job EXCEPT !.pc = "walk", !.name = NoImage, !.seen = NoFile]
    BY <1>2 DEF Verify, Recheck, Skip
  <2>2. job' = Went("walk", NoImage, NoFile, job.used, job.todo, job.candidates, job.deleted)
    BY <2>1, JobFacts DEF Went, JobType
  <2> QED BY <1>1, <1>2, <2>2, JobFacts, Values, WentFields DEF Pcs, SameRun
<1>3. CASE Same /\ job.pc = "verify"
  <2>1. job' = [job EXCEPT !.pc = "recheck"]
    BY <1>3 DEF Verify, Recheck
  <2>2. job' = Went("recheck", job.name, job.seen, job.used, job.todo, job.candidates, job.deleted)
    BY <2>1, JobFacts DEF Went, JobType
  <2> QED BY <1>1, <1>3, <2>2, JobFacts, WentFields DEF Pcs, SameRun
<1>4. CASE Same /\ job.pc = "recheck"
  <2> DEFINE pc == IF job.delete THEN "unlink" ELSE "walk"
             candidates == job.candidates \cup {job.name}
  <2>1. job' = [job EXCEPT !.pc = pc, !.candidates = candidates]
    BY <1>4 DEF Verify, Recheck
  <2>2. pc \in Pcs /\ candidates \in SUBSET Names
    BY <1>1, JobFacts DEF Pcs
  <2>3. pc = IF job.delete THEN "unlink" ELSE "walk"
    OBVIOUS
  <2>4. candidates = job.candidates \cup {job.name}
    OBVIOUS
  <2> HIDE DEF pc, candidates
  <2>5. job' = Went(pc, job.name, job.seen, job.used, job.todo, candidates, job.deleted)
    BY <2>1, JobFacts DEF Went, JobType
  <2>6. /\ job' \in JobType /\ SameRun
        /\ job'.used = job.used /\ job'.todo = job.todo /\ job'.deleted = job.deleted
        /\ job'.pc = pc /\ job'.name = job.name /\ job'.candidates = candidates
    <3>1. /\ job \in JobType /\ job.name \in Names \cup {NoImage} /\ job.seen \in FileState
          /\ job.used \in SUBSET Names /\ job.todo \in SUBSET Names /\ job.deleted \in SUBSET Names
      BY JobFacts
    <3> QED BY <2>2, <2>5, <3>1, WentFields DEF SameRun
  <2> QED BY <1>1, <1>4, <2>3, <2>4, <2>6
<1> QED BY <1>1, <1>2, <1>3, <1>4

LEMMA UnlinkEffect ==
  ASSUME MediaTypeOK, Unlink
  PROVE  /\ job.pc = "unlink" /\ job.name \in Names /\ job.delete /\ UNCHANGED <<image, upload, time>>
         /\ files' \in [Names -> FileState] /\ files'[job.name] = NoFile
         /\ \A f \in Names \ {job.name} : files'[f] = files[f]
         /\ job' \in JobType /\ SameRun /\ job'.pc = "walk"
         /\ job'.used = job.used /\ job'.todo = job.todo /\ job'.candidates = job.candidates
         /\ job'.deleted = job.deleted \cup {job.name}
<1>1. job.pc = "unlink" /\ UNCHANGED <<image, upload, time>> /\ job.name \in Names /\ job.delete
  BY DEF Unlink, MediaTypeOK
<1>2. /\ files' \in [Names -> FileState] /\ files'[job.name] = NoFile
      /\ \A f \in Names \ {job.name} : files'[f] = files[f]
  BY <1>1, Values DEF Unlink, MediaTypeOK
<1>3. job.deleted \cup {job.name} \in SUBSET Names
  BY <1>1, JobFacts
<1>4. job' = Went("walk", NoImage, NoFile, job.used, job.todo, job.candidates, job.deleted \cup {job.name})
  BY JobFacts DEF Unlink, Went, JobType
<1>5. /\ job' \in JobType /\ SameRun /\ job'.pc = "walk"
      /\ job'.used = job.used /\ job'.todo = job.todo /\ job'.candidates = job.candidates
      /\ job'.deleted = job.deleted \cup {job.name}
  BY <1>3, <1>4, JobFacts, Values, WentFields DEF Pcs, SameRun
<1> QED BY <1>1, <1>2, <1>5

LEMMA FinishEffect ==
  ASSUME MediaTypeOK, Finish
  PROVE  /\ job.pc = "walk" /\ job.todo = {} /\ UNCHANGED <<files, image, upload, time>>
         /\ job' \in JobType /\ SameRun /\ job'.pc = "done"
         /\ job'.used = job.used /\ job'.todo = job.todo /\ job'.candidates = job.candidates
         /\ job'.deleted = job.deleted
<1>1. job' = Went("done", job.name, job.seen, job.used, job.todo, job.candidates, job.deleted)
  BY JobFacts DEF Finish, Went, JobType
<1>2. /\ job' \in JobType /\ SameRun /\ job'.pc = "done"
      /\ job'.used = job.used /\ job'.todo = job.todo /\ job'.candidates = job.candidates
      /\ job'.deleted = job.deleted
  BY <1>1, JobFacts, WentFields DEF Pcs, SameRun
<1> QED BY <1>2 DEF Finish

LEMMA BeginEffect ==
  ASSUME MediaTypeOK, Begin
  PROVE  /\ UNCHANGED <<files, image, upload, time>>
         /\ job' \in JobType /\ job'.pc = "users" /\ job'.cutoff + MinimumAge <= time
         /\ job'.due = Orphans(job'.cutoff) /\ job'.used = {} /\ job'.todo = Names
         /\ job'.candidates = {} /\ job'.deleted = {}
<1>1. PICK delete \in BOOLEAN, older \in Ages :
          /\ OldEnough(older)
          /\ job' = [NoJob EXCEPT !.pc = "users", !.delete = delete, !.todo = Names,
                                  !.cutoff = time - older, !.due = Orphans(time - older)]
  BY DEF Begin
<1>2. older \in Nat /\ MinimumAge <= older /\ time \in Int /\ MinimumAge \in Int
  BY <1>1, JobFacts, MediaAssumption DEF MediaAssumption, OldEnough
<1> DEFINE cutoff == time - older
           due == Orphans(time - older)
<1>3. cutoff \in Int /\ due \in SUBSET Names /\ due = Orphans(cutoff) /\ cutoff + MinimumAge <= time
  BY <1>2 DEF Orphans
<1>4. job' = [NoJob EXCEPT !.pc = "users", !.delete = delete, !.todo = Names,
                           !.cutoff = cutoff, !.due = due]
  BY <1>1
<1> HIDE DEF cutoff, due
<1>5. /\ job' \in JobType /\ job'.pc = "users" /\ job'.cutoff = cutoff /\ job'.due = due
      /\ job'.used = {} /\ job'.todo = Names /\ job'.candidates = {} /\ job'.deleted = {}
  BY <1>3, <1>4, NoJobFields DEF JobType
<1>6. UNCHANGED <<files, image, upload, time>>
  BY DEF Begin
<1> QED BY <1>3, <1>5, <1>6

LEMMA DisturbFields ==
  ASSUME job \in JobType, Disturb
  PROVE  /\ job' \in JobType /\ job'.quiet = FALSE /\ job'.repointed = job.repointed
         /\ job'.pc = job.pc /\ job'.delete = job.delete /\ job'.cutoff = job.cutoff
         /\ job'.used = job.used /\ job'.todo = job.todo /\ job'.name = job.name
         /\ job'.seen = job.seen /\ job'.candidates = job.candidates
         /\ job'.deleted = job.deleted /\ job'.due = job.due
  BY DEF JobType, Disturb

LEMMA UploadFacts ==
  ASSUME MediaTypeOK, NEW u \in Uploads
  PROVE  /\ upload[u] # NoUpload => upload[u].row \in Rows /\ upload[u].name \in Names
                                    /\ upload[u].at \in 0..MaxTime
         /\ upload[u].name \in Names => upload[u] # NoUpload
  BY Values DEF MediaTypeOK

LEMMA MediaInitTypes == MediaInit => MediaTypeOK
  BY Values, NoJobFields DEF MediaInit, MediaTypeOK

LEMMA MediaNextTypes == MediaTypeOK /\ [MediaNext]_mediaVars => MediaTypeOK'
<1> SUFFICES ASSUME MediaTypeOK, [MediaNext]_mediaVars PROVE MediaTypeOK'
  OBVIOUS
<1>0. job \in JobType /\ time \in 0..MaxTime /\ files \in [Names -> FileState]
  BY DEF MediaTypeOK
<1>1. CASE Begin
  BY <1>1, BeginEffect DEF MediaTypeOK
<1>2. ASSUME NEW table \in SUBSET Rows, NEW next \in {"ads", "walk"}, Read(table, next) PROVE MediaTypeOK'
  BY <1>2, ReadEffect DEF MediaTypeOK
<1>3. CASE Look
  BY <1>3, LookEffect DEF MediaTypeOK
<1>4. CASE Verify \/ Recheck
  BY <1>4, CheckEffect DEF MediaTypeOK, SameRun
<1>5. CASE Unlink
  BY <1>5, UnlinkEffect DEF MediaTypeOK
<1>6. CASE Finish
  BY <1>6, FinishEffect DEF MediaTypeOK
<1>7. CASE Leave
  BY <1>7, NoJobFields DEF Leave, MediaTypeOK
<1>8. ASSUME NEW u \in Uploads, Store(u) PROVE MediaTypeOK'
  <2>1. PICK r \in Rows, f \in Names :
            /\ files' = [files EXCEPT ![f] = File("image", time)]
            /\ upload' = [upload EXCEPT ![u] = [row |-> r, name |-> f, at |-> time]]
    BY <1>8 DEF Store
  <2>2. files' \in [Names -> FileState]
    BY <1>0, <2>1, Values
  <2>3. upload' \in [Uploads -> {NoUpload} \cup [row : Rows, name : Names, at : 0..MaxTime]]
    BY <1>0, <2>1 DEF MediaTypeOK
  <2>4. Disturb /\ UNCHANGED <<image, time>>
    BY <1>8 DEF Store
  <2> QED BY <1>0, <2>2, <2>3, <2>4, DisturbFields DEF MediaTypeOK
<1>9. ASSUME NEW u \in Uploads, Commit(u) PROVE MediaTypeOK'
  <2>1. upload[u].row \in Rows /\ upload[u].name \in Names
    BY <1>9, UploadFacts DEF Commit
  <2>2. image' \in [Rows -> Names \cup {NoImage, Outside}]
    BY <1>9, <2>1 DEF Commit, MediaTypeOK
  <2>3. upload' \in [Uploads -> {NoUpload} \cup [row : Rows, name : Names, at : 0..MaxTime]]
    BY <1>9 DEF Commit, MediaTypeOK
  <2>4. Disturb /\ UNCHANGED <<files, time>>
    BY <1>9 DEF Commit
  <2> QED BY <1>0, <2>2, <2>3, <2>4, DisturbFields DEF MediaTypeOK
<1>10. ASSUME NEW u \in Uploads, RollBack(u) PROVE MediaTypeOK'
  <2>1. upload' \in [Uploads -> {NoUpload} \cup [row : Rows, name : Names, at : 0..MaxTime]]
    BY <1>10 DEF RollBack, MediaTypeOK
  <2>2. Disturb /\ UNCHANGED <<files, image, time>>
    BY <1>10 DEF RollBack
  <2> QED BY <1>0, <2>1, <2>2, DisturbFields DEF MediaTypeOK
<1>11. ASSUME NEW r \in Rows, Clear(r) PROVE MediaTypeOK'
  <2>1. image' \in [Rows -> Names \cup {NoImage, Outside}]
    BY <1>11 DEF Clear, MediaTypeOK
  <2>2. Disturb /\ UNCHANGED <<files, upload, time>>
    BY <1>11 DEF Clear
  <2> QED BY <1>0, <2>1, <2>2, DisturbFields DEF MediaTypeOK
<1>12. ASSUME NEW f \in Names, Overwrite(f) PROVE MediaTypeOK'
  <2>1. files' \in [Names -> FileState]
    <3>1. files[f] \in FileState
      BY <1>0
    <3>2. [files[f] EXCEPT !.changed = time] \in FileState
      BY <1>0, <3>1 DEF FileState
    <3>3. files' = [files EXCEPT ![f] = [files[f] EXCEPT !.changed = time]]
      BY <1>12 DEF Overwrite
    <3> QED BY <1>0, <3>2, <3>3
  <2>2. Disturb /\ UNCHANGED <<image, upload, time>>
    BY <1>12 DEF Overwrite
  <2> QED BY <1>0, <2>1, <2>2, DisturbFields DEF MediaTypeOK
<1>13. ASSUME NEW f \in Names, NEW r \in Rows, Repoint(r, f) PROVE MediaTypeOK'
  <2>1. image' \in [Rows -> Names \cup {NoImage, Outside}]
    BY <1>13 DEF Repoint, MediaTypeOK
  <2>2. job' \in JobType /\ job'.pc = job.pc /\ job'.name = job.name /\ job'.delete = job.delete
    BY <1>0, <1>13 DEF Repoint, JobType
  <2> QED BY <1>13, <2>1, <2>2 DEF Repoint, MediaTypeOK
<1>14. CASE Tick
  <2>1. time' \in 0..MaxTime
    BY <1>0, <1>14, Values DEF Tick
  <2> QED BY <1>14, <2>1 DEF Tick, MediaTypeOK
<1>15. CASE UNCHANGED mediaVars
  BY <1>15 DEF mediaVars, MediaTypeOK
<1>16. ReadUsers \/ ReadAds => \E table \in SUBSET Rows, next \in {"ads", "walk"} : Read(table, next)
  BY DEF ReadUsers, ReadAds, Rows
<1> QED BY <1>1, <1>2, <1>3, <1>4, <1>5, <1>6, <1>7, <1>8, <1>9, <1>10, <1>11, <1>12, <1>13,
           <1>14, <1>15, <1>16 DEF MediaNext

\* The variables keep their types, and only a command that deletes reaches its unlink.
THEOREM MediaTyped == MediaSpec => []MediaTypeOK
  BY MediaInitTypes, MediaNextTypes, PTL DEF MediaSpec

(***************************************************************************)
(* Steps of the site: the run goes on where it was, and is not quiet.      *)
(***************************************************************************)
SiteStep ==
    \/ \E u \in Uploads : Store(u) \/ Commit(u) \/ RollBack(u)
    \/ \E r \in Rows : Clear(r)
    \/ \E f \in Names : Overwrite(f) \/ \E r \in Rows : Repoint(r, f)

LEMMA SiteEffect ==
  ASSUME MediaTypeOK, SiteStep
  PROVE  /\ job' \in JobType /\ job'.quiet = FALSE /\ (job.repointed => job'.repointed)
         /\ job'.pc = job.pc /\ job'.cutoff = job.cutoff /\ job'.used = job.used
         /\ job'.name = job.name /\ job'.deleted = job.deleted /\ UNCHANGED time
<1>1. job \in JobType
  BY DEF MediaTypeOK
<1>2. ASSUME Disturb, UNCHANGED time
      PROVE  /\ job' \in JobType /\ job'.quiet = FALSE /\ (job.repointed => job'.repointed)
             /\ job'.pc = job.pc /\ job'.cutoff = job.cutoff /\ job'.used = job.used
             /\ job'.name = job.name /\ job'.deleted = job.deleted
  BY <1>1, <1>2, DisturbFields
<1>3. ASSUME NEW r \in Rows, NEW f \in Names, Repoint(r, f)
      PROVE  /\ job' \in JobType /\ job'.quiet = FALSE /\ (job.repointed => job'.repointed)
             /\ job'.pc = job.pc /\ job'.cutoff = job.cutoff /\ job'.used = job.used
             /\ job'.name = job.name /\ job'.deleted = job.deleted /\ UNCHANGED time
  BY <1>1, <1>3 DEF Repoint, JobType
<1>4. \/ Disturb /\ UNCHANGED time
      \/ \E r \in Rows, f \in Names : Repoint(r, f)
  BY DEF SiteStep, Store, Commit, RollBack, Clear, Overwrite
<1> QED BY <1>2, <1>3, <1>4

\* The steps of the command.
JobStep == Begin \/ ReadUsers \/ ReadAds \/ Look \/ Verify \/ Recheck \/ Unlink \/ Finish \/ Leave

LEMMA NextIs == MediaNext => JobStep \/ SiteStep \/ Tick
  BY DEF MediaNext, JobStep, SiteStep

LEMMA JobStepKeeps == JobStep /\ ~ Unlink => UNCHANGED <<files, image, upload, time>>
  BY DEF JobStep, Begin, ReadUsers, ReadAds, Read, Look, Verify, Recheck, Finish, Leave

(***************************************************************************)
(* The file of a request is as young as the request.                       *)
(***************************************************************************)
LEMMA NextFresh ==
  ASSUME MediaTypeOK, UploadsAreFresh, ReadRowsAreKnown, [MediaNext]_mediaVars
  PROVE  UploadsAreFresh'
<1> SUFFICES ASSUME NEW u \in Uploads, upload'[u] # NoUpload
             PROVE  /\ files'[upload'[u].name].kind = "image"
                    /\ upload'[u].at <= files'[upload'[u].name].changed
                    /\ upload'[u].at <= time' /\ time' <= upload'[u].at + 1
  BY DEF UploadsAreFresh, NoUpload
<1>1. upload[u] # NoUpload =>
          /\ files[upload[u].name].kind = "image" /\ upload[u].at <= files[upload[u].name].changed
          /\ upload[u].at <= time /\ time <= upload[u].at + 1
          /\ upload[u].name \in Names /\ upload[u].at \in Int
  BY UploadFacts DEF UploadsAreFresh
<1>2. CASE UNCHANGED <<files, upload, time>>
  BY <1>1, <1>2
<1>3. CASE Unlink
  <2>1. upload' = upload /\ time' = time /\ \A f \in Names \ {job.name} : files'[f] = files[f]
    BY <1>3, UnlinkEffect
  <2>2. upload[u].name # job.name
    BY <1>3 DEF Unlink, ReadRowsAreKnown
  <2> QED BY <1>1, <2>1, <2>2
<1>4. ASSUME NEW v \in Uploads, Store(v)
      PROVE  /\ files'[upload'[u].name].kind = "image"
             /\ upload'[u].at <= files'[upload'[u].name].changed
             /\ upload'[u].at <= time' /\ time' <= upload'[u].at + 1
  <2>1. PICK r \in Rows, f \in Names :
            /\ files[f].kind = "none"
            /\ files' = [files EXCEPT ![f] = File("image", time)]
            /\ upload' = [upload EXCEPT ![v] = [row |-> r, name |-> f, at |-> time]]
    BY <1>4 DEF Store
  <2>2. time' = time /\ time \in Int
    BY <1>4, JobFacts DEF Store
  <2>3. files'[f] = File("image", time) /\ \A g \in Names \ {f} : files'[g] = files[g]
    BY <2>1 DEF MediaTypeOK
  <2>4. CASE u = v
    <3>1. upload'[u].name = f /\ upload'[u].at = time
      BY <2>1, <2>4 DEF MediaTypeOK
    <3> QED BY <2>2, <2>3, <3>1, Values
  <2>5. CASE u # v
    <3>1. upload'[u] = upload[u]
      BY <2>1, <2>5 DEF MediaTypeOK
    <3>2. upload[u].name # f
      BY <1>1, <2>1, <3>1
    <3> QED BY <1>1, <2>2, <2>3, <3>1, <3>2
  <2> QED BY <2>4, <2>5
<1>5. ASSUME NEW v \in Uploads, Commit(v) \/ RollBack(v)
      PROVE  upload'[u] = upload[u] /\ UNCHANGED <<files, time>>
  <2>1. upload' = [upload EXCEPT ![v] = NoUpload] /\ UNCHANGED <<files, time>>
    BY <1>5 DEF Commit, RollBack
  <2> QED BY <2>1 DEF MediaTypeOK
<1>6. ASSUME NEW r \in Rows, Clear(r) \/ \E f \in Names : Repoint(r, f)
      PROVE  UNCHANGED <<files, upload, time>>
  BY <1>6 DEF Clear, Repoint
<1>7. ASSUME NEW f \in Names, Overwrite(f)
      PROVE  /\ files'[upload'[u].name].kind = "image"
             /\ upload'[u].at <= files'[upload'[u].name].changed
             /\ upload'[u].at <= time' /\ time' <= upload'[u].at + 1
  <2>1. /\ files' = [files EXCEPT ![f] = [files[f] EXCEPT !.changed = time]] /\ UNCHANGED <<upload, time>>
        /\ files[f].kind = "image"
    BY <1>7 DEF Overwrite
  <2>2. files \in [Names -> FileState]
    BY DEF MediaTypeOK
  <2>3. /\ files'[f].kind = "image" /\ files'[f].changed = time
        /\ \A g \in Names \ {f} : files'[g] = files[g]
    BY <2>1, <2>2 DEF FileState
  <2> QED BY <1>1, <2>1, <2>3
<1>8. CASE Tick
  <2>1. upload[u].at = time /\ time' = time + 1 /\ UNCHANGED <<files, upload>> /\ time \in Int
    BY <1>8, JobFacts DEF Tick
  <2> QED BY <1>1, <2>1
<1>9. CASE UNCHANGED mediaVars
  BY <1>2, <1>9 DEF mediaVars
<1>10. CASE JobStep /\ ~ Unlink
  BY <1>2, <1>10, JobStepKeeps
<1> QED BY <1>1, <1>2, <1>3, <1>4, <1>5, <1>6, <1>7, <1>8, <1>9, <1>10, NextIs DEF SiteStep

(***************************************************************************)
(* What the command has read, and what it is about to remove.              *)
(***************************************************************************)
\* The three parts, for rows that may be those of another step.
Known(r) == image[r] \in Names => KeyOf[image[r]] \in job.used \/ Recent(image[r]) \/ job.repointed

NobodysFile ==
    job.pc \in {"verify", "recheck", "unlink"} =>
        /\ files[job.name].kind = "image"
        /\ \A u \in Uploads : upload[u].name # job.name
        /\ \A r \in Rows : image[r] = job.name => job.repointed

LEMMA KnownParts ==
  ReadRowsAreKnown <=> /\ job.pc # "idle" => job.cutoff + MinimumAge <= time
                       /\ \A r \in HasRead : Known(r)
                       /\ NobodysFile
  BY DEF ReadRowsAreKnown, Known, NobodysFile

LEMMA RowsRead ==
  /\ HasRead \subseteq Rows
  /\ job.pc \in {"idle", "users", "aborted"} => HasRead = {}
  /\ job.pc = "ads" => HasRead = UserRows
  /\ job.pc \in {"walk", "verify", "recheck", "unlink", "done"} => HasRead = Rows
  BY DEF HasRead, Rows

LEMMA RowsReadNext ==
  /\ job'.pc \in {"idle", "users", "aborted"} => HasRead' = {}
  /\ job'.pc = "ads" => HasRead' = UserRows
  /\ job'.pc \in {"walk", "verify", "recheck", "unlink", "done"} => HasRead' = Rows
  BY DEF HasRead, Rows

LEMMA JobKnown ==
  ASSUME MediaTypeOK, UploadsAreFresh, ReadRowsAreKnown, JobStep
  PROVE  ReadRowsAreKnown'
<1>1. /\ job.pc # "idle" => job.cutoff + MinimumAge <= time
      /\ \A r \in HasRead : Known(r)
      /\ NobodysFile
  BY KnownParts
<1> SUFFICES /\ job'.pc # "idle" => job'.cutoff + MinimumAge <= time'
             /\ \A r \in HasRead' : Known(r)'
             /\ NobodysFile'
  BY DEF ReadRowsAreKnown, Known, NobodysFile
<1>2. CASE Begin
  <2>1. /\ job'.pc = "users" /\ job'.cutoff + MinimumAge <= time /\ time' = time
    BY <1>2, BeginEffect
  <2> QED BY <2>1, RowsReadNext DEF NobodysFile
<1>3. CASE ReadUsers
  <2>1. Read(UserRows, "ads") /\ job.pc = "users" /\ UserRows \in SUBSET Rows
    BY <1>3 DEF ReadUsers, Rows
  <2>2. /\ SameRun /\ UNCHANGED <<files, image, upload, time>>
        /\ job'.pc = "aborted" \/ (job'.pc = "ads" /\ job'.used = job.used \cup ReferenceKeys(Named(UserRows)))
    BY <2>1, ReadEffect
  <2>3. \A r \in HasRead' : Known(r)'
    <3>1. CASE job'.pc = "aborted"
      BY <3>1, RowsReadNext
    <3>2. CASE job'.pc = "ads" /\ job'.used = job.used \cup ReferenceKeys(Named(UserRows))
      <4> SUFFICES ASSUME NEW r \in UserRows, image[r] \in Names PROVE KeyOf[image[r]] \in job'.used
        BY <2>2, <3>2, RowsReadNext DEF Known
      <4> QED BY <3>2 DEF ReferenceKeys, Named
    <3> QED BY <2>2, <3>1, <3>2
  <2>4. NobodysFile'
    BY <2>2 DEF NobodysFile
  <2> QED BY <1>1, <2>1, <2>2, <2>3, <2>4 DEF SameRun
<1>4. CASE ReadAds
  <2>1. Read(AdRows, "walk") /\ job.pc = "ads" /\ AdRows \in SUBSET Rows
    BY <1>4 DEF ReadAds, Rows
  <2>2. /\ SameRun /\ UNCHANGED <<files, image, upload, time>>
        /\ job'.pc = "aborted" \/ (job'.pc = "walk" /\ job'.used = job.used \cup ReferenceKeys(Named(AdRows)))
    BY <2>1, ReadEffect
  <2>3. \A r \in HasRead' : Known(r)'
    <3>1. CASE job'.pc = "aborted"
      BY <3>1, RowsReadNext
    <3>2. CASE job'.pc = "walk" /\ job'.used = job.used \cup ReferenceKeys(Named(AdRows))
      <4> SUFFICES ASSUME NEW r \in Rows, image[r] \in Names
                   PROVE  KeyOf[image[r]] \in job'.used \/ Recent(image[r]) \/ job.repointed
        BY <2>2, <3>2, RowsReadNext DEF Known, Recent, SameRun
      <4>1. CASE r \in AdRows
        BY <3>2, <4>1 DEF ReferenceKeys, Named
      <4>2. CASE r \in UserRows
        BY <1>1, <2>1, <3>2, <4>2, RowsRead DEF Known
      <4> QED BY <4>1, <4>2 DEF Rows
    <3> QED BY <2>2, <3>1, <3>2
  <2>4. NobodysFile'
    BY <2>2 DEF NobodysFile
  <2> QED BY <1>1, <2>1, <2>2, <2>3, <2>4 DEF SameRun
<1>5. ASSUME job.pc \in {"walk", "verify", "recheck", "unlink"}, SameRun, UNCHANGED <<files, image, upload, time>>,
             job'.pc \in {"walk", "verify", "recheck", "unlink", "done"}, job'.used = job.used
      PROVE  /\ job'.cutoff + MinimumAge <= time'
             /\ \A r \in HasRead' : Known(r)'
  BY <1>1, <1>5, RowsRead, RowsReadNext DEF Known, Recent, SameRun
<1>6. CASE Look
  <2>1. /\ job.pc = "walk" /\ UNCHANGED <<files, image, upload, time>> /\ SameRun /\ job'.used = job.used
        /\ job'.pc = "walk" \/ job'.pc = "verify"
    BY <1>6, LookEffect
  <2>2. ASSUME job'.pc = "verify" PROVE NobodysFile'
    <3>1. PICK f \in Names : /\ job'.name = f /\ KeyOf[f] \notin job.used
                             /\ files[f].kind = "image" /\ files[f].changed <= job.cutoff
      BY <1>6, <2>2, LookEffect
    <3>2. ~ Recent(f)
      BY <3>1, JobFacts DEF Recent
    <3>3. \A r \in Rows : image[r] = f => job.repointed
      BY <1>1, <2>1, <3>1, <3>2, RowsRead DEF Known
    <3>4. ASSUME NEW u \in Uploads PROVE upload[u].name # f
      <4> SUFFICES ASSUME upload[u].name = f PROVE FALSE
        OBVIOUS
      <4>1. upload[u] # NoUpload /\ upload[u].at \in Int
        BY UploadFacts
      <4>2. upload[u].at <= files[f].changed /\ time <= upload[u].at + 1
        BY <4>1 DEF UploadsAreFresh
      <4>3. job.cutoff + MinimumAge <= time /\ job.cutoff \in Int /\ time \in Int /\ files[f].changed \in Int
        BY <1>1, <2>1, JobFacts
      <4> QED BY <3>1, <4>1, <4>2, <4>3, Values
    <3> QED BY <2>1, <3>1, <3>3, <3>4 DEF NobodysFile, SameRun
  <2>3. job'.pc = "walk" => NobodysFile'
    BY DEF NobodysFile
  <2> QED BY <1>5, <2>1, <2>2, <2>3
<1>7. CASE Verify \/ Recheck
  <2>1. /\ job.pc \in {"verify", "recheck"} /\ UNCHANGED <<files, image, upload, time>> /\ SameRun
        /\ job'.used = job.used
        /\ job'.pc = "walk" \/ (job'.pc \in {"recheck", "unlink"} /\ job'.name = job.name)
    BY <1>7, CheckEffect
  <2>2. NobodysFile'
    BY <1>1, <2>1 DEF NobodysFile, SameRun
  <2> QED BY <1>5, <2>1, <2>2
<1>8. CASE Unlink
  <2>1. /\ job.pc = "unlink" /\ UNCHANGED <<image, upload, time>> /\ SameRun
        /\ \A f \in Names \ {job.name} : files'[f] = files[f]
        /\ job'.pc = "walk" /\ job'.used = job.used
    BY <1>8, UnlinkEffect
  <2>2. ASSUME NEW r \in Rows PROVE Known(r)'
    <3>1. Known(r)
      BY <1>1, <2>1, RowsRead
    <3>2. image[r] = job.name => job.repointed
      BY <1>1, <2>1 DEF NobodysFile
    <3> QED BY <2>1, <3>1, <3>2 DEF Known, Recent, SameRun
  <2>3. NobodysFile'
    BY <2>1 DEF NobodysFile
  <2> QED BY <1>1, <2>1, <2>2, <2>3, RowsReadNext DEF SameRun
<1>9. CASE Finish
  <2>1. /\ job.pc = "walk" /\ UNCHANGED <<files, image, upload, time>> /\ SameRun
        /\ job'.used = job.used /\ job'.pc = "done"
    BY <1>9, FinishEffect
  <2> QED BY <1>5, <2>1 DEF NobodysFile
<1>10. CASE Leave
  BY <1>10, NoJobFields, RowsReadNext DEF Leave, NobodysFile
<1> QED BY <1>2, <1>3, <1>4, <1>6, <1>7, <1>8, <1>9, <1>10 DEF JobStep

\* The file and the rows after a step of the site.
RecentNow(f) == files'[f].kind = "image" /\ job.cutoff < files'[f].changed

KnownNow ==
    /\ \A r \in HasRead : image'[r] \in Names =>
           KeyOf[image'[r]] \in job.used \/ RecentNow(image'[r]) \/ job'.repointed
    /\ job.pc \in {"verify", "recheck", "unlink"} =>
           /\ files'[job.name].kind = "image"
           /\ \A u \in Uploads : upload'[u].name # job.name
           /\ \A r \in Rows : image'[r] = job.name => job'.repointed

LEMMA SiteKnown ==
  ASSUME MediaTypeOK, UploadsAreFresh, ReadRowsAreKnown, SiteStep
  PROVE  ReadRowsAreKnown'
<1>1. /\ job.pc # "idle" => job.cutoff + MinimumAge <= time
      /\ \A r \in HasRead : Known(r)
      /\ NobodysFile
  BY KnownParts
<1>2. /\ job.repointed => job'.repointed
      /\ job'.pc = job.pc /\ job'.cutoff = job.cutoff /\ job'.used = job.used
      /\ job'.name = job.name /\ time' = time
  BY SiteEffect
<1>3. HasRead' = HasRead /\ HasRead \subseteq Rows /\ (HasRead # {} => job.pc # "idle")
  BY <1>2 DEF HasRead, Rows
<1>4. /\ files \in [Names -> FileState] /\ image \in [Rows -> Names \cup {NoImage, Outside}]
      /\ NoImage \notin Names /\ upload \in [Uploads -> {NoUpload} \cup [row : Rows, name : Names, at : 0..MaxTime]]
      /\ job.pc \in {"verify", "recheck", "unlink"} => job.name \in Names
  BY Values DEF MediaTypeOK
<1>5. time \in Int /\ job.cutoff \in Int /\ (job.pc # "idle" => job.cutoff < time)
  BY <1>1, JobFacts, Values
<1> SUFFICES KnownNow
  BY <1>1, <1>2, <1>3 DEF ReadRowsAreKnown, Recent, KnownNow, RecentNow
<1>6. ASSUME NEW u \in Uploads, Store(u)
      PROVE  KnownNow
  <2>1. PICK x \in Rows, f \in Names :
            /\ files[f].kind = "none"
            /\ files' = [files EXCEPT ![f] = File("image", time)]
            /\ upload' = [upload EXCEPT ![u] = [row |-> x, name |-> f, at |-> time]]
    BY <1>6 DEF Store
  <2>2. image' = image
    BY <1>6 DEF Store
  <2>3. \A g \in Names \ {f} : files'[g] = files[g]
    BY <1>4, <2>1
  <2>4. upload'[u].name = f /\ \A v \in Uploads \ {u} : upload'[v] = upload[v]
    BY <1>4, <2>1
  <2>5. ~ Recent(f)
    BY <2>1 DEF Recent, RecentNow
  <2>6. ASSUME NEW r \in HasRead, image[r] \in Names
        PROVE  KeyOf[image[r]] \in job.used \/ RecentNow(image[r]) \/ job'.repointed
    <3>1. KeyOf[image[r]] \in job.used \/ Recent(image[r]) \/ job.repointed
      BY <1>1, <2>6 DEF Known
    <3>2. Recent(image[r]) => RecentNow(image[r])
      BY <1>2, <2>2, <2>3, <2>5, <2>6 DEF Recent, RecentNow
    <3> QED BY <1>2, <3>1, <3>2
  <2>7. ASSUME job.pc \in {"verify", "recheck", "unlink"}
        PROVE  /\ files'[job.name].kind = "image"
               /\ \A v \in Uploads : upload'[v].name # job.name
               /\ \A r \in Rows : image'[r] = job.name => job'.repointed
    <3>1. files[job.name].kind = "image" /\ job.name \in Names /\ job.name # f
      BY <1>1, <1>4, <2>1, <2>7 DEF NobodysFile
    <3> QED BY <1>1, <1>2, <2>2, <2>3, <2>4, <2>7, <3>1 DEF NobodysFile
  <2> QED BY <2>2, <2>6, <2>7 DEF KnownNow
<1>7. ASSUME NEW u \in Uploads, Commit(u)
      PROVE  KnownNow
  <2>1. /\ upload[u] # NoUpload /\ image' = [image EXCEPT ![upload[u].row] = upload[u].name]
        /\ upload' = [upload EXCEPT ![u] = NoUpload] /\ files' = files
    BY <1>7 DEF Commit
  <2>2. /\ files[upload[u].name].kind = "image" /\ upload[u].at <= files[upload[u].name].changed
        /\ upload[u].at <= time /\ time <= upload[u].at + 1
        /\ upload[u].name \in Names /\ upload[u].row \in Rows /\ upload[u].at \in Int
    BY <2>1, UploadFacts DEF UploadsAreFresh
  <2>3. job.pc # "idle" => RecentNow(upload[u].name)
    <3>1. job.cutoff < files[upload[u].name].changed \/ job.pc = "idle"
      BY <1>1, <2>2, JobFacts, Values
    <3> QED BY <1>2, <2>1, <2>2, <3>1 DEF Recent, RecentNow
  <2>4. \A r \in Rows : image'[r] = upload[u].name \/ image'[r] = image[r]
    BY <1>4, <2>1, <2>2
  <2>5. ASSUME NEW r \in HasRead, image'[r] \in Names
        PROVE  KeyOf[image'[r]] \in job.used \/ RecentNow(image'[r]) \/ job'.repointed
    <3>1. CASE image'[r] = upload[u].name
      <4>1. RecentNow(upload[u].name)
        BY <1>3, <2>3
      <4>2. RecentNow(image'[r])
        BY <2>1, <3>1, <4>1 DEF Recent, RecentNow
      <4> QED BY <4>2
    <3>2. CASE image'[r] = image[r]
      <4>1. KeyOf[image[r]] \in job.used \/ Recent(image[r]) \/ job.repointed
        BY <1>1, <2>5, <3>2 DEF Known
      <4> QED BY <1>2, <2>1, <3>2, <4>1 DEF Recent, RecentNow
    <3> QED BY <1>3, <2>4, <3>1, <3>2
  <2>6. \A v \in Uploads : upload'[v] \in {NoUpload, upload[v]}
    BY <1>4, <2>1
  <2>7. ASSUME job.pc \in {"verify", "recheck", "unlink"}
        PROVE  /\ files'[job.name].kind = "image"
               /\ \A v \in Uploads : upload'[v].name # job.name
               /\ \A r \in Rows : image'[r] = job.name => job'.repointed
    <3>1. job.name \in Names /\ upload[u].name # job.name
      BY <1>1, <1>4, <2>7 DEF NobodysFile
    <3> QED BY <1>1, <1>2, <2>1, <2>4, <2>6, <2>7, <3>1, Values DEF NobodysFile
  <2> QED BY <2>5, <2>7 DEF KnownNow
<1>8. ASSUME NEW u \in Uploads, RollBack(u)
      PROVE  KnownNow
  <2>1. upload' = [upload EXCEPT ![u] = NoUpload] /\ files' = files /\ image' = image
    BY <1>8 DEF RollBack
  <2>2. \A v \in Uploads : upload'[v] \in {NoUpload, upload[v]}
    BY <1>4, <2>1
  <2>3. \A r \in HasRead : image[r] \in Names =>
            KeyOf[image[r]] \in job.used \/ RecentNow(image[r]) \/ job'.repointed
    BY <1>1, <1>2, <2>1 DEF Known, Recent, RecentNow
  <2> QED BY <1>1, <1>2, <1>4, <2>1, <2>2, <2>3, Values DEF NobodysFile, KnownNow
<1>9. ASSUME NEW x \in Rows, Clear(x)
      PROVE  KnownNow
  <2>1. image' = [image EXCEPT ![x] = NoImage] /\ files' = files /\ upload' = upload
    BY <1>9 DEF Clear
  <2>2. \A r \in Rows : image'[r] \in Names => image'[r] = image[r]
    BY <1>4, <2>1
  <2>3. ASSUME NEW r \in HasRead, image'[r] \in Names
        PROVE  KeyOf[image'[r]] \in job.used \/ RecentNow(image'[r]) \/ job'.repointed
    <3>1. image'[r] = image[r]
      BY <1>3, <2>2, <2>3
    <3>2. KeyOf[image[r]] \in job.used \/ Recent(image[r]) \/ job.repointed
      BY <1>1, <2>3, <3>1 DEF Known
    <3> QED BY <1>2, <2>1, <3>1, <3>2 DEF Recent, RecentNow
  <2> QED BY <1>1, <1>2, <1>4, <2>1, <2>2, <2>3 DEF NobodysFile, KnownNow
<1>10. ASSUME NEW f \in Names, Overwrite(f)
       PROVE  KnownNow
  <2>1. /\ files' = [files EXCEPT ![f] = [files[f] EXCEPT !.changed = time]]
        /\ image' = image /\ upload' = upload /\ files[f].kind = "image"
    BY <1>10 DEF Overwrite
  <2>2. /\ files'[f].kind = "image" /\ files'[f].changed = time
        /\ \A g \in Names \ {f} : files'[g] = files[g]
    BY <1>4, <2>1 DEF FileState
  <2>3. ASSUME NEW r \in HasRead, image[r] \in Names
        PROVE  KeyOf[image[r]] \in job.used \/ RecentNow(image[r]) \/ job'.repointed
    <3>1. KeyOf[image[r]] \in job.used \/ Recent(image[r]) \/ job.repointed
      BY <1>1, <2>3 DEF Known
    <3>2. Recent(image[r]) => RecentNow(image[r])
      <4>1. CASE image[r] = f
        BY <1>2, <1>3, <1>5, <2>1, <2>2, <4>1 DEF Recent, RecentNow
      <4>2. CASE image[r] # f
        BY <1>2, <2>1, <2>2, <2>3, <4>2 DEF Recent, RecentNow
      <4> QED BY <4>1, <4>2
    <3> QED BY <1>2, <3>1, <3>2
  <2> QED BY <1>1, <1>2, <1>4, <2>1, <2>2, <2>3 DEF NobodysFile, KnownNow
<1>11. ASSUME NEW f \in Names, NEW x \in Rows, Repoint(x, f)
       PROVE  KnownNow
  <2>1. job' = [job EXCEPT !.quiet = FALSE, !.repointed = TRUE] /\ files' = files /\ upload' = upload
    BY <1>11 DEF Repoint
  <2>2. job'.repointed
    BY <2>1, JobFacts DEF JobType
  <2> QED BY <1>1, <2>1, <2>2 DEF NobodysFile, KnownNow
<1> QED BY <1>6, <1>7, <1>8, <1>9, <1>10, <1>11 DEF SiteStep

LEMMA NextKnown ==
  ASSUME MediaTypeOK, UploadsAreFresh, ReadRowsAreKnown, [MediaNext]_mediaVars
  PROVE  ReadRowsAreKnown'
<1>1. CASE Tick
  <2>1. UNCHANGED <<files, image, upload, job>> /\ time' = time + 1 /\ time \in Int /\ job.cutoff \in Int
    BY <1>1, JobFacts DEF Tick
  <2>2. job.pc # "idle" => job.cutoff + MinimumAge <= time'
    BY <2>1, Values DEF ReadRowsAreKnown
  <2> QED BY <2>1, <2>2 DEF ReadRowsAreKnown, HasRead, Recent
<1>2. CASE UNCHANGED mediaVars
  BY <1>2 DEF mediaVars, ReadRowsAreKnown, HasRead, Recent
<1> QED BY <1>1, <1>2, JobKnown, SiteKnown, NextIs

(***************************************************************************)
(* A run that nobody disturbs.                                             *)
(***************************************************************************)
\* What QuietRunIsExact says of a run that goes on undisturbed.
Exact ==
    /\ job.due = job.deleted \cup Orphans(job.cutoff)
    /\ job.used = ReferenceKeys(Named(HasRead))
    /\ job.pc \in {"users", "ads"} => job.todo = Names /\ job.candidates = {}
    /\ job.pc = "done" => job.todo = {}
    /\ job.candidates \subseteq job.due \ job.todo
    /\ job.due \subseteq job.candidates \cup job.todo \cup InHand({"verify", "recheck"})
    /\ InHand({"verify", "recheck", "unlink"}) \subseteq Orphans(job.cutoff) \ job.todo
    /\ job.pc \in {"verify", "recheck"} => files[job.name] = job.seen /\ job.name \notin job.candidates
    /\ job.pc = "unlink" => job.name \in job.candidates
    /\ job.deleted = IF job.delete THEN job.candidates \ InHand({"unlink"}) ELSE {}
    /\ \A f \in job.deleted : files[f] = NoFile

LEMMA ExactParts ==
  QuietRunIsExact <=> /\ job.pc \in {"users", "ads", "aborted"} => job.deleted = {}
                      /\ job.quiet /\ job.pc \notin {"idle", "aborted"} => Exact
  BY DEF QuietRunIsExact, Exact

LEMMA OrphansKept ==
  ASSUME UNCHANGED <<files, image>>, job'.cutoff = job.cutoff
  PROVE  Orphans(job.cutoff)' = Orphans(job.cutoff)
  BY DEF Orphans, Named

LEMMA NamedKept ==
  ASSUME UNCHANGED image, HasRead' = HasRead
  PROVE  ReferenceKeys(Named(HasRead))' = ReferenceKeys(Named(HasRead))
  BY DEF ReferenceKeys, Named

LEMMA InHandIs ==
  ASSUME NEW pcs
  PROVE  /\ job.pc \in pcs => InHand(pcs) = {job.name}
         /\ job.pc \notin pcs => InHand(pcs) = {}
         /\ job'.pc \in pcs => InHand(pcs)' = {job'.name}
         /\ job'.pc \notin pcs => InHand(pcs)' = {}
  BY DEF InHand

LEMMA ReadQuiet ==
  ASSUME MediaTypeOK, QuietRunIsExact, NEW table \in SUBSET Rows, NEW next \in {"ads", "walk"},
         Read(table, next), job.pc \in {"users", "ads"},
         next = "ads" => job.pc = "users" /\ table = UserRows,
         next = "walk" => job.pc = "ads" /\ table = AdRows
  PROVE  QuietRunIsExact'
<1>1. /\ SameRun /\ UNCHANGED <<files, image, upload, time>>
      /\ job'.todo = job.todo /\ job'.candidates = job.candidates /\ job'.deleted = job.deleted
      /\ \/ job'.pc = "aborted"
         \/ job'.pc = next /\ job'.used = job.used \cup ReferenceKeys(Named(table))
  BY ReadEffect
<1>2. job.deleted = {} /\ (job.quiet => Exact)
  BY ExactParts
<1>3. CASE job'.pc = "aborted"
  BY <1>1, <1>2, <1>3 DEF QuietRunIsExact
<1>4. CASE job'.pc = next /\ job'.used = job.used \cup ReferenceKeys(Named(table)) /\ job.quiet
  <2>1. Exact
    BY <1>2, <1>4
  <2>2. Orphans(job.cutoff)' = Orphans(job.cutoff)
    BY <1>1, OrphansKept DEF SameRun
  <2>3. ReferenceKeys(Named(HasRead))' = ReferenceKeys(Named(HasRead)) \cup ReferenceKeys(Named(table))
    <3>1. HasRead' = HasRead \cup table
      BY <1>4, RowsRead, RowsReadNext DEF Rows
    <3> QED BY <1>1, <3>1 DEF ReferenceKeys, Named
  <2>4. /\ InHand({"verify", "recheck"})' = {} /\ InHand({"verify", "recheck", "unlink"})' = {}
        /\ InHand({"unlink"})' = {} /\ InHand({"verify", "recheck"}) = {} /\ InHand({"unlink"}) = {}
    BY <1>4, InHandIs
  <2>5. /\ job.due = Orphans(job.cutoff) /\ job.used = ReferenceKeys(Named(HasRead))
        /\ job.todo = Names /\ job.candidates = {}
    BY <1>2, <2>1 DEF Exact
  <2>6. job'.due = job.due /\ job'.delete = job.delete /\ job'.cutoff = job.cutoff /\ job.due \subseteq Names
    BY <1>1, JobFacts DEF SameRun
  <2>7. Exact'
    BY <1>1, <1>2, <1>4, <2>2, <2>3, <2>4, <2>5, <2>6 DEF Exact
  <2> QED BY <1>1, <1>2, <1>4, <2>7 DEF QuietRunIsExact, Exact
<1>5. CASE job'.pc = next /\ ~ job.quiet
  BY <1>1, <1>2, <1>5 DEF QuietRunIsExact, SameRun
<1> QED BY <1>1, <1>3, <1>4, <1>5

LEMMA LookQuiet ==
  ASSUME MediaTypeOK, QuietRunIsExact, Look
  PROVE  QuietRunIsExact'
<1>1. /\ job.pc = "walk" /\ UNCHANGED <<files, image, upload, time>> /\ SameRun
      /\ job'.used = job.used /\ job'.candidates = job.candidates /\ job'.deleted = job.deleted
  BY LookEffect
<1>2. PICK f \in job.todo :
          /\ f \in Names /\ job'.todo = job.todo \ {f}
          /\ LET examined == /\ KeyOf[f] \notin job.used
                             /\ files[f].kind = "image" /\ files[f].changed <= job.cutoff
             IN  \/ examined /\ job'.pc = "verify" /\ job'.name = f /\ job'.seen = files[f]
                 \/ ~ examined /\ job'.pc = "walk"
  BY LookEffect
<1>3. job'.pc \in {"walk", "verify"}
  BY <1>2
<1>4. CASE ~ job.quiet
  BY <1>1, <1>3, <1>4 DEF QuietRunIsExact, SameRun
<1>5. CASE job.quiet
  <2>1. Exact
    BY <1>1, <1>5, ExactParts
  <2>2. Orphans(job.cutoff)' = Orphans(job.cutoff)
    BY <1>1, OrphansKept DEF SameRun
  <2>3. HasRead = Rows /\ HasRead' = Rows
    BY <1>1, <1>3, RowsRead, RowsReadNext
  <2>4. ReferenceKeys(Named(HasRead))' = ReferenceKeys(Named(HasRead))
    BY <1>1, <2>3, NamedKept
  <2>5. f \in Orphans(job.cutoff) <=> /\ KeyOf[f] \notin job.used
                                      /\ files[f].kind = "image" /\ files[f].changed <= job.cutoff
    <3>1. KeyOf[f] \notin job.used <=> \A n \in Named(Rows) : KeyOf[n] # KeyOf[f]
      BY <2>1, <2>3 DEF Exact, ReferenceKeys
    <3> QED BY <1>2, <3>1 DEF Orphans
  <2>6. job'.due = job.due /\ job'.delete = job.delete /\ job'.cutoff = job.cutoff
    BY <1>1 DEF SameRun
  <2>7. /\ InHand({"verify", "recheck"}) = {} /\ InHand({"unlink"}) = {} /\ InHand({"unlink"})' = {}
        /\ InHand({"verify", "recheck"})' = InHand({"verify", "recheck", "unlink"})'
    BY <1>1, <1>3, InHandIs DEF InHand
  <2>8. f \notin job.candidates
    BY <2>1 DEF Exact
  <2>9. CASE f \in Orphans(job.cutoff)
    <3>1. job'.pc = "verify" /\ job'.name = f /\ job'.seen = files[f]
      BY <1>2, <2>5, <2>9
    <3>2. InHand({"verify", "recheck"})' = {f}
      BY <3>1, InHandIs
    <3>3. Exact'
      BY <1>1, <1>2, <2>1, <2>2, <2>4, <2>6, <2>7, <2>8, <2>9, <3>1, <3>2 DEF Exact
    <3> QED BY <1>3, <3>3 DEF QuietRunIsExact, Exact
  <2>10. CASE f \notin Orphans(job.cutoff)
    <3>1. job'.pc = "walk"
      BY <1>2, <2>5, <2>10
    <3>2. InHand({"verify", "recheck"})' = {}
      BY <3>1, InHandIs
    <3>3. f \notin job.due
      <4>1. \A g \in job.deleted : g \in job.candidates
        BY <2>1, <2>7 DEF Exact
      <4> QED BY <2>1, <2>8, <2>10, <4>1 DEF Exact
    <3>4. Exact'
      BY <1>1, <1>2, <2>1, <2>2, <2>4, <2>6, <2>7, <2>8, <3>1, <3>2, <3>3 DEF Exact
    <3> QED BY <1>3, <3>4 DEF QuietRunIsExact, Exact
  <2> QED BY <2>9, <2>10
<1> QED BY <1>4, <1>5

LEMMA CheckQuiet ==
  ASSUME MediaTypeOK, QuietRunIsExact, Verify \/ Recheck
  PROVE  QuietRunIsExact'
<1>1. /\ job.pc \in {"verify", "recheck"} /\ job.name \in Names
      /\ UNCHANGED <<files, image, upload, time>> /\ SameRun
      /\ job'.used = job.used /\ job'.todo = job.todo /\ job'.deleted = job.deleted
      /\ \/ ~ Same /\ job'.pc = "walk" /\ job'.candidates = job.candidates
         \/ /\ Same /\ job.pc = "verify" /\ job'.pc = "recheck" /\ job'.name = job.name
            /\ job'.seen = job.seen /\ job'.candidates = job.candidates
         \/ /\ Same /\ job.pc = "recheck" /\ job'.pc = (IF job.delete THEN "unlink" ELSE "walk")
            /\ job'.name = job.name /\ job'.candidates = job.candidates \cup {job.name}
  BY CheckEffect
<1>2. job'.pc \in {"walk", "recheck", "unlink"}
  BY <1>1
<1>3. CASE ~ job.quiet
  BY <1>1, <1>2, <1>3 DEF QuietRunIsExact, SameRun
<1>4. CASE job.quiet
  <2>1. Exact
    BY <1>1, <1>4, ExactParts
  <2>2. Same
    BY <1>1, <2>1 DEF Exact, Same
  <2>3. Orphans(job.cutoff)' = Orphans(job.cutoff)
    BY <1>1, OrphansKept DEF SameRun
  <2>4. ReferenceKeys(Named(HasRead))' = ReferenceKeys(Named(HasRead))
    BY <1>1, <1>2, NamedKept, RowsRead, RowsReadNext
  <2>5. job'.due = job.due /\ job'.delete = job.delete /\ job'.cutoff = job.cutoff
    BY <1>1 DEF SameRun
  <2>6. /\ InHand({"verify", "recheck"}) = {job.name} /\ InHand({"unlink"}) = {}
        /\ InHand({"verify", "recheck", "unlink"}) = {job.name}
    BY <1>1, InHandIs
  <2>7. CASE job.pc = "verify" /\ job'.pc = "recheck"
    <3>1. /\ job'.name = job.name /\ job'.seen = job.seen /\ job'.candidates = job.candidates
      BY <1>1, <2>2, <2>7
    <3>2. /\ InHand({"verify", "recheck"})' = {job.name} /\ InHand({"unlink"})' = {}
          /\ InHand({"verify", "recheck", "unlink"})' = {job.name}
      BY <2>7, <3>1, InHandIs
    <3>3. Exact'
      BY <1>1, <2>1, <2>3, <2>4, <2>5, <2>6, <2>7, <3>1, <3>2 DEF Exact
    <3> QED BY <1>2, <3>3 DEF QuietRunIsExact, Exact
  <2>8. CASE job.pc = "recheck" /\ ~ job.delete
    <3>1. job'.pc = "walk" /\ job'.candidates = job.candidates \cup {job.name}
      BY <1>1, <2>2, <2>8
    <3>2. /\ InHand({"verify", "recheck"})' = {} /\ InHand({"unlink"})' = {}
          /\ InHand({"verify", "recheck", "unlink"})' = {}
      BY <3>1, InHandIs
    <3>3. Exact'
      BY <1>1, <2>1, <2>3, <2>4, <2>5, <2>6, <2>8, <3>1, <3>2 DEF Exact
    <3> QED BY <1>2, <3>3 DEF QuietRunIsExact, Exact
  <2>9. CASE job.pc = "recheck" /\ job.delete
    <3>1. job'.pc = "unlink" /\ job'.candidates = job.candidates \cup {job.name} /\ job'.name = job.name
      BY <1>1, <2>2, <2>9
    <3>2. /\ InHand({"verify", "recheck"})' = {} /\ InHand({"unlink"})' = {job.name}
          /\ InHand({"verify", "recheck", "unlink"})' = {job.name}
      BY <3>1, InHandIs
    <3>3. Exact'
      BY <1>1, <2>1, <2>3, <2>4, <2>5, <2>6, <2>9, <3>1, <3>2 DEF Exact
    <3> QED BY <1>2, <3>3 DEF QuietRunIsExact, Exact
  <2>10. job.pc = "verify" => job'.pc = "recheck"
    BY <1>1, <2>2
  <2> QED BY <1>1, <2>7, <2>8, <2>9, <2>10
<1> QED BY <1>3, <1>4

LEMMA UnlinkQuiet ==
  ASSUME MediaTypeOK, QuietRunIsExact, Unlink
  PROVE  QuietRunIsExact'
<1>1. /\ job.pc = "unlink" /\ job.name \in Names /\ job.delete /\ UNCHANGED <<image, upload, time>>
      /\ files'[job.name] = NoFile
      /\ \A f \in Names \ {job.name} : files'[f] = files[f]
      /\ SameRun /\ job'.pc = "walk"
      /\ job'.used = job.used /\ job'.todo = job.todo /\ job'.candidates = job.candidates
      /\ job'.deleted = job.deleted \cup {job.name}
  BY UnlinkEffect
<1>2. CASE ~ job.quiet
  BY <1>1, <1>2 DEF QuietRunIsExact, SameRun
<1>3. CASE job.quiet
  <2>1. Exact
    BY <1>1, <1>3, ExactParts
  <2>2. Orphans(job.cutoff)' = Orphans(job.cutoff) \ {job.name}
    <3>1. NoFile.kind # "image"
      BY Values
    <3>2. Named(Rows)' = Named(Rows) /\ job'.cutoff = job.cutoff
      BY <1>1 DEF Named, Rows, SameRun
    <3> QED BY <1>1, <3>1, <3>2 DEF Orphans
  <2>3. ReferenceKeys(Named(HasRead))' = ReferenceKeys(Named(HasRead))
    BY <1>1, NamedKept, RowsRead, RowsReadNext
  <2>4. job'.due = job.due /\ job'.delete = job.delete /\ job'.cutoff = job.cutoff /\ job.deleted \subseteq Names
    BY <1>1, JobFacts DEF SameRun
  <2>5. /\ InHand({"verify", "recheck"}) = {} /\ InHand({"unlink"}) = {job.name}
        /\ InHand({"verify", "recheck", "unlink"}) = {job.name}
        /\ InHand({"verify", "recheck"})' = {} /\ InHand({"unlink"})' = {}
        /\ InHand({"verify", "recheck", "unlink"})' = {}
    BY <1>1, InHandIs
  <2>6. Exact'
    BY <1>1, <2>1, <2>2, <2>3, <2>4, <2>5 DEF Exact
  <2> QED BY <1>1, <2>6 DEF QuietRunIsExact, Exact
<1> QED BY <1>2, <1>3

LEMMA FinishQuiet ==
  ASSUME MediaTypeOK, QuietRunIsExact, Finish
  PROVE  QuietRunIsExact'
<1>1. /\ job.pc = "walk" /\ job.todo = {} /\ UNCHANGED <<files, image, upload, time>>
      /\ SameRun /\ job'.pc = "done"
      /\ job'.used = job.used /\ job'.todo = job.todo /\ job'.candidates = job.candidates
      /\ job'.deleted = job.deleted
  BY FinishEffect
<1>2. CASE ~ job.quiet
  BY <1>1, <1>2 DEF QuietRunIsExact, SameRun
<1>3. CASE job.quiet
  <2>1. Exact
    BY <1>1, <1>3, ExactParts
  <2>2. Orphans(job.cutoff)' = Orphans(job.cutoff)
    BY <1>1, OrphansKept DEF SameRun
  <2>3. ReferenceKeys(Named(HasRead))' = ReferenceKeys(Named(HasRead))
    BY <1>1, NamedKept, RowsRead, RowsReadNext
  <2>4. job'.due = job.due /\ job'.delete = job.delete /\ job'.cutoff = job.cutoff
    BY <1>1 DEF SameRun
  <2>5. /\ InHand({"verify", "recheck"}) = {} /\ InHand({"unlink"}) = {}
        /\ InHand({"verify", "recheck", "unlink"}) = {}
        /\ InHand({"verify", "recheck"})' = {} /\ InHand({"unlink"})' = {}
        /\ InHand({"verify", "recheck", "unlink"})' = {}
    BY <1>1, InHandIs
  <2>6. Exact'
    BY <1>1, <2>1, <2>2, <2>3, <2>4, <2>5 DEF Exact
  <2> QED BY <1>1, <2>6 DEF QuietRunIsExact, Exact
<1> QED BY <1>2, <1>3

LEMMA BeginQuiet ==
  ASSUME MediaTypeOK, Begin
  PROVE  QuietRunIsExact'
<1>1. /\ UNCHANGED <<files, image, upload, time>>
      /\ job'.pc = "users" /\ job'.due = Orphans(job'.cutoff) /\ job'.used = {} /\ job'.todo = Names
      /\ job'.candidates = {} /\ job'.deleted = {}
  BY BeginEffect
<1>2. Orphans(job.cutoff)' = Orphans(job'.cutoff)
  BY <1>1 DEF Orphans, Named
<1>3. ReferenceKeys(Named(HasRead))' = {}
  BY <1>1, RowsReadNext DEF ReferenceKeys, Named
<1>4. /\ InHand({"verify", "recheck"})' = {} /\ InHand({"unlink"})' = {}
      /\ InHand({"verify", "recheck", "unlink"})' = {}
  BY <1>1, InHandIs
<1>5. Orphans(job'.cutoff) \subseteq Names
  BY DEF Orphans
<1>6. Exact'
  BY <1>1, <1>2, <1>3, <1>4, <1>5 DEF Exact
<1> QED BY <1>1, <1>6 DEF QuietRunIsExact, Exact

LEMMA NextQuiet ==
  ASSUME MediaTypeOK, QuietRunIsExact, [MediaNext]_mediaVars
  PROVE  QuietRunIsExact'
<1>1. CASE SiteStep
  <2>1. job'.quiet = FALSE /\ job'.pc = job.pc /\ job'.deleted = job.deleted
    BY <1>1, SiteEffect
  <2> QED BY <2>1 DEF QuietRunIsExact
<1>2. CASE UNCHANGED <<files, image, upload, job>>
  <2>1. Orphans(job.cutoff)' = Orphans(job.cutoff)
    BY <1>2, OrphansKept
  <2>2. ReferenceKeys(Named(HasRead))' = ReferenceKeys(Named(HasRead))
    BY <1>2 DEF ReferenceKeys, Named, HasRead, Rows
  <2>3. /\ InHand({"verify", "recheck"})' = InHand({"verify", "recheck"})
        /\ InHand({"unlink"})' = InHand({"unlink"})
        /\ InHand({"verify", "recheck", "unlink"})' = InHand({"verify", "recheck", "unlink"})
    BY <1>2 DEF InHand
  <2> QED BY <1>2, <2>1, <2>2, <2>3 DEF QuietRunIsExact
<1>3. CASE ReadUsers
  <2>1. Read(UserRows, "ads") /\ job.pc = "users" /\ UserRows \in SUBSET Rows
    BY <1>3 DEF ReadUsers, Rows
  <2> QED BY <2>1, ReadQuiet
<1>4. CASE ReadAds
  <2>1. Read(AdRows, "walk") /\ job.pc = "ads" /\ AdRows \in SUBSET Rows
    BY <1>4 DEF ReadAds, Rows
  <2> QED BY <2>1, ReadQuiet
<1>5. CASE Leave
  <2>1. job'.pc = "idle"
    BY <1>5, NoJobFields DEF Leave
  <2> QED BY <2>1 DEF QuietRunIsExact
<1>6. CASE Tick \/ UNCHANGED mediaVars
  BY <1>2, <1>6 DEF Tick, mediaVars
<1>7. CASE Begin \/ Look \/ Verify \/ Recheck \/ Unlink \/ Finish
  BY <1>7, BeginQuiet, LookQuiet, CheckQuiet, UnlinkQuiet, FinishQuiet
<1> QED BY <1>1, <1>3, <1>4, <1>5, <1>6, <1>7, NextIs DEF JobStep

(***************************************************************************)
(* The references a run has read.                                          *)
(***************************************************************************)
LEMMA PlainKept ==
  ASSUME UNCHANGED <<files, image>>, HasRead' \subseteq HasRead, Plain(HasRead)
  PROVE  Plain(HasRead)'
  BY DEF Plain

LEMMA NextPlain ==
  ASSUME MediaTypeOK, ReadRowsArePlain, [MediaNext]_mediaVars
  PROVE  ReadRowsArePlain'
<1>1. CASE SiteStep
  <2>1. job'.quiet = FALSE
    BY <1>1, SiteEffect
  <2> QED BY <2>1 DEF ReadRowsArePlain
<1>2. CASE UNCHANGED <<files, image, upload, job>>
  BY <1>2 DEF ReadRowsArePlain, Plain, HasRead
<1>3. ASSUME NEW table \in SUBSET Rows, NEW next \in {"ads", "walk"}, Read(table, next), job.pc \in {"users", "ads"},
             next = "ads" => job.pc = "users" /\ table = UserRows,
             next = "walk" => job.pc = "ads" /\ table = AdRows
      PROVE  ReadRowsArePlain'
  <2>1. /\ SameRun /\ UNCHANGED <<files, image, upload, time>>
        /\ job'.pc = "aborted" \/ (job'.pc = next /\ Plain(table))
    BY <1>3, ReadEffect
  <2>2. CASE job'.pc = "aborted"
    BY <2>2, RowsReadNext DEF ReadRowsArePlain, Plain
  <2>3. CASE job'.pc = next /\ Plain(table)
    <3>1. HasRead' = HasRead \cup table
      BY <1>3, <2>3, RowsRead, RowsReadNext DEF Rows
    <3>2. job'.quiet => Plain(HasRead)
      BY <2>1 DEF SameRun, ReadRowsArePlain
    <3> QED BY <2>1, <2>3, <3>1, <3>2 DEF ReadRowsArePlain, Plain
  <2> QED BY <2>1, <2>2, <2>3
<1>4. CASE ReadUsers
  <2>1. Read(UserRows, "ads") /\ job.pc = "users" /\ UserRows \in SUBSET Rows
    BY <1>4 DEF ReadUsers, Rows
  <2> QED BY <1>3, <2>1
<1>5. CASE ReadAds
  <2>1. Read(AdRows, "walk") /\ job.pc = "ads" /\ AdRows \in SUBSET Rows
    BY <1>5 DEF ReadAds, Rows
  <2> QED BY <1>3, <2>1
<1>6. CASE Begin \/ Leave
  <2>1. job'.pc \in {"users", "idle"}
    BY <1>6, BeginEffect, NoJobFields DEF Leave
  <2> QED BY <2>1, RowsReadNext DEF ReadRowsArePlain, Plain
<1>7. CASE Look \/ Verify \/ Recheck \/ Finish
  <2>1. /\ job.pc \in {"walk", "verify", "recheck"} /\ UNCHANGED <<files, image, upload, time>> /\ SameRun
        /\ job'.pc \in {"walk", "verify", "recheck", "unlink", "done"}
    <3>1. CASE Look
      BY <3>1, LookEffect
    <3>2. CASE Verify \/ Recheck
      BY <3>2, CheckEffect
    <3>3. CASE Finish
      BY <3>3, FinishEffect
    <3> QED BY <1>7, <3>1, <3>2, <3>3
  <2>2. HasRead' \subseteq HasRead
    BY <2>1, RowsRead, RowsReadNext DEF Rows
  <2> QED BY <2>1, <2>2, PlainKept DEF ReadRowsArePlain, SameRun
<1>8. CASE Unlink
  <2>1. /\ job.pc = "unlink" /\ job.name \in Names /\ UNCHANGED <<image, upload, time>> /\ SameRun
        /\ files'[job.name] = NoFile /\ \A f \in Names \ {job.name} : files'[f] = files[f]
        /\ job'.pc = "walk"
    BY <1>8, UnlinkEffect
  <2>2. HasRead = Rows /\ HasRead' = Rows
    BY <2>1, RowsRead, RowsReadNext
  <2>3. NoFile.kind # "link"
    BY DEF NoFile, File
  <2>4. job'.quiet => Plain(Rows)
    BY <2>1, <2>2 DEF SameRun, ReadRowsArePlain
  <2>5. job'.quiet => \A r \in Rows : image'[r] # Outside /\ (image'[r] \in Names => files'[image'[r]].kind # "link")
    BY <2>1, <2>3, <2>4 DEF Plain
  <2> QED BY <2>2, <2>5 DEF ReadRowsArePlain, Plain
<1>9. CASE Tick \/ UNCHANGED mediaVars
  BY <1>2, <1>9 DEF Tick, mediaVars
<1> QED BY <1>1, <1>4, <1>5, <1>6, <1>7, <1>8, <1>9, NextIs DEF JobStep

(***************************************************************************)
(* The theorems.                                                           *)
(***************************************************************************)
LEMMA MediaInitInductive == MediaInit => MediaInductive
<1> SUFFICES ASSUME MediaInit PROVE MediaInductive
  OBVIOUS
<1>1. job = NoJob /\ \A u \in Uploads : upload[u] = NoUpload
  BY DEF MediaInit
<1>2. UploadsAreFresh
  BY <1>1 DEF UploadsAreFresh
<1>3. ReadRowsAreKnown
  BY <1>1, NoJobFields, RowsRead DEF ReadRowsAreKnown
<1>4. QuietRunIsExact
  BY <1>1, NoJobFields DEF QuietRunIsExact
<1>5. ReadRowsArePlain
  BY <1>1, NoJobFields, RowsRead DEF ReadRowsArePlain, Plain
<1> QED BY <1>2, <1>3, <1>4, <1>5, MediaInitTypes DEF MediaInductive

LEMMA MediaNextInductive == MediaInductive /\ [MediaNext]_mediaVars => MediaInductive'
  BY MediaNextTypes, NextFresh, NextKnown, NextPlain, NextQuiet DEF MediaInductive

\* The inductive invariant: types, young uploads, what the command has read and
\* what it is about to remove, and the account of a run that nobody disturbs.
THEOREM MediaAlwaysInductive == MediaSpec => []MediaInductive
  BY MediaInitInductive, MediaNextInductive, PTL DEF MediaSpec

LEMMA StepSurvives ==
  MediaInductive /\ [MediaNext]_mediaVars =>
      [files' # files => \A f \in Names : files[f].kind # "none" /\ files'[f].kind = "none" =>
           ~ Wanted(f) \/ job.repointed]_mediaVars
<1> SUFFICES ASSUME MediaInductive, MediaNext, NEW f \in Names, files[f].kind # "none", files'[f].kind = "none"
             PROVE  ~ Wanted(f) \/ job.repointed
  BY DEF MediaInductive
<1>1. MediaTypeOK /\ ReadRowsAreKnown
  BY DEF MediaInductive
<1>2. CASE Unlink
  <2>1. f = job.name /\ job.pc = "unlink"
    BY <1>1, <1>2, UnlinkEffect
  <2> QED BY <1>1, <2>1 DEF ReadRowsAreKnown, Wanted
<1>3. ASSUME NEW u \in Uploads, Store(u) PROVE FALSE
  <2>1. PICK g \in Names : files' = [files EXCEPT ![g] = File("image", time)]
    BY <1>3 DEF Store
  <2> QED BY <1>1, <2>1, Values DEF MediaTypeOK
<1>4. ASSUME NEW g \in Names, Overwrite(g) PROVE FALSE
  <2>1. files' = [files EXCEPT ![g].changed = time] /\ files[g] \in FileState
    BY <1>1, <1>4 DEF Overwrite, MediaTypeOK
  <2> QED BY <1>1, <2>1 DEF MediaTypeOK, FileState
<1>5. CASE (JobStep /\ ~ Unlink) \/ Tick
  BY <1>5, JobStepKeeps DEF Tick
<1>6. ASSUME NEW u \in Uploads, Commit(u) \/ RollBack(u) PROVE FALSE
  BY <1>6 DEF Commit, RollBack
<1>7. ASSUME NEW r \in Rows, Clear(r) \/ \E g \in Names : Repoint(r, g) PROVE FALSE
  BY <1>7 DEF Clear, Repoint
<1> QED BY <1>2, <1>3, <1>4, <1>5, <1>6, <1>7, NextIs DEF SiteStep

\* No file is removed that a row names or a request has stored and is about to
\* name, unless a row has been given a file of old during the run.
THEOREM ImagesSurvive == MediaSpec => UsedImagesSurvive
  BY MediaAlwaysInductive, StepSurvives, PTL DEF MediaSpec, UsedImagesSurvive

LEMMA InductiveExact == MediaInductive => OrphansAreFound
<1> SUFFICES ASSUME MediaTypeOK, ReadRowsArePlain, QuietRunIsExact PROVE OrphansAreFound
  BY DEF MediaInductive
<1>0. job.pc \in {"unlink", "done"} /\ job.quiet => Plain(Rows)
  BY RowsRead DEF ReadRowsArePlain
<1>1. CASE job.pc = "done" /\ job.quiet
  <2>1. Exact
    BY <1>1, ExactParts
  <2>2. InHand({"verify", "recheck"}) = {} /\ InHand({"unlink"}) = {}
    BY <1>1, InHandIs
  <2>3. job.candidates = job.due
    BY <1>1, <2>1, <2>2 DEF Exact
  <2> QED BY <1>0, <1>1, <2>1, <2>2, <2>3 DEF Exact, OrphansAreFound
<1>2. CASE ~ (job.pc = "done" /\ job.quiet)
  BY <1>0, <1>2, ExactParts DEF OrphansAreFound
<1> QED BY <1>1, <1>2

\* With the writers stopped a run reports the old images no row names, all of them
\* and no other, and removes exactly those if it was asked to; no run gets that far while
\* a row names something outside or a link.
THEOREM RunsAreExact == MediaSpec => []OrphansAreFound
  BY MediaAlwaysInductive, InductiveExact, PTL

(***************************************************************************)
(* Catalogue: lists and orders.                                            *)
(***************************************************************************)
Columns == {"id", "created_at", "price", "submitted"}

\* The fields of a reader.
LEMMA ReaderFields ==
  ASSUME NEW r \in Reader
  PROVE  /\ r.pc \in {"idle", "reading", "counted", "done"} /\ r.role \in {"guest", "user", "admin"}
         /\ r.list \in {"api", "catalogue", "account", "queue", "discussions"}
         /\ r.order \in Orders /\ r.least \in {0, 1} /\ r.page \in Nat \ {0}
         /\ r.seen \in SUBSET Entries /\ r.kept \in SUBSET Entries
         /\ r.entered \in BOOLEAN /\ r.left \in BOOLEAN /\ r.twice \in BOOLEAN
         /\ r.count \in Nat /\ r.late \in Nat
  BY DEF Reader

\* A list holds entries.
LEMMA ListedEntries ==
  ASSUME NEW r \in Reader, NEW e
  PROVE  Listed(r, e) \subseteq Entries
  BY ReaderFields DEF Listed, ApiList, CatalogueList, AccountList, ReviewQueue, DiscussionList, VisibleTo

\* Whether it holds one depends on the row of that one.
LEMMA ListedByRow ==
  ASSUME NEW r \in Reader, NEW e, NEW f, NEW i \in Entries, e[i] = f[i]
  PROVE  i \in Listed(r, e) <=> i \in Listed(r, f)
  BY ReaderFields DEF Listed, ApiList, CatalogueList, AccountList, ReviewQueue, DiscussionList, VisibleTo

\* And on nothing a reader does once the list is open.
LEMMA SameList ==
  ASSUME NEW r, NEW q, q.list = r.list, q.role = r.role, q.least = r.least, NEW e
  PROVE  Listed(q, e) = Listed(r, e)
  BY DEF Listed

\* The orders have two or three columns, and the last of them is the primary key.
LEMMA OrderFacts ==
  ASSUME NEW o \in Orders
  PROVE  /\ Len(o) \in {2, 3} /\ DOMAIN o = 1..Len(o)
         /\ \A k \in 1..Len(o) : o[k].by \in Columns /\ o[k].up \in BOOLEAN
         /\ o[Len(o)].by = "id"
<1>1. Newest = <<Desc("created_at"), Desc("id")>>
  BY DEF Newest
<1>2. ASSUME NEW c \in Columns
      PROVE  /\ Asc(c).by = c /\ Asc(c).up \in BOOLEAN
             /\ Desc(c).by = c /\ Desc(c).up \in BOOLEAN
  BY DEF Asc, Desc
<1>3. CASE o = <<Desc("created_at"), Desc("id")>>
  BY <1>2, <1>3 DEF Columns
<1>4. CASE o = <<Desc("submitted"), Desc("created_at"), Desc("id")>>
  BY <1>2, <1>4 DEF Columns
<1>5. CASE o = <<Asc("price"), Asc("id")>>
  BY <1>2, <1>5 DEF Columns
<1>6. CASE o = <<Desc("price"), Desc("id")>>
  BY <1>2, <1>6 DEF Columns
<1> QED BY <1>1, <1>3, <1>4, <1>5, <1>6 DEF Orders

\* The columns hold numbers.
LEMMA ValueType ==
  ASSUME NEW e \in [Entries -> Listing], NEW i \in Entries, NEW c \in Columns
  PROVE  Value(c, i, e) \in Int
<1>1. i \in Int /\ CreatedAt[i] \in Int
  BY CatalogueAssumption
<1>2. e[i].price \in Int /\ e[i].submitted \in Int
  BY DEF Listing
<1> QED BY <1>1, <1>2 DEF Value, Columns

\* They are those of the row.
LEMMA ValueByRow ==
  ASSUME NEW e, NEW f, NEW i, e[i] = f[i], NEW c
  PROVE  Value(c, i, e) = Value(c, i, f)
  BY DEF Value

\* Nothing comes before itself.
LEMMA Irreflexive ==
  ASSUME NEW o \in Orders, NEW e \in [Entries -> Listing], NEW i \in Entries
  PROVE  ~ Before(i, i, o, e)
<1>1. ASSUME NEW k \in DOMAIN o
      PROVE  Value(o[k].by, i, e) \in Int
  <2>1. o[k].by \in Columns
    BY OrderFacts
  <2> QED BY <2>1, ValueType
<1>2. ASSUME NEW k \in DOMAIN o
      PROVE  ~ (IF o[k].up THEN Value(o[k].by, i, e) < Value(o[k].by, i, e)
                ELSE Value(o[k].by, i, e) > Value(o[k].by, i, e))
  BY <1>1
<1> QED BY <1>2 DEF Before

\* Of two entries one comes before the other: the primary key decides at last.
LEMMA Total ==
  ASSUME NEW o \in Orders, NEW e \in [Entries -> Listing], NEW i \in Entries, NEW j \in Entries,
         ~ Before(i, j, o, e), ~ Before(j, i, o, e)
  PROVE  i = j
<1> DEFINE x(k) == Value(o[k].by, i, e)
           y(k) == Value(o[k].by, j, e)
<1>1. /\ Len(o) \in {2, 3} /\ DOMAIN o = 1..Len(o) /\ o[Len(o)].by = "id"
  BY OrderFacts
<1>2. ASSUME NEW k \in DOMAIN o PROVE x(k) \in Int /\ y(k) \in Int
  <2>1. o[k].by \in Columns
    BY OrderFacts
  <2> QED BY <2>1, ValueType
<1>3. ASSUME NEW k \in DOMAIN o, \A h \in 1..(k - 1) : x(h) = y(h) PROVE x(k) = y(k)
  <2>1. ~ (IF o[k].up THEN x(k) < y(k) ELSE x(k) > y(k))
    BY <1>3 DEF Before
  <2>2. \A h \in 1..(k - 1) : y(h) = x(h)
    BY <1>3
  <2>3. ~ (IF o[k].up THEN y(k) < x(k) ELSE y(k) > x(k))
    BY <2>2 DEF Before
  <2>4. x(k) \in Int /\ y(k) \in Int
    BY <1>2
  <2> HIDE DEF x, y
  <2> QED BY <2>1, <2>3, <2>4
<1> HIDE DEF x, y
<1>4. x(1) = y(1)
  <2>1. 1 \in DOMAIN o /\ \A h \in 1..(1 - 1) : x(h) = y(h)
    BY <1>1
  <2> QED BY <2>1, <1>3
<1>5. x(2) = y(2)
  <2>1. 2 \in DOMAIN o /\ \A h \in 1..(2 - 1) : h = 1
    BY <1>1
  <2> QED BY <2>1, <1>3, <1>4
<1>6. Len(o) = 3 => x(3) = y(3)
  <2>1. Len(o) = 3 => 3 \in DOMAIN o
    BY <1>1
  <2>2. \A h \in 1..(3 - 1) : h = 1 \/ h = 2
    OBVIOUS
  <2> QED BY <2>1, <2>2, <1>3, <1>4, <1>5
<1>7. x(Len(o)) = y(Len(o))
  BY <1>1, <1>5, <1>6
<1>8. x(Len(o)) = i /\ y(Len(o)) = j
  BY <1>1 DEF x, y, Value
<1> QED BY <1>7, <1>8

\* The order of two entries depends on their columns.
LEMMA BeforeByValues ==
  ASSUME NEW o, NEW e, NEW f, NEW i, NEW j,
         \A k \in DOMAIN o : /\ Value(o[k].by, i, e) = Value(o[k].by, i, f)
                             /\ Value(o[k].by, j, e) = Value(o[k].by, j, f),
         o \in Orders, Before(i, j, o, e)
  PROVE  Before(i, j, o, f)
<1>1. PICK k \in DOMAIN o :
          /\ IF o[k].up THEN Value(o[k].by, i, e) < Value(o[k].by, j, e)
             ELSE Value(o[k].by, i, e) > Value(o[k].by, j, e)
          /\ \A h \in 1..(k - 1) : Value(o[h].by, i, e) = Value(o[h].by, j, e)
  BY DEF Before
<1>2. \A h \in 1..(k - 1) : h \in DOMAIN o
  BY <1>1, OrderFacts
<1>3. /\ IF o[k].up THEN Value(o[k].by, i, f) < Value(o[k].by, j, f)
         ELSE Value(o[k].by, i, f) > Value(o[k].by, j, f)
      /\ \A h \in 1..(k - 1) : Value(o[h].by, i, f) = Value(o[h].by, j, f)
  BY <1>1, <1>2
<1> QED BY <1>3 DEF Before

(***************************************************************************)
(* An answer puts each entry behind as many as come before it.             *)
(***************************************************************************)
Earlier(i, S, o, e) == {j \in S : Before(j, i, o, e)}

LEMMA Positions ==
  ASSUME NEW o \in Orders, NEW e \in [Entries -> Listing], NEW S \in SUBSET Entries,
         NEW s \in Answers(S, o, e)
  PROVE  /\ Len(s) \in Nat /\ Len(s) = Cardinality(S) /\ DOMAIN s = 1..Len(s)
         /\ \A p \in DOMAIN s : s[p] \in S /\ Cardinality(Earlier(s[p], S, o, e)) = p - 1
         /\ \A i \in S : \E p \in DOMAIN s : s[p] = i
<1> DEFINE n == Cardinality(S)
<1>1. IsFiniteSet(S)
  BY CatalogueAssumption, FS_Subset
<1>2. n \in Nat
  BY <1>1, FS_CardinalityType
<1>3. /\ s \in [1..n -> S]
      /\ \A p, q \in 1..n : p < q => s[p] # s[q] /\ ~ Before(s[q], s[p], o, e)
  BY DEF Answers
<1> HIDE DEF n
<1>d. \A p, q \in 1..n : p # q => s[p] # s[q]
  <2>1. \A p, q \in 1..n : p # q => p < q \/ q < p
    BY <1>2
  <2> QED BY <2>1, <1>3
<1>4. DOMAIN s = 1..n /\ Len(s) = n
  BY <1>2, <1>3
<1>5. s \in Surjection(1..n, S)
  <2>1. s \in Injection(1..n, S)
    BY <1>3, <1>d DEF Injection, IsInjective
  <2>2. IsFiniteSet(1..n) /\ Cardinality(1..n) = n
    <3>1. Cardinality(1..n) = IF 1 > n THEN 0 ELSE n - 1 + 1
      BY <1>2, FS_Interval
    <3> QED BY <3>1, <1>2, FS_Interval
  <2> QED BY <2>1, <2>2, <1>1, FS_Injection DEF n
<1>6. \A i \in S : \E p \in 1..n : s[p] = i
  BY <1>5 DEF Surjection
<1>7. ASSUME NEW p \in 1..n
      PROVE  Cardinality(Earlier(s[p], S, o, e)) = p - 1
  <2> DEFINE B == {j \in S : Before(j, s[p], o, e)}
             g == [q \in 1..(p - 1) |-> s[q]]
  <2>1. ASSUME NEW q \in 1..n PROVE s[q] \in B <=> q < p
    <3>1. s[p] \in Entries /\ s[q] \in Entries
      BY <1>3
    <3>2. CASE q < p
      <4>1. ~ Before(s[p], s[q], o, e) /\ s[p] # s[q]
        BY <3>2, <1>3, <1>4
      <4>2. Before(s[q], s[p], o, e)
        BY <4>1, <3>1, Total
      <4> QED BY <4>2, <3>2, <1>3
    <3>3. CASE q = p
      BY <3>3, <3>1, Irreflexive
    <3>4. CASE p < q
      BY <3>4, <1>2, <1>3, <1>4
    <3> QED BY <3>2, <3>3, <3>4, <1>2
  <2>2. 1..(p - 1) \subseteq 1..n /\ \A q \in 1..n : q < p => q \in 1..(p - 1)
    BY <1>2
  <2>3. \A q \in 1..(p - 1) : q < p
    BY <1>2
  <2>4. g \in [1..(p - 1) -> B]
    BY <2>1, <2>2, <2>3
  <2>5. \A q, r \in 1..(p - 1) : g[q] = g[r] => q = r
    BY <1>d, <2>2
  <2>6. ASSUME NEW b \in B PROVE \E q \in 1..(p - 1) : g[q] = b
    <3>1. b \in S
      OBVIOUS
    <3>2. PICK q \in 1..n : s[q] = b
      BY <3>1, <1>6
    <3>3. q < p
      BY <3>2, <2>1
    <3>4. q \in 1..(p - 1)
      BY <3>3, <2>2
    <3> QED BY <3>2, <3>4
  <2> HIDE DEF g, B
  <2>7. g \in Bijection(1..(p - 1), B)
    BY <2>4, <2>5, <2>6 DEF Bijection, Injection, Surjection, IsInjective
  <2>8. ExistsBijection(1..(p - 1), B)
    BY <2>7 DEF ExistsBijection
  <2>9. p - 1 \in Nat
    BY <1>2
  <2>10. Cardinality(B) = p - 1
    BY <2>8, <2>9, FS_CountingElements
  <2> QED BY <2>10 DEF B, Earlier
<1> QED BY <1>2, <1>3, <1>4, <1>6, <1>7 DEF n

(***************************************************************************)
(* Catalogue: the steps.                                                   *)
(***************************************************************************)

\* The state and its types.
LEMMA CatalogueParts ==
  ASSUME CatalogueTypeOK
  PROVE  /\ entry \in [Entries -> Listing] /\ reader \in Reader /\ changes \in 0..MaxChanges
         /\ reader.order \in Orders /\ reader.page \in Nat \ {0}
         /\ Listed(reader, entry) \in SUBSET Entries /\ IsFiniteSet(Listed(reader, entry))
         /\ reader.kept \in SUBSET Entries /\ reader.seen \in SUBSET Entries
         /\ PageSize \in Nat /\ PageSize > 0 /\ MaxChanges \in Nat
<1>1. entry \in [Entries -> Listing] /\ reader \in Reader /\ changes \in 0..MaxChanges
  BY DEF CatalogueTypeOK
<1>2. Listed(reader, entry) \in SUBSET Entries
  BY <1>1, ListedEntries
<1>3. IsFiniteSet(Listed(reader, entry))
  BY <1>2, CatalogueAssumption, FS_Subset
<1> QED BY <1>1, <1>2, <1>3, ReaderFields, CatalogueAssumption

\* The number of entries ahead of another.
LEMMA AheadFinite ==
  ASSUME CatalogueTypeOK, NEW i
  PROVE  Cardinality(Ahead(i)) \in Nat /\ IsFiniteSet(Ahead(i))
<1>1. Ahead(i) \in SUBSET Listed(reader, entry)
  BY DEF Ahead
<1>2. IsFiniteSet(Listed(reader, entry))
  BY CatalogueParts
<1>3. IsFiniteSet(Ahead(i))
  BY <1>1, <1>2, FS_Subset
<1> QED BY <1>3, FS_CardinalityType

\* A reader that opens a list is on its first page and has seen nothing.
LEMMA OpenEffect ==
  ASSUME Open
  PROVE  /\ UNCHANGED <<entry, changes>> /\ reader' \in Reader /\ reader'.pc = "reading"
         /\ reader'.page = 1 /\ reader'.seen = {} /\ reader'.twice = FALSE
         /\ reader'.kept = Listed(reader', entry)
<1>1. PICK role \in {"guest", "user", "admin"},
           list \in {"api", "catalogue", "account", "queue", "discussions"},
           asked \in {<<Desc("created_at")>>, <<Asc("price")>>, <<Desc("price")>>}, least \in {0, 1} :
          /\ list \in {"account", "discussions"} => role # "guest"
          /\ list = "queue" => role = "admin"
          /\ list # "api" => least = 0 /\ asked = <<Desc("created_at")>>
          /\ LET r == [NoReader EXCEPT !.pc = "reading", !.role = role, !.list = list, !.least = least,
                                       !.order = OrderOf(list, asked)]
             IN  reader' = [r EXCEPT !.kept = Listed(r, entry)]
  BY Zenon DEF Open
<1> DEFINE order == OrderOf(list, asked)
           r == [NoReader EXCEPT !.pc = "reading", !.role = role, !.list = list, !.least = least,
                                 !.order = order]
<1>2. order \in Orders
  <2>1. list = "api" => order = Stable(asked)
    BY DEF OrderOf
  <2>2. ASSUME NEW c \in {"created_at", "price"}
        PROVE  /\ Stable(<<Desc(c)>>) = <<Desc(c), Desc("id")>>
               /\ Stable(<<Asc(c)>>) = <<Asc(c), Asc("id")>>
    <3>1. ASSUME NEW column \in {Asc(c), Desc(c)}
          PROVE  Stable(<<column>>) = <<column, [by |-> "id", up |-> column.up]>>
      <4>1. column.by = c
        BY <3>1 DEF Asc, Desc
      <4>2. DOMAIN <<column>> = {1} /\ <<column>>[1] = column
        OBVIOUS
      <4>3. ~ \E k \in DOMAIN <<column>> : <<column>>[k].by = "id"
        BY <4>1, <4>2
      <4>4. Stable(<<column>>) = Append(<<column>>, [by |-> "id", up |-> column.up])
        BY <4>2, <4>3 DEF Stable
      <4>5. ASSUME NEW a, NEW b PROVE Append(<<a>>, b) = <<a, b>>
        <5> DEFINE x == Append(<<a>>, b)
        <5>1. <<a>> \in Seq({a, b}) /\ Len(<<a>>) = 1 /\ <<a>>[1] = a
          OBVIOUS
        <5>2. x \in Seq({a, b}) /\ Len(x) = 2 /\ x[1] = a /\ x[2] = b
          BY <5>1
        <5>3. <<a, b>> \in [1..2 -> {a, b}] /\ <<a, b>>[1] = a /\ <<a, b>>[2] = b
          OBVIOUS
        <5> HIDE DEF x
        <5>4. x \in [1..2 -> {a, b}]
          BY <5>2
        <5>5. \A k \in 1..2 : k = 1 \/ k = 2
          OBVIOUS
        <5>6. \A k \in 1..2 : x[k] = <<a, b>>[k]
          BY <5>2, <5>3, <5>5
        <5>7. x = <<a, b>>
          BY <5>3, <5>4, <5>6
        <5> QED BY <5>7 DEF x
      <4> QED BY <4>4, <4>5
    <3> QED BY <3>1 DEF Asc, Desc
  <2>3. Stable(asked) \in Orders
    BY <2>2 DEF Orders, Newest
  <2>4. list # "api" => order \in Orders
    BY DEF OrderOf, Orders
  <2> HIDE DEF order
  <2> QED BY <2>1, <2>3, <2>4
<1> HIDE DEF order
<1>3. /\ r \in Reader /\ r.pc = "reading" /\ r.page = 1 /\ r.seen = {} /\ r.twice = FALSE
      /\ r.role = role /\ r.list = list /\ r.least = least
  <2>1. 1 \in Nat \ {0} /\ {} \in SUBSET Entries /\ Newest \in Orders
    BY DEF Orders
  <2>2. NoReader \in Reader /\ NoReader.page = 1 /\ NoReader.seen = {} /\ NoReader.twice = FALSE
    BY <2>1 DEF NoReader, Reader
  <2>3. r \in Reader
    BY <1>2, <2>2 DEF Reader
  <2>4. /\ r.pc = "reading" /\ r.role = role /\ r.list = list /\ r.least = least
        /\ r.page = NoReader.page /\ r.seen = NoReader.seen /\ r.twice = NoReader.twice
    BY <2>2 DEF Reader
  <2> HIDE DEF r
  <2> QED BY <2>2, <2>3, <2>4
<1>4. Listed(r, entry) \in SUBSET Entries
  BY <1>3, ListedEntries
<1>5. reader' = [r EXCEPT !.kept = Listed(r, entry)]
  BY <1>1 DEF order
<1> HIDE DEF r
<1>6. /\ reader' \in Reader /\ reader'.pc = "reading" /\ reader'.page = 1 /\ reader'.seen = {}
      /\ reader'.twice = FALSE /\ reader'.kept = Listed(r, entry)
      /\ reader'.role = r.role /\ reader'.list = r.list /\ reader'.least = r.least
  BY <1>3, <1>4, <1>5 DEF Reader
<1>7. Listed(reader', entry) = Listed(r, entry)
  BY <1>6, SameList
<1> QED BY <1>6, <1>7 DEF Open

\* The entries before the next page, and those before the one after it.
LEMMA TurnedIs ==
  ASSUME CatalogueTypeOK
  PROVE  Turned \in Nat /\ reader.page * PageSize = Turned + PageSize
<1>1. reader.page \in Nat \ {0} /\ PageSize \in Nat
  BY CatalogueParts
<1>2. ASSUME NEW p \in Nat \ {0}
      PROVE  (p - 1) * PageSize \in Nat /\ p * PageSize = (p - 1) * PageSize + PageSize
  <2>1. p - 1 \in Nat /\ p = (p - 1) + 1
    OBVIOUS
  <2>2. ASSUME NEW q \in Nat PROVE q * PageSize \in Nat /\ (q + 1) * PageSize = q * PageSize + PageSize
    BY <1>1
  <2> QED BY <2>1, <2>2
<1> QED BY <1>1, <1>2 DEF Turned

\* Counting shows nothing.
LEMMA CountEffect ==
  ASSUME CatalogueTypeOK, Count
  PROVE  /\ reader.pc = "reading" /\ UNCHANGED <<entry, changes>> /\ reader' \in Reader
         /\ reader'.role = reader.role /\ reader'.list = reader.list /\ reader'.least = reader.least
         /\ reader'.order = reader.order /\ reader'.page = reader.page
         /\ reader'.kept = reader.kept /\ reader'.entered = reader.entered /\ reader'.left = reader.left
         /\ reader'.seen = reader.seen /\ reader'.twice = reader.twice /\ reader'.late = reader.late
         /\ \/ reader'.pc = "done" /\ Cardinality(Listed(reader, entry)) <= Turned
            \/ reader'.pc = "counted" /\ reader'.count = Cardinality(Listed(reader, entry))
<1> DEFINE n == Cardinality(Listed(reader, entry))
<1>1. reader \in Reader /\ n \in Nat
  <2>1. IsFiniteSet(Listed(reader, entry)) /\ reader \in Reader
    BY CatalogueParts
  <2> QED BY <2>1, FS_CardinalityType
<1>2. /\ reader.pc = "reading" /\ UNCHANGED <<entry, changes>>
      /\ reader' = IF reader.page > 1 /\ n <= Turned
                   THEN [reader EXCEPT !.pc = "done"]
                   ELSE [reader EXCEPT !.pc = "counted", !.count = n]
  BY DEF Count, Turned
<1>3. \/ n <= Turned /\ reader' = [reader EXCEPT !.pc = "done"]
      \/ reader' = [reader EXCEPT !.pc = "counted", !.count = n]
  BY <1>2
<1> HIDE DEF n
<1>4. CASE n <= Turned /\ reader' = [reader EXCEPT !.pc = "done"]
  <2>1. /\ reader' \in Reader
        /\ reader'.role = reader.role /\ reader'.list = reader.list /\ reader'.least = reader.least
        /\ reader'.order = reader.order /\ reader'.page = reader.page
        /\ reader'.kept = reader.kept /\ reader'.entered = reader.entered /\ reader'.left = reader.left
        /\ reader'.seen = reader.seen /\ reader'.twice = reader.twice /\ reader'.late = reader.late
        /\ reader'.pc = "done"
    BY <1>1, <1>4 DEF Reader
  <2> QED BY <2>1, <1>2, <1>4 DEF n
<1>5. CASE reader' = [reader EXCEPT !.pc = "counted", !.count = n]
  <2>1. /\ reader' \in Reader
        /\ reader'.role = reader.role /\ reader'.list = reader.list /\ reader'.least = reader.least
        /\ reader'.order = reader.order /\ reader'.page = reader.page
        /\ reader'.kept = reader.kept /\ reader'.entered = reader.entered /\ reader'.left = reader.left
        /\ reader'.seen = reader.seen /\ reader'.twice = reader.twice /\ reader'.late = reader.late
        /\ reader'.pc = "counted" /\ reader'.count = n
    BY <1>1, <1>5 DEF Reader
  <2> QED BY <2>1, <1>2 DEF n
<1> QED BY <1>3, <1>4, <1>5

\* A page shows the entries that have as many ahead of them; of a list that is longer
\* than the count the last page leaves out no more than it is longer by.
LEMMA ShowEffect ==
  ASSUME CatalogueTypeOK, Show
  PROVE  /\ reader.pc = "counted" /\ UNCHANGED <<entry, changes>> /\ reader' \in Reader
         /\ reader'.role = reader.role /\ reader'.list = reader.list /\ reader'.least = reader.least
         /\ reader'.order = reader.order /\ reader'.page = reader.page + 1
         /\ reader'.kept = reader.kept /\ reader'.entered = reader.entered /\ reader'.left = reader.left
         /\ reader'.late = reader.late /\ reader'.pc = IF Last THEN "done" ELSE "reading"
         /\ \E shown \in SUBSET Listed(reader, entry) :
                /\ reader'.seen = reader.seen \cup shown
                /\ reader'.twice <=> reader.twice \/ shown \cap reader.seen # {}
                /\ \A i \in Listed(reader, entry) :
                       i \in shown <=> Turned <= Cardinality(Ahead(i)) /\ Cardinality(Ahead(i)) < Top
         /\ \A k \in Nat :
                Cardinality(Listed(reader, entry)) <= Top + k =>
                    Cardinality({i \in Listed(reader, entry) : Top <= Cardinality(Ahead(i))}) <= k
<1> DEFINE S == Listed(reader, entry)
           first == (reader.page - 1) * PageSize + 1
<1>1. PICK s \in Answers(S, reader.order, entry) :
          LET shown == {s[i] : i \in DOMAIN s \cap first..Top}
          IN  reader' = [reader EXCEPT !.pc = IF Last THEN "done" ELSE "reading",
                                       !.page = @ + 1,
                                       !.count = 0,
                                       !.seen = @ \cup shown,
                                       !.twice = @ \/ shown \cap reader.seen # {}]
  BY DEF Show
<1> DEFINE shown == {s[i] : i \in DOMAIN s \cap first..Top}
           pc == IF Last THEN "done" ELSE "reading"
           twice == reader.twice \/ shown \cap reader.seen # {}
           beyond == {i \in S : Top <= Cardinality(Ahead(i))}
<1>2. /\ entry \in [Entries -> Listing] /\ reader \in Reader /\ S \in SUBSET Entries
      /\ reader.order \in Orders /\ reader.page \in Nat \ {0} /\ PageSize \in Nat /\ PageSize > 0
  BY CatalogueParts
<1>3. /\ Len(s) \in Nat /\ Len(s) = Cardinality(S) /\ DOMAIN s = 1..Len(s)
      /\ \A p \in DOMAIN s : s[p] \in S /\ Cardinality(Ahead(s[p])) = p - 1
      /\ \A i \in S : \E p \in DOMAIN s : s[p] = i
  <2>1. s \in Answers(S, reader.order, entry)
    OBVIOUS
  <2> HIDE DEF S, shown, pc, twice, beyond, first
  <2>2. \A o \in Orders, e \in [Entries -> Listing], T \in SUBSET Entries : s \in Answers(T, o, e) =>
          /\ Len(s) \in Nat /\ Len(s) = Cardinality(T) /\ DOMAIN s = 1..Len(s)
          /\ \A p \in DOMAIN s : s[p] \in T /\ Cardinality(Earlier(s[p], T, o, e)) = p - 1
          /\ \A i \in T : \E p \in DOMAIN s : s[p] = i
    BY Positions
  <2>3. /\ Len(s) \in Nat /\ Len(s) = Cardinality(S) /\ DOMAIN s = 1..Len(s)
        /\ \A p \in DOMAIN s : s[p] \in S /\ Cardinality(Earlier(s[p], S, reader.order, entry)) = p - 1
        /\ \A i \in S : \E p \in DOMAIN s : s[p] = i
    BY <1>2, <2>1, <2>2
  <2>4. \A p \in DOMAIN s : Earlier(s[p], S, reader.order, entry) = Ahead(s[p])
    BY DEF Earlier, Ahead, S
  <2> QED BY <2>3, <2>4
<1>4. first = Turned + 1 /\ Turned \in Nat /\ Top \in Nat
  <2>1. Turned \in Nat /\ reader.page * PageSize = Turned + PageSize
    BY TurnedIs
  <2>2. reader.count \in Nat
    BY <1>2, ReaderFields
  <2>3. first = Turned + 1
    BY DEF Turned
  <2> QED BY <2>1, <2>2, <2>3, <1>2 DEF Top
<1>5. shown \in SUBSET S
  BY <1>3
<1>6. ASSUME NEW i \in S
      PROVE  i \in shown <=> Turned <= Cardinality(Ahead(i)) /\ Cardinality(Ahead(i)) < Top
  <2>1. PICK p \in DOMAIN s : s[p] = i
    BY <1>3
  <2>2. Cardinality(Ahead(i)) = p - 1 /\ p \in 1..Len(s)
    BY <2>1, <1>3
  <2>3. \A q \in DOMAIN s : s[q] = i => q = p
    <3>1. SUFFICES ASSUME NEW q \in DOMAIN s, s[q] = i PROVE q = p
      OBVIOUS
    <3>2. p - 1 = q - 1
      BY <3>1, <2>1, <1>3
    <3> QED BY <3>1, <3>2, <2>1, <1>3
  <2>4. i \in shown <=> p \in first..Top
    BY <2>1, <2>3
  <2> HIDE DEF first, shown
  <2> QED BY <2>2, <2>4, <1>2, <1>3, <1>4
<1>7. ASSUME NEW k \in Nat, Cardinality(S) <= Top + k PROVE Cardinality(beyond) <= k
  <2> DEFINE I == (Top + 1)..Len(s)
             f == [p \in I |-> s[p]]
  <2>1. IsFiniteSet(I) /\ Cardinality(I) = (IF Top + 1 > Len(s) THEN 0 ELSE Len(s) - (Top + 1) + 1)
    <3>1. Top + 1 \in Int /\ Len(s) \in Int
      BY <1>3, <1>4
    <3> QED BY <3>1, FS_Interval
  <2>2. Cardinality(I) <= k
    <3> HIDE DEF I
    <3> QED BY <2>1, <1>3, <1>4, <1>7
  <2>3. \A p \in I : p \in DOMAIN s /\ Top <= p - 1
    BY <1>3, <1>4
  <2>4. ASSUME NEW i \in beyond PROVE \E p \in I : f[p] = i
    <3>1. PICK p \in DOMAIN s : s[p] = i
      BY <2>4, <1>3
    <3>2. Top <= p - 1 /\ p \in 1..Len(s)
      BY <3>1, <2>4, <1>3
    <3>3. p \in I
      BY <3>2, <1>3, <1>4
    <3> QED BY <3>1, <3>3
  <2>5. f \in [I -> beyond]
    <3>1. \A p \in I : s[p] \in beyond
      BY <2>3, <1>3
    <3> QED BY <3>1
  <2>6. f \in Surjection(I, beyond)
    <3> HIDE DEF f, I, beyond
    <3> QED BY <2>4, <2>5 DEF Surjection
  <2>7. Cardinality(beyond) <= Cardinality(I) /\ IsFiniteSet(beyond)
    <3> HIDE DEF f, I, beyond
    <3> QED BY <2>1, <2>6, FS_Surjection
  <2>8. Cardinality(beyond) \in Nat /\ Cardinality(I) \in Nat
    <3> HIDE DEF f, I, beyond
    <3> QED BY <2>1, <2>7, FS_CardinalityType
  <2> HIDE DEF f, I, beyond
  <2> QED BY <2>2, <2>7, <2>8
<1>8. /\ pc \in {"reading", "done"} /\ twice \in BOOLEAN /\ reader.page + 1 \in Nat \ {0}
      /\ reader.seen \cup shown \in SUBSET Entries
  <2>1. reader.seen \in SUBSET Entries /\ reader.twice \in BOOLEAN
    BY <1>2, ReaderFields
  <2> HIDE DEF shown, S
  <2> QED BY <2>1, <1>2, <1>5
<1>9. reader' = [reader EXCEPT !.pc = pc, !.page = reader.page + 1, !.count = 0,
                               !.seen = reader.seen \cup shown, !.twice = twice]
  BY <1>1
<1>10. twice <=> reader.twice \/ shown \cap reader.seen # {}
  OBVIOUS
<1>11. pc = IF Last THEN "done" ELSE "reading"
  OBVIOUS
<1> HIDE DEF pc, shown, twice, S, first
<1>12. /\ reader' \in Reader
       /\ reader'.role = reader.role /\ reader'.list = reader.list /\ reader'.least = reader.least
       /\ reader'.order = reader.order /\ reader'.page = reader.page + 1
       /\ reader'.kept = reader.kept /\ reader'.entered = reader.entered /\ reader'.left = reader.left
       /\ reader'.late = reader.late
       /\ reader'.pc = pc /\ reader'.seen = reader.seen \cup shown /\ reader'.twice = twice
  BY <1>2, <1>8, <1>9 DEF Reader
<1>13. \E sh \in SUBSET Listed(reader, entry) :
           /\ reader'.seen = reader.seen \cup sh
           /\ reader'.twice <=> reader.twice \/ sh \cap reader.seen # {}
           /\ \A i \in Listed(reader, entry) :
                  i \in sh <=> Turned <= Cardinality(Ahead(i)) /\ Cardinality(Ahead(i)) < Top
  <2>1. shown \in SUBSET Listed(reader, entry)
    BY <1>5 DEF S
  <2>2. \A i \in Listed(reader, entry) :
            i \in shown <=> Turned <= Cardinality(Ahead(i)) /\ Cardinality(Ahead(i)) < Top
    BY <1>6 DEF S
  <2> QED BY <2>1, <2>2, <1>10, <1>12
<1>14. \A k \in Nat :
           Cardinality(Listed(reader, entry)) <= Top + k =>
               Cardinality({i \in Listed(reader, entry) : Top <= Cardinality(Ahead(i))}) <= k
  BY <1>7 DEF S
<1> QED BY <1>11, <1>12, <1>13, <1>14 DEF Show

\* What depends on the rows alone, and on what a reader keeps.
LEMMA SameAhead ==
  ASSUME reader'.list = reader.list, reader'.role = reader.role, reader'.least = reader.least,
         reader'.order = reader.order, UNCHANGED entry, NEW i
  PROVE  /\ Listed(reader', entry') = Listed(reader, entry)
         /\ Ahead(i)' = Ahead(i)
<1>1. Listed(reader', entry') = Listed(reader, entry)
  BY SameList
<1> QED BY <1>1 DEF Ahead

\* Opening a list.
LEMMA OpenStep ==
  ASSUME CatalogueTypeOK, Open
  PROVE  CatalogueInductive'
<1>1. /\ UNCHANGED <<entry, changes>> /\ reader' \in Reader /\ reader'.pc = "reading"
      /\ reader'.page = 1 /\ reader'.seen = {} /\ reader'.twice = FALSE
      /\ reader'.kept = Listed(reader', entry)
  BY OpenEffect
<1>2. CatalogueTypeOK'
  BY <1>1 DEF CatalogueTypeOK
<1>3. Turned' = 0
  <2>1. Turned' = (1 - 1) * PageSize
    BY <1>1 DEF Turned
  <2> QED BY <2>1, CatalogueParts
<1>4. \A i : ~ (Cardinality(Ahead(i)') < Turned')
  <2>1. ASSUME NEW i PROVE Cardinality(Ahead(i)') \in Nat
    <3>1. Ahead(i)' \in SUBSET Listed(reader', entry')
      BY DEF Ahead
    <3>2. Listed(reader', entry') \in SUBSET Entries
      BY <1>1, ListedEntries
    <3>3. IsFiniteSet(Ahead(i)')
      BY <3>1, <3>2, CatalogueAssumption, FS_Subset
    <3> QED BY <3>3, FS_CardinalityType
  <2> QED BY <2>1, <1>3
<1>5. KeptAreListed'
  BY <1>1 DEF KeptAreListed
<1>6. MissesNone'
  BY <1>4 DEF MissesNone
<1>7. RepeatsNone'
  BY <1>1 DEF RepeatsNone
<1>8. CountHolds' /\ PagesMissNothing'
  BY <1>1 DEF CountHolds, PagesMissNothing
<1> QED BY <1>2, <1>5, <1>6, <1>7, <1>8 DEF CatalogueInductive

\* Counting: a page that is not there has all of the list before it.
LEMMA CountStep ==
  ASSUME CatalogueInductive, Count
  PROVE  CatalogueInductive'
<1>0. /\ CatalogueTypeOK /\ KeptAreListed /\ MissesNone /\ RepeatsNone
  BY DEF CatalogueInductive
<1> DEFINE S == Listed(reader, entry)
           n == Cardinality(S)
<1>1. /\ reader.pc = "reading" /\ UNCHANGED <<entry, changes>> /\ reader' \in Reader
      /\ reader'.role = reader.role /\ reader'.list = reader.list /\ reader'.least = reader.least
      /\ reader'.order = reader.order /\ reader'.page = reader.page
      /\ reader'.kept = reader.kept /\ reader'.entered = reader.entered /\ reader'.left = reader.left
      /\ reader'.seen = reader.seen /\ reader'.twice = reader.twice /\ reader'.late = reader.late
      /\ \/ reader'.pc = "done" /\ n <= Turned
         \/ reader'.pc = "counted" /\ reader'.count = n
  BY <1>0, CountEffect
<1>2. CatalogueTypeOK'
  BY <1>0, <1>1 DEF CatalogueTypeOK
<1>3. Listed(reader', entry') = S /\ (\A i : Ahead(i)' = Ahead(i)) /\ Turned' = Turned
  <2>1. Listed(reader', entry') = S /\ \A i : Ahead(i)' = Ahead(i)
    BY <1>1, SameAhead
  <2> QED BY <2>1, <1>1 DEF Turned
<1>4. n \in Nat /\ IsFiniteSet(S) /\ reader.late \in Nat /\ Turned \in Nat
  <2>1. IsFiniteSet(S) /\ reader.late \in Nat
    BY <1>0, CatalogueParts, ReaderFields
  <2> QED BY <2>1, <1>0, TurnedIs, FS_CardinalityType
<1>5. KeptAreListed' /\ RepeatsNone'
  BY <1>0, <1>1, <1>3 DEF KeptAreListed, RepeatsNone
<1>6. MissesNone'
  BY <1>0, <1>1, <1>3 DEF MissesNone
<1>7. CountHolds'
  <2>1. reader'.pc = "counted" => n <= reader'.count + reader'.late
    BY <1>1, <1>4
  <2> QED BY <2>1, <1>3 DEF CountHolds
<1>8. PagesMissNothing'
  <2>1. SUFFICES ASSUME reader'.pc = "done"
                 PROVE  /\ reader.left \/ Cardinality(reader.kept \ reader.seen) <= reader.late
                        /\ reader.entered \/ ~ reader.twice
    BY <1>1 DEF PagesMissNothing
  <2>2. ASSUME ~ reader.left PROVE reader.kept \ reader.seen = {}
    <3>1. SUFFICES ASSUME NEW i \in reader.kept PROVE i \in reader.seen
      OBVIOUS
    <3>2. i \in S
      BY <3>1, <1>0, <1>1 DEF KeptAreListed
    <3>3. Cardinality(Ahead(i)) < n
      <4>1. Ahead(i) \in SUBSET S
        BY DEF Ahead
      <4>2. i \notin Ahead(i)
        <5>1. reader.order \in Orders /\ entry \in [Entries -> Listing] /\ i \in Entries
          BY <3>2, <1>0, CatalogueParts
        <5> QED BY <5>1, Irreflexive DEF Ahead
      <4>3. Cardinality(Ahead(i)) <= n /\ Cardinality(Ahead(i)) # n
        <5> HIDE DEF S
        <5>1. Cardinality(Ahead(i)) <= Cardinality(S) /\ (Cardinality(S) = Cardinality(Ahead(i)) => S = Ahead(i))
          BY <4>1, <1>4, FS_Subset
        <5> QED BY <5>1, <4>2, <3>2
      <4>4. Cardinality(Ahead(i)) \in Nat
        BY <1>0, AheadFinite
      <4> HIDE DEF n
      <4> QED BY <4>3, <4>4, <1>4
    <3>4. Cardinality(Ahead(i)) < Turned
      <4>1. Cardinality(Ahead(i)) \in Nat /\ n <= Turned
        BY <2>1, <1>0, <1>1, AheadFinite
      <4> HIDE DEF n
      <4> QED BY <4>1, <3>3, <1>4
    <3> QED BY <3>1, <3>4, <2>2, <1>0, <1>1 DEF MissesNone
  <2>3. Cardinality({}) <= reader.late
    BY <1>4, FS_EmptySet
  <2>4. reader.entered \/ ~ reader.twice
    BY <1>0, <1>1 DEF RepeatsNone
  <2> QED BY <2>2, <2>3, <2>4
<1> QED BY <1>2, <1>5, <1>6, <1>7, <1>8 DEF CatalogueInductive

\* The rows of a page: they are the next entries of the list of that moment.
LEMMA ShowStep ==
  ASSUME CatalogueInductive, Show
  PROVE  CatalogueInductive'
<1>0. /\ CatalogueTypeOK /\ KeptAreListed /\ CountHolds /\ MissesNone /\ RepeatsNone
  BY DEF CatalogueInductive
<1> DEFINE S == Listed(reader, entry)
           beyond == {i \in S : Top <= Cardinality(Ahead(i))}
<1>1. /\ reader.pc = "counted" /\ UNCHANGED <<entry, changes>> /\ reader' \in Reader
      /\ reader'.role = reader.role /\ reader'.list = reader.list /\ reader'.least = reader.least
      /\ reader'.order = reader.order /\ reader'.page = reader.page + 1
      /\ reader'.kept = reader.kept /\ reader'.entered = reader.entered /\ reader'.left = reader.left
      /\ reader'.late = reader.late /\ reader'.pc = IF Last THEN "done" ELSE "reading"
      /\ \A k \in Nat : Cardinality(S) <= Top + k => Cardinality(beyond) <= k
  BY <1>0, ShowEffect
<1>2. PICK shown \in SUBSET S :
          /\ reader'.seen = reader.seen \cup shown
          /\ reader'.twice <=> reader.twice \/ shown \cap reader.seen # {}
          /\ \A i \in S : i \in shown <=> Turned <= Cardinality(Ahead(i)) /\ Cardinality(Ahead(i)) < Top
  BY <1>0, ShowEffect
<1>3. CatalogueTypeOK'
  BY <1>0, <1>1 DEF CatalogueTypeOK
<1>4. /\ Turned \in Nat /\ Turned' = Turned + PageSize /\ PageSize \in Nat /\ PageSize > 0
      /\ Top \in Nat /\ Top <= Turned + PageSize /\ (~ Last => Top = Turned + PageSize)
      /\ reader.count \in Nat /\ reader.late \in Nat
  <2>1. /\ Turned \in Nat /\ reader.page * PageSize = Turned + PageSize
        /\ PageSize \in Nat /\ PageSize > 0 /\ reader.page \in Nat \ {0}
    BY <1>0, TurnedIs, CatalogueParts
  <2>2. reader.count \in Nat /\ reader.late \in Nat
    BY <1>0, CatalogueParts, ReaderFields
  <2>3. Turned' = reader.page * PageSize
    <3>1. Turned' = ((reader.page + 1) - 1) * PageSize
      BY <1>1 DEF Turned
    <3>2. (reader.page + 1) - 1 = reader.page
      BY <2>1
    <3> QED BY <3>1, <3>2
  <2> QED BY <2>1, <2>2, <2>3 DEF Top, Last
<1>5. Listed(reader', entry') = S /\ \A i : Ahead(i)' = Ahead(i)
  BY <1>1, SameAhead
<1>6. reader.kept \subseteq S
  BY <1>0, <1>1 DEF KeptAreListed
<1>7. \A i : Cardinality(Ahead(i)) \in Nat
  BY <1>0, AheadFinite
<1>8. IsFiniteSet(S) /\ Cardinality(S) \in Nat
  BY <1>0, CatalogueParts, FS_CardinalityType
<1> HIDE DEF S
<1>9. KeptAreListed'
  BY <1>1, <1>5, <1>6 DEF KeptAreListed
<1>10. ASSUME ~ reader'.left, NEW i \in reader'.kept, Cardinality(Ahead(i)) < Top
       PROVE  i \in reader'.seen
  <2>1. i \in S /\ i \in reader.kept
    BY <1>1, <1>6, <1>10
  <2>2. CASE Cardinality(Ahead(i)) < Turned
    <3>1. i \in reader.seen
      BY <2>1, <2>2, <1>0, <1>1, <1>10 DEF MissesNone
    <3> QED BY <3>1, <1>2
  <2>3. CASE Turned <= Cardinality(Ahead(i))
    BY <2>1, <2>3, <1>2, <1>10
  <2> QED BY <2>2, <2>3, <1>4, <1>7
<1>11. MissesNone'
  <2>1. ASSUME reader'.pc \in {"reading", "counted"}, ~ reader'.left, NEW i \in reader'.kept,
               Cardinality(Ahead(i)') < Turned'
        PROVE  i \in reader'.seen
    <3>1. Top = Turned'
      BY <2>1, <1>1, <1>4
    <3> QED BY <2>1, <3>1, <1>5, <1>10
  <2> QED BY <2>1 DEF MissesNone
<1>12. ASSUME ~ reader'.entered
       PROVE  /\ ~ reader'.twice
              /\ \A i \in reader'.seen \cap S : Cardinality(Ahead(i)) < Turned + PageSize
  <2>1. /\ ~ reader.twice /\ \A i \in reader.seen \cap S : Cardinality(Ahead(i)) < Turned
    BY <1>0, <1>1, <1>12 DEF RepeatsNone, S
  <2>2. shown \cap reader.seen = {}
    <3>1. SUFFICES ASSUME NEW i \in shown, i \in reader.seen PROVE FALSE
      OBVIOUS
    <3>2. i \in S /\ Turned <= Cardinality(Ahead(i)) /\ Cardinality(Ahead(i)) < Turned
      BY <3>1, <2>1, <1>2
    <3> QED BY <3>2, <1>4, <1>7
  <2>3. ASSUME NEW i \in S, i \in reader.seen PROVE Cardinality(Ahead(i)) < Turned + PageSize
    <3>1. Cardinality(Ahead(i)) < Turned
      BY <2>1, <2>3
    <3> QED BY <3>1, <1>4, <1>7
  <2>4. ASSUME NEW i \in S, i \in shown PROVE Cardinality(Ahead(i)) < Turned + PageSize
    <3>1. Cardinality(Ahead(i)) < Top
      BY <2>4, <1>2
    <3> QED BY <3>1, <1>4, <1>7
  <2> QED BY <2>1, <2>2, <2>3, <2>4, <1>2
<1>13. RepeatsNone'
  <2>1. ASSUME ~ reader'.entered
        PROVE  /\ ~ reader'.twice
               /\ \A i \in reader'.seen \cap Listed(reader', entry') : Cardinality(Ahead(i)') < Turned'
    BY <2>1, <1>4, <1>5, <1>12
  <2> QED BY <2>1 DEF RepeatsNone
<1>14. CountHolds'
  BY <1>1 DEF CountHolds
<1>15. PagesMissNothing'
  <2>1. ASSUME reader'.pc = "done", ~ reader'.left
        PROVE  Cardinality(reader'.kept \ reader'.seen) <= reader'.late
    <3>1. Last /\ Top = reader.count
      BY <2>1, <1>1 DEF Top
    <3>2. Cardinality(beyond) <= reader.late
      <4>1. Cardinality(S) <= Top + reader.late
        BY <3>1, <1>0, <1>1 DEF CountHolds, S
      <4> QED BY <4>1, <1>1, <1>4
    <3>3. reader'.kept \ reader'.seen \in SUBSET beyond
      <4>1. SUFFICES ASSUME NEW i \in reader'.kept, i \notin reader'.seen PROVE i \in beyond
        OBVIOUS
      <4>2. i \in S /\ ~ (Cardinality(Ahead(i)) < Top)
        BY <4>1, <2>1, <1>1, <1>6, <1>10
      <4> QED BY <4>2, <1>4, <1>7
    <3>4. beyond \in SUBSET S
      OBVIOUS
    <3> HIDE DEF beyond
    <3>5. IsFiniteSet(beyond)
      BY <3>4, <1>8, FS_Subset
    <3>6. Cardinality(reader'.kept \ reader'.seen) <= Cardinality(beyond) /\ IsFiniteSet(reader'.kept \ reader'.seen)
      BY <3>3, <3>5, FS_Subset
    <3>7. Cardinality(reader'.kept \ reader'.seen) \in Nat /\ Cardinality(beyond) \in Nat
      BY <3>5, <3>6, FS_CardinalityType
    <3> QED BY <3>2, <3>6, <3>7, <1>1, <1>4
  <2> QED BY <2>1, <1>12 DEF PagesMissNothing
<1> QED BY <1>3, <1>9, <1>11, <1>13, <1>14, <1>15 DEF CatalogueInductive

\* A reader leaves.
LEMMA CloseStep ==
  ASSUME CatalogueTypeOK, Close
  PROVE  CatalogueInductive'
<1>1. reader' = NoReader /\ UNCHANGED <<entry, changes>>
  BY DEF Close
<1>2. NoReader \in Reader /\ NoReader.pc = "idle"
  <2>1. 1 \in Nat \ {0} /\ {} \in SUBSET Entries /\ Newest \in Orders
    BY DEF Orders
  <2> QED BY <2>1 DEF NoReader, Reader
<1> QED BY <1>1, <1>2 DEF CatalogueInductive, CatalogueTypeOK, KeptAreListed, CountHolds, MissesNone,
                          RepeatsNone, PagesMissNothing

\* A row becomes another: the reader's history says what that does to the list.
LEMMA BecomeEffect ==
  ASSUME CatalogueTypeOK, NEW i \in Entries, NEW row \in Listing, Become(i, row)
  PROVE  /\ entry' \in [Entries -> Listing] /\ \A j \in Entries \ {i} : entry'[j] = entry[j]
         /\ changes' \in 0..MaxChanges
         /\ reader' \in Reader /\ reader'.pc = reader.pc
         /\ reader'.list = reader.list /\ reader'.role = reader.role /\ reader'.least = reader.least
         /\ reader'.order = reader.order /\ reader'.page = reader.page /\ reader'.count = reader.count
         /\ reader'.seen = reader.seen /\ reader'.twice = reader.twice
         /\ reader'.late = IF reader.pc = "counted" /\ Last /\ i \in Listed(reader, entry') \ Listed(reader, entry)
                           THEN reader.late + 1 ELSE reader.late
         /\ reader.pc # "idle" =>
                LET moved == /\ i \in Listed(reader, entry) \cap Listed(reader, entry')
                             /\ \E k \in DOMAIN reader.order :
                                    Value(reader.order[k].by, i, entry') # Value(reader.order[k].by, i, entry)
                IN  /\ reader'.kept = reader.kept \cap Listed(reader, entry')
                    /\ reader'.entered <=> \/ reader.entered \/ moved
                                           \/ i \in Listed(reader, entry') \ Listed(reader, entry)
                    /\ reader'.left <=> \/ reader.left \/ moved
                                        \/ i \in Listed(reader, entry) \ Listed(reader, entry')
<1> DEFINE e == [entry EXCEPT ![i] = row]
           old == Listed(reader, entry)
           new == Listed(reader, e)
           moved == /\ i \in old \cap new
                    /\ \E k \in DOMAIN reader.order :
                           Value(reader.order[k].by, i, e) # Value(reader.order[k].by, i, entry)
           kept == reader.kept \cap new
           entered == reader.entered \/ moved \/ i \in new \ old
           left == reader.left \/ moved \/ i \in old \ new
           late == IF reader.pc = "counted" /\ Last /\ i \in new \ old THEN reader.late + 1 ELSE reader.late
<1>1. /\ entry \in [Entries -> Listing] /\ reader \in Reader /\ changes \in 0..MaxChanges /\ MaxChanges \in Nat
  BY CatalogueParts
<1>2. /\ entry' = e /\ changes < MaxChanges /\ changes' = changes + 1
      /\ reader' = IF reader.pc = "idle" THEN reader
                   ELSE [reader EXCEPT !.kept = kept, !.entered = entered, !.late = late, !.left = left]
  BY DEF Become
<1>3. e \in [Entries -> Listing] /\ \A j \in Entries \ {i} : e[j] = entry[j]
  BY <1>1
<1>4. changes' \in 0..MaxChanges
  BY <1>1, <1>2
<1>5. kept \in SUBSET Entries /\ entered \in BOOLEAN /\ left \in BOOLEAN /\ late \in Nat
  <2>1. reader.kept \in SUBSET Entries /\ reader.entered \in BOOLEAN /\ reader.left \in BOOLEAN /\ reader.late \in Nat
    BY <1>1, ReaderFields
  <2> HIDE DEF old, new
  <2> QED BY <2>1
<1>6. /\ entered <=> reader.entered \/ moved \/ i \in new \ old
      /\ left <=> reader.left \/ moved \/ i \in old \ new
  OBVIOUS
<1>9. late = IF reader.pc = "counted" /\ Last /\ i \in Listed(reader, entry') \ Listed(reader, entry)
             THEN reader.late + 1 ELSE reader.late
  BY <1>2
<1> HIDE DEF e, old, new, moved, kept, entered, left
<1>7. CASE reader.pc = "idle"
  <2> HIDE DEF late
  <2>1. reader' = reader /\ late = reader.late
    BY <1>2, <1>7, <1>9
  <2> QED BY <2>1, <1>1, <1>2, <1>3, <1>4, <1>7, <1>9
<1>8. CASE reader.pc # "idle"
  <2>1. reader' = [reader EXCEPT !.kept = kept, !.entered = entered, !.late = late, !.left = left]
    BY <1>2, <1>8
  <2>2. /\ reader' \in Reader /\ reader'.pc = reader.pc
        /\ reader'.list = reader.list /\ reader'.role = reader.role /\ reader'.least = reader.least
        /\ reader'.order = reader.order /\ reader'.page = reader.page /\ reader'.count = reader.count
        /\ reader'.seen = reader.seen /\ reader'.twice = reader.twice
        /\ reader'.kept = kept /\ reader'.entered = entered /\ reader'.left = left /\ reader'.late = late
    <3> HIDE DEF late
    <3> QED BY <1>1, <1>5, <2>1 DEF Reader
  <2>3. /\ reader'.kept = reader.kept \cap Listed(reader, entry')
        /\ reader'.entered <=> reader.entered \/ moved \/ i \in Listed(reader, entry') \ Listed(reader, entry)
        /\ reader'.left <=> reader.left \/ moved \/ i \in Listed(reader, entry) \ Listed(reader, entry')
    BY <2>2, <1>2, <1>6 DEF kept, old, new
  <2>4. moved <=> /\ i \in Listed(reader, entry) \cap Listed(reader, entry')
                  /\ \E k \in DOMAIN reader.order :
                         Value(reader.order[k].by, i, entry') # Value(reader.order[k].by, i, entry)
    BY <1>2 DEF moved, old, new
  <2> HIDE DEF late
  <2> QED BY <1>2, <1>3, <1>4, <1>9, <2>2, <2>3, <2>4
<1> QED BY <1>7, <1>8

\* Entries that are on the list before and after, and have not moved, keep their order.
LEMMA OrderKept ==
  ASSUME CatalogueTypeOK, NEW i \in Entries, NEW row \in Listing, Become(i, row),
         i \in Listed(reader, entry) \cap Listed(reader, entry') =>
             \A k \in DOMAIN reader.order :
                 Value(reader.order[k].by, i, entry') = Value(reader.order[k].by, i, entry),
         NEW j \in Listed(reader, entry) \cap Listed(reader, entry'),
         NEW l \in Listed(reader, entry) \cap Listed(reader, entry')
  PROVE  Before(j, l, reader.order, entry) <=> Before(j, l, reader.order, entry')
<1>1. /\ entry \in [Entries -> Listing] /\ entry' \in [Entries -> Listing] /\ reader.order \in Orders
      /\ \A m \in Entries \ {i} : entry'[m] = entry[m]
  BY BecomeEffect, CatalogueParts
<1>2. ASSUME NEW m \in Listed(reader, entry) \cap Listed(reader, entry'), NEW k \in DOMAIN reader.order
      PROVE  Value(reader.order[k].by, m, entry') = Value(reader.order[k].by, m, entry)
  <2>1. m \in Entries
    BY CatalogueParts
  <2>2. CASE m = i
    BY <2>2
  <2>3. CASE m # i
    <3>1. entry'[m] = entry[m]
      BY <2>1, <2>3, <1>1
    <3> QED BY <3>1, ValueByRow
  <2> QED BY <2>2, <2>3
<1>3. Before(j, l, reader.order, entry) => Before(j, l, reader.order, entry')
  BY <1>1, <1>2, BeforeByValues
<1>4. Before(j, l, reader.order, entry') => Before(j, l, reader.order, entry)
  BY <1>1, <1>2, BeforeByValues
<1> QED BY <1>3, <1>4

\* Another request changes a row.
LEMMA BecomeStep ==
  ASSUME CatalogueInductive, NEW i \in Entries, NEW row \in Listing, Become(i, row)
  PROVE  CatalogueInductive'
<1>0. CatalogueTypeOK /\ KeptAreListed /\ CountHolds /\ MissesNone /\ RepeatsNone /\ PagesMissNothing
  BY DEF CatalogueInductive
<1> DEFINE old == Listed(reader, entry)
           new == Listed(reader, entry')
           same == \A k \in DOMAIN reader.order :
                       Value(reader.order[k].by, i, entry') = Value(reader.order[k].by, i, entry)
<1>1. /\ entry' \in [Entries -> Listing] /\ \A j \in Entries \ {i} : entry'[j] = entry[j]
      /\ changes' \in 0..MaxChanges
      /\ reader' \in Reader /\ reader'.pc = reader.pc
      /\ reader'.list = reader.list /\ reader'.role = reader.role /\ reader'.least = reader.least
      /\ reader'.order = reader.order /\ reader'.page = reader.page /\ reader'.count = reader.count
      /\ reader'.seen = reader.seen /\ reader'.twice = reader.twice
      /\ reader'.late = IF reader.pc = "counted" /\ Last /\ i \in new \ old THEN reader.late + 1 ELSE reader.late
  BY <1>0, BecomeEffect
<1>2. reader.pc # "idle" =>
          /\ reader'.kept = reader.kept \cap new
          /\ ~ reader'.entered => ~ reader.entered /\ (i \in old \cap new => same) /\ i \notin new \ old
          /\ ~ reader'.left => ~ reader.left /\ (i \in old \cap new => same) /\ i \notin old \ new
  BY <1>0, BecomeEffect
<1>3. CatalogueTypeOK'
  BY <1>1 DEF CatalogueTypeOK
<1>4. Listed(reader', entry') = new /\ Turned' = Turned
  <2>1. Listed(reader', entry') = new
    BY <1>1, SameList
  <2> QED BY <2>1, <1>1 DEF Turned
<1>5. old \in SUBSET Entries /\ new \in SUBSET Entries
  BY <1>0, CatalogueParts, ListedEntries
<1>6. \A j \in Entries \ {i} : j \in old <=> j \in new
  <2>1. ASSUME NEW j \in Entries \ {i} PROVE j \in old <=> j \in new
    <3>1. entry[j] = entry'[j] /\ reader \in Reader
      BY <1>0, <1>1, CatalogueParts
    <3> QED BY <3>1, ListedByRow
  <2> QED BY <2>1
<1>7. /\ \A j : Ahead(j) = {m \in old : Before(m, j, reader.order, entry)}
      /\ \A j : Ahead(j)' = {m \in new : Before(m, j, reader.order, entry')}
  BY <1>1, <1>4 DEF Ahead
<1>8. /\ \A j : Cardinality(Ahead(j)) \in Nat /\ IsFiniteSet(Ahead(j))
      /\ \A j : Cardinality(Ahead(j)') \in Nat /\ IsFiniteSet(Ahead(j)')
  <2>1. \A j : Cardinality(Ahead(j)) \in Nat /\ IsFiniteSet(Ahead(j))
    BY <1>0, AheadFinite
  <2>2. ASSUME NEW j PROVE Cardinality(Ahead(j)') \in Nat /\ IsFiniteSet(Ahead(j)')
    <3>1. Ahead(j)' \in SUBSET Entries
      BY <1>5, <1>7
    <3>2. IsFiniteSet(Ahead(j)')
      BY <3>1, CatalogueAssumption, FS_Subset
    <3> QED BY <3>2, FS_CardinalityType
  <2> QED BY <2>1, <2>2
<1>9. Turned \in Nat
  <2>1. reader.page - 1 \in Nat /\ PageSize \in Nat
    <3>1. reader.page \in Nat \ {0} /\ PageSize \in Nat
      BY <1>0, CatalogueParts
    <3> QED BY <3>1
  <2> QED BY <2>1 DEF Turned
<1>10. ASSUME i \in old \cap new => same, NEW j \in old \cap new, NEW m \in old \cap new
       PROVE  Before(m, j, reader.order, entry) <=> Before(m, j, reader.order, entry')
  BY <1>0, <1>10, OrderKept
<1> HIDE DEF old, new, same
<1>11. KeptAreListed'
  BY <1>1, <1>2, <1>4 DEF KeptAreListed
\* None leaves: as many as before are ahead of an entry, or more.
<1>12. MissesNone'
  <2>1. SUFFICES ASSUME reader.pc \in {"reading", "counted"}, ~ reader'.left, NEW j \in reader'.kept,
                        Cardinality(Ahead(j)') < Turned
                 PROVE  j \in reader.seen
    BY <1>1, <1>4 DEF MissesNone
  <2>2. /\ j \in reader.kept /\ j \in new /\ ~ reader.left
        /\ i \in old \cap new => same
        /\ i \notin old \ new
    BY <2>1, <1>2
  <2>3. j \in old
    BY <2>1, <2>2, <1>0 DEF KeptAreListed, old
  <2>4. old \subseteq new
    BY <2>2, <1>5, <1>6
  <2>5. Ahead(j) \in SUBSET Ahead(j)'
    <3>1. ASSUME NEW m \in Ahead(j) PROVE m \in Ahead(j)'
      <4>1. m \in old /\ m \in new /\ Before(m, j, reader.order, entry)
        BY <3>1, <2>4, <1>7
      <4>2. Before(m, j, reader.order, entry')
        BY <4>1, <2>2, <2>3, <1>10
      <4> QED BY <4>1, <4>2, <1>7
    <3> QED BY <3>1
  <2>6. Cardinality(Ahead(j)) <= Cardinality(Ahead(j)')
    BY <2>5, <1>8, FS_Subset
  <2>7. Cardinality(Ahead(j)) < Turned
    BY <2>1, <2>6, <1>8, <1>9
  <2> QED BY <2>1, <2>2, <2>7, <1>0 DEF MissesNone
\* None enters: as many as before are ahead of an entry, or fewer.
<1>13. RepeatsNone'
  <2>1. SUFFICES ASSUME reader.pc # "idle", ~ reader'.entered
                 PROVE  /\ ~ reader.twice
                        /\ \A j \in reader.seen \cap new : Cardinality(Ahead(j)') < Turned
    BY <1>1, <1>4 DEF RepeatsNone
  <2>2. ~ reader.entered /\ (i \in old \cap new => same) /\ i \notin new \ old
    BY <2>1, <1>2
  <2>3. new \subseteq old
    BY <2>2, <1>5, <1>6
  <2>4. ~ reader.twice /\ \A j \in reader.seen \cap old : Cardinality(Ahead(j)) < Turned
    BY <2>1, <2>2, <1>0 DEF RepeatsNone, old
  <2>5. ASSUME NEW j \in reader.seen \cap new PROVE Cardinality(Ahead(j)') < Turned
    <3>1. j \in old /\ Cardinality(Ahead(j)) < Turned
      BY <2>3, <2>4, <2>5
    <3>2. Ahead(j)' \in SUBSET Ahead(j)
      <4>1. ASSUME NEW m \in Ahead(j)' PROVE m \in Ahead(j)
        <5>1. m \in old /\ m \in new /\ Before(m, j, reader.order, entry')
          BY <4>1, <2>3, <1>7
        <5>2. Before(m, j, reader.order, entry)
          BY <5>1, <2>2, <2>5, <3>1, <1>10
        <5> QED BY <5>1, <5>2, <1>7
      <4> QED BY <4>1
    <3>3. Cardinality(Ahead(j)') <= Cardinality(Ahead(j))
      BY <3>2, <1>8, FS_Subset
    <3> QED BY <3>1, <3>3, <1>8, <1>9
  <2> QED BY <2>4, <2>5
<1>14. PagesMissNothing'
  <2>1. SUFFICES ASSUME reader.pc = "done"
                 PROVE  /\ reader'.left \/ Cardinality(reader'.kept \ reader.seen) <= reader.late
                        /\ reader'.entered \/ ~ reader.twice
    BY <1>1 DEF PagesMissNothing
  <2>2. /\ reader.left \/ Cardinality(reader.kept \ reader.seen) <= reader.late
        /\ reader.entered \/ ~ reader.twice
    BY <2>1, <1>0 DEF PagesMissNothing
  <2>3. Cardinality(reader'.kept \ reader.seen) <= Cardinality(reader.kept \ reader.seen)
    <3>1. reader'.kept \ reader.seen \in SUBSET (reader.kept \ reader.seen)
      BY <2>1, <1>2
    <3>2. IsFiniteSet(reader.kept \ reader.seen)
      <4>1. reader.kept \ reader.seen \in SUBSET Entries
        BY <1>0, CatalogueParts
      <4> QED BY <4>1, CatalogueAssumption, FS_Subset
    <3> QED BY <3>1, <3>2, FS_Subset
  <2>4. /\ Cardinality(reader.kept \ reader.seen) \in Nat
        /\ Cardinality(reader'.kept \ reader.seen) \in Nat /\ reader.late \in Nat
    <3>1. reader.kept \ reader.seen \in SUBSET Entries /\ reader'.kept \ reader.seen \in SUBSET Entries
      BY <2>1, <1>0, <1>2, CatalogueParts
    <3>2. IsFiniteSet(reader.kept \ reader.seen) /\ IsFiniteSet(reader'.kept \ reader.seen)
      BY <3>1, CatalogueAssumption, FS_Subset
    <3>3. reader.late \in Nat
      BY <1>0, CatalogueParts, ReaderFields
    <3> QED BY <3>2, <3>3, FS_CardinalityType
  <2> QED BY <2>1, <2>2, <2>3, <2>4, <1>2
\* Whatever enters after the count is counted as late.
<1>15. CountHolds'
  <2>1. SUFFICES ASSUME reader.pc = "counted", Last
                 PROVE  Cardinality(new) <= reader.count + reader'.late
    BY <1>1, <1>4 DEF CountHolds, Last
  <2>2. Cardinality(old) <= reader.count + reader.late
    BY <2>1, <1>0 DEF CountHolds, old
  <2>3. /\ IsFiniteSet(old) /\ IsFiniteSet(new) /\ Cardinality(old) \in Nat /\ Cardinality(new) \in Nat
        /\ reader.count \in Nat /\ reader.late \in Nat
    <3>1. IsFiniteSet(old) /\ IsFiniteSet(new)
      BY <1>5, CatalogueAssumption, FS_Subset
    <3>2. reader.count \in Nat /\ reader.late \in Nat
      BY <1>0, CatalogueParts, ReaderFields
    <3> QED BY <3>1, <3>2, FS_CardinalityType
  <2>4. CASE i \in new \ old
    <3>1. new \in SUBSET (old \cup {i})
      BY <1>5, <1>6
    <3>2. IsFiniteSet(old \cup {i}) /\ Cardinality(old \cup {i}) = Cardinality(old) + 1
      BY <2>3, <2>4, FS_AddElement
    <3>3. Cardinality(new) <= Cardinality(old) + 1
      BY <3>1, <3>2, FS_Subset
    <3>4. reader'.late = reader.late + 1
      BY <2>1, <2>4, <1>1
    <3> QED BY <3>3, <3>4, <2>2, <2>3
  <2>5. CASE i \notin new \ old
    <3>1. new \in SUBSET old
      BY <2>5, <1>5, <1>6
    <3>2. Cardinality(new) <= Cardinality(old)
      BY <3>1, <2>3, FS_Subset
    <3>3. reader'.late = reader.late
      BY <2>5, <1>1
    <3> QED BY <3>2, <3>3, <2>2, <2>3
  <2> QED BY <2>4, <2>5
<1> QED BY <1>3, <1>11, <1>12, <1>13, <1>14, <1>15 DEF CatalogueInductive

\* Whatever others do, a row becomes another.
LEMMA OthersChangeRows ==
  ASSUME CatalogueTypeOK, NEW i \in Entries,
         Add(i) \/ Publish(i) \/ Archive(i) \/ Submit(i) \/ Reprice(i) \/ Destroy(i)
  PROVE  \E row \in Listing : Become(i, row)
<1>1. entry[i] \in Listing
  BY CatalogueParts
<1>2. ASSUME NEW r \in Listing
      PROVE  /\ [r EXCEPT !.status = "published"] \in Listing
             /\ [r EXCEPT !.status = "archived"] \in Listing
             /\ [r EXCEPT !.status = "draft", !.submitted = 1] \in Listing
             /\ [r EXCEPT !.price = 1 - @] \in Listing
  <2>1. r.price \in {0, 1} /\ 1 - r.price \in {0, 1}
    <3>1. r.price \in {0, 1}
      BY DEF Listing
    <3> QED BY <3>1
  <2>2. [r EXCEPT !.price = 1 - @] \in Listing
    BY <2>1 DEF Listing
  <2>3. [r EXCEPT !.status = "draft", !.submitted = 1] \in Listing
    BY DEF Listing
  <2> QED BY <2>2, <2>3 DEF Listing
<1>3. Absent \in Listing
  BY DEF Listing, Absent
<1>4. CASE Add(i)
  <2>1. PICK status \in {"published", "draft"}, price \in {0, 1} :
            Become(i, [status |-> status, price |-> price, submitted |-> IF status = "draft" THEN 1 ELSE 0])
    BY <1>4 DEF Add
  <2>2. [status |-> status, price |-> price, submitted |-> IF status = "draft" THEN 1 ELSE 0] \in Listing
    BY DEF Listing
  <2> QED BY <2>1, <2>2
<1> QED BY <1>1, <1>2, <1>3, <1>4 DEF Publish, Archive, Submit, Reprice, Destroy

\* At the start nobody reads.
LEMMA CatalogueInitInductive == CatalogueInit => CatalogueInductive
<1> SUFFICES ASSUME CatalogueInit PROVE CatalogueInductive
  OBVIOUS
<1>1. /\ entry \in [Entries -> {Absent} \cup
                    [status : {"published"}, price : {0, 1}, submitted : {0}] \cup
                    [status : {"draft", "archived"}, price : {0, 1}, submitted : {1}]]
      /\ reader = NoReader /\ changes = 0
  BY DEF CatalogueInit
<1>2. NoReader \in Reader /\ NoReader.pc = "idle"
  <2>1. 1 \in Nat \ {0} /\ {} \in SUBSET Entries /\ Newest \in Orders
    BY DEF Orders
  <2> QED BY <2>1 DEF NoReader, Reader
<1>3. entry \in [Entries -> Listing]
  BY <1>1 DEF Listing, Absent
<1>4. changes \in 0..MaxChanges
  BY <1>1, CatalogueAssumption
<1> QED BY <1>1, <1>2, <1>3, <1>4 DEF CatalogueInductive, CatalogueTypeOK, KeptAreListed, CountHolds, MissesNone,
                                      RepeatsNone, PagesMissNothing

\* Every step of the lists keeps the invariant.
LEMMA CatalogueStepInductive ==
  CatalogueInductive /\ [CatalogueNext]_catalogueVars => CatalogueInductive'
<1> SUFFICES ASSUME CatalogueInductive, [CatalogueNext]_catalogueVars PROVE CatalogueInductive'
  OBVIOUS
<1>1. CatalogueTypeOK
  BY DEF CatalogueInductive
<1>2. CASE Open \/ Count \/ Show \/ Close
  BY <1>1, <1>2, OpenStep, CountStep, ShowStep, CloseStep
<1>3. ASSUME NEW i \in Entries,
             Add(i) \/ Publish(i) \/ Archive(i) \/ Submit(i) \/ Reprice(i) \/ Destroy(i)
      PROVE  CatalogueInductive'
  <2>1. PICK row \in Listing : Become(i, row)
    BY <1>1, <1>3, OthersChangeRows
  <2> QED BY <2>1, BecomeStep
<1>4. CASE UNCHANGED catalogueVars
  <2>1. entry' = entry /\ reader' = reader /\ changes' = changes
    BY <1>4 DEF catalogueVars
  <2>2. \A i : Ahead(i)' = Ahead(i)
    BY <2>1 DEF Ahead
  <2>3. Turned' = Turned /\ Last' = Last
    BY <2>1 DEF Turned, Last
  <2> QED BY <2>1, <2>2, <2>3 DEF CatalogueInductive, CatalogueTypeOK, KeptAreListed, CountHolds, MissesNone,
                                 RepeatsNone, PagesMissNothing
<1> QED BY <1>2, <1>3, <1>4 DEF CatalogueNext

\* For any advertisements, size of the pages and number of changes meanwhile: who turns
\* the pages of a list to the last one misses none that has stayed on it, if none has
\* left it, but for as many as have come between the count of the last page and its
\* rows; and sees none twice, if none has entered it.
THEOREM PagesComplete == CatalogueSpec => []PagesMissNothing
<1>1. CatalogueInit => CatalogueInductive
  BY CatalogueInitInductive
<1>2. CatalogueInductive /\ [CatalogueNext]_catalogueVars => CatalogueInductive'
  BY CatalogueStepInductive
<1>3. CatalogueInductive => PagesMissNothing
  BY DEF CatalogueInductive
<1> QED BY <1>1, <1>2, <1>3, PTL DEF CatalogueSpec

----------------------------------------------------------------------------
(* DemoData.                                                               *)

\* The foreign keys, record by record.
LEMMA RefsOf ==
  /\ \A r \in DemoAccounts : Refs[r] = {}
  /\ Refs["ad"] = {"user1"}
  /\ Refs["question"] = {"ad", "user2"} /\ Refs["thread"] = {"ad", "user2"}
  /\ Refs["private"] = {"thread", "user2"}
  /\ Refs["log"] = {"admin"}
  /\ \A r \in Records : Refs[r] \subseteq {"admin", "user1", "user2", "ad", "question", "thread"}
  /\ \A r \in Records \ {"log"} : "admin" \notin Refs[r]
BY DEF Refs, Records, Keys, Foreign, DemoAccounts

\* Of two keys at most one comes now.
LEMMA OneComes == ASSUME NEW j \in Keys, NEW k \in Keys, Comes(j), Comes(k) PROVE j = k
<1> DEFINE order == IF run.mode = "seed" THEN SeedOrder ELSE FlushOrder
<1>1. DOMAIN order = 1..9
  BY DEF SeedOrder, FlushOrder
<1>2. PICK p \in 1..9 : order[p] = j /\ \A h \in 1..(p - 1) : order[h] \notin run.todo
  BY <1>1 DEF Comes
<1>3. PICK q \in 1..9 : order[q] = k /\ \A h \in 1..(q - 1) : order[h] \notin run.todo
  BY <1>1 DEF Comes
<1>4. j \in run.todo /\ k \in run.todo
  BY DEF Comes
<1> HIDE DEF order
<1>5. p \notin 1..(q - 1)
  BY <1>2, <1>3, <1>4
<1>6. q \notin 1..(p - 1)
  BY <1>2, <1>3, <1>4
<1>7. p = q
  BY <1>5, <1>6
<1> QED BY <1>2, <1>3, <1>7

\* seed comes to the administrator first and to the accounts before the rest; flush
\* comes to what needs a record before it, and to the administrator last.
LEMMA Orderly ==
  ASSUME NEW k \in Keys, Comes(k)
  PROVE  /\ run.mode = "seed" /\ k # "admin" => "admin" \notin run.todo
         /\ run.mode = "seed" /\ k \notin DemoAccounts => DemoAccounts \cap run.todo = {}
         /\ run.mode = "flush" => \A r \in Keys : k \in Refs[r] => r \notin run.todo
         /\ run.mode = "flush" /\ k = "admin" => \A r \in Keys \ {k} : r \notin run.todo
<1>1. CASE run.mode = "seed"
  <2>1. PICK p \in 1..9 : SeedOrder[p] = k /\ \A h \in 1..(p - 1) : SeedOrder[h] \notin run.todo
    BY <1>1 DEF Comes, SeedOrder
  <2>2. SeedOrder[1] = "admin" /\ SeedOrder[2] = "user1" /\ SeedOrder[3] = "user2"
    BY DEF SeedOrder
  <2>3. k # "admin" => 1 \in 1..(p - 1)
    BY <2>1, <2>2
  <2>4. k \notin DemoAccounts => 1 \in 1..(p - 1) /\ 2 \in 1..(p - 1) /\ 3 \in 1..(p - 1)
    BY <2>1, <2>2 DEF DemoAccounts
  <2>5. k \notin DemoAccounts => DemoAccounts \cap run.todo = {}
    BY <2>1, <2>2, <2>4 DEF DemoAccounts
  <2> QED BY <1>1, <2>1, <2>2, <2>3, <2>5
<1>2. CASE run.mode = "flush"
  <2>1. PICK p \in 1..9 : FlushOrder[p] = k /\ \A h \in 1..(p - 1) : FlushOrder[h] \notin run.todo
    BY <1>2 DEF Comes, FlushOrder
  <2>2. /\ FlushOrder[1] = "private" /\ FlushOrder[2] = "thread" /\ FlushOrder[3] = "answer"
        /\ FlushOrder[4] = "review" /\ FlushOrder[5] = "question" /\ FlushOrder[6] = "ad"
        /\ FlushOrder[7] = "user2" /\ FlushOrder[8] = "user1" /\ FlushOrder[9] = "admin"
    BY DEF FlushOrder
  <2>3. ASSUME NEW r \in Keys, k \in Refs[r] PROVE r \notin run.todo
    <3>1. r \in {"private", "thread", "answer", "review", "question", "ad"}
      BY <2>3 DEF Refs, Records, Keys, DemoAccounts
    <3>2. /\ k \in {"ad", "user2", "question", "user1", "thread"}
          /\ k = "thread" => r = "private"
          /\ k = "question" => r = "answer"
          /\ k = "ad" => r \in {"thread", "answer", "review", "question"}
          /\ k = "user2" => r \in {"private", "thread", "review", "question"}
          /\ k = "user1" => r \in {"answer", "ad"}
      BY <2>3, <3>1 DEF Refs, Records, Keys, Foreign, DemoAccounts
    <3>3. PICK q \in 1..6 : FlushOrder[q] = r
      BY <3>1, <2>2
    <3>4. q \in 1..(p - 1)
      BY <2>1, <2>2, <3>2, <3>3
    <3> QED BY <2>1, <3>3, <3>4
  <2>4. ASSUME k = "admin", NEW r \in Keys \ {k} PROVE r \notin run.todo
    <3>1. p = 9
      BY <2>1, <2>2, <2>4
    <3>2. PICK q \in 1..8 : FlushOrder[q] = r
      BY <2>2, <2>4 DEF Keys, DemoAccounts
    <3> QED BY <2>1, <3>1, <3>2
  <2> QED BY <1>2, <2>3, <2>4
<1> QED BY <1>1, <1>2

\* One round of a deletion.
Round(s, within) == s \cup {r \in within : Refs[r] \cap s # {}}

\* A deletion goes three rounds.
LEMMA ClosureIsRounds ==
  ASSUME NEW r \in Records, NEW within \in SUBSET Records
  PROVE  Closure({r}, within) = Round(Round(Round({r}, within), within), within)
<1> DEFINE More(s) == s \cup (within \cap UNION {ReferredBy[q] : q \in s})
<1>1. ASSUME NEW s \in SUBSET Records PROVE More(s) = Round(s, within) /\ Round(s, within) \in SUBSET Records
  <2>1. \A q \in s : ReferredBy[q] = {t \in Records : q \in Refs[t]}
    BY DEF ReferredBy
  <2>2. ASSUME NEW t PROVE t \in More(s) <=> t \in Round(s, within)
    BY <2>1 DEF Round
  <2>3. More(s) = Round(s, within)
    <3> HIDE DEF More
    <3> QED BY <2>2
  <2> QED BY <2>3 DEF Round
<1>2. Closure({r}, within) = More(More(More({r})))
  BY DEF Closure
<1>3. {r} \in SUBSET Records
  OBVIOUS
<1> HIDE DEF More
<1> QED BY <1>1, <1>2, <1>3

\* A deletion takes rows there are; an account only if it is the one deleted.
LEMMA ClosureOf ==
  ASSUME NEW r \in Records, NEW within \in SUBSET Records
  PROVE  /\ r \in Closure({r}, within) /\ Closure({r}, within) \subseteq {r} \cup within
         /\ "admin" \in Closure({r}, within) => r = "admin"
<1>1. Closure({r}, within) = Round(Round(Round({r}, within), within), within)
  BY ClosureIsRounds
<1>2. Refs["admin"] = {}
  BY RefsOf DEF DemoAccounts
<1> QED BY <1>1, <1>2 DEF Round

\* And all rows that refer to one it takes: the chains of foreign keys are no longer.
LEMMA ClosureIsComplete ==
  ASSUME NEW r \in Records, NEW within \in SUBSET Records, NEW q \in within, NEW j \in Refs[q],
         j \in Closure({r}, within)
  PROVE  q \in Closure({r}, within)
<1> DEFINE s1 == Round({r}, within)
           s2 == Round(s1, within)
           s3 == Round(s2, within)
<1>1. Closure({r}, within) = s3
  BY ClosureIsRounds
<1>2. /\ Refs["thread"] = {"ad", "user2"} /\ Refs["question"] = {"ad", "user2"}
      /\ Refs["ad"] = {"user1"} /\ \A a \in DemoAccounts : Refs[a] = {}
  BY RefsOf
<1>3. j \in DemoAccounts \cup {"ad", "question", "thread"}
  BY RefsOf DEF DemoAccounts
<1>4. \A a \in DemoAccounts : a \in s3 => a = r
  <2>1. ASSUME NEW a \in DemoAccounts, NEW s, a \in Round(s, within) PROVE a \in s
    BY <1>2, <2>1 DEF Round
  <2> QED BY <2>1
<1>5. r \in s1 /\ s1 \subseteq s2 /\ s2 \subseteq s3
  BY DEF Round
<1> HIDE DEF s3
<1>6. "ad" \in s2 => "ad" \in s1
  <2>1. "ad" \in s2 => "ad" \in s1 \/ ("ad" \in within /\ "user1" \in s1)
    BY <1>2 DEF Round
  <2>2. "user1" \in s1 => r = "user1"
    BY <1>4, <1>5 DEF DemoAccounts
  <2>3. r = "user1" /\ "ad" \in within => "ad" \in s1
    BY <1>2 DEF Round
  <2> QED BY <2>1, <2>2, <2>3
<1>7. "ad" \in s3 => "ad" \in s2
  <2>1. "ad" \in s3 => "ad" \in s2 \/ ("ad" \in within /\ "user1" \in s2)
    BY <1>2 DEF Round, s3
  <2>2. "user1" \in s2 => r = "user1"
    BY <1>4, <1>5 DEF DemoAccounts
  <2>3. r = "user1" /\ "ad" \in within => "ad" \in s1
    BY <1>2 DEF Round
  <2> QED BY <2>1, <2>2, <2>3, <1>5
<1>8. ASSUME NEW t \in {"question", "thread"}, t \in s3 PROVE t \in s2
  <2>1. t \in s2 \/ (t \in within /\ ("ad" \in s2 \/ "user2" \in s2))
    BY <1>2, <1>8 DEF Round, s3
  <2>2. "user2" \in s2 => "user2" \in s1
    BY <1>4, <1>5 DEF DemoAccounts
  <2>3. t \in within /\ ("ad" \in s1 \/ "user2" \in s1) => t \in s2
    BY <1>2 DEF Round
  <2> QED BY <2>1, <2>2, <2>3, <1>6
<1>9. j \in s2
  BY <1>1, <1>3, <1>4, <1>5, <1>7, <1>8
<1> HIDE DEF s1, s2
<1> QED BY <1>1, <1>9 DEF Round, s3

\* Before the first run there is nothing.
LEMMA NoRunIs ==
  /\ NoRun \in Run /\ NoMarks \in Marks
  /\ NoRun.mode = "none" /\ NoRun.pc = "idle" /\ NoRun.gone = {} /\ NoRun.added = {}
  /\ NoRun.todo = {} /\ NoRun.visits = 0 /\ NoRun.late = {} /\ NoRun.bereft = FALSE
  /\ NoRun.marks = NoMarks /\ NoRun.entries = NoMarks
  /\ \A k \in Keys : NoMarks[k] = NoRecord
BY DemoAssumption DEF NoRun, Run, NoMarks, Marks

LEMMA DemoInitInductive == DemoInit => DemoInductive
<1> SUFFICES ASSUME DemoInit PROVE DemoInductive
  OBVIOUS
<1>1. rows = {} /\ marks = NoMarks /\ run = NoRun /\ lost = {}
  BY DEF DemoInit
<1>2. DemoTypeOK
  BY <1>1, NoRunIs DEF DemoTypeOK, MarksNameDemoRecords
<1>3. Modes /\ OneThread /\ Referred /\ RunMarks /\ ReadMarks
  BY <1>1, NoRunIs DEF Modes, OneThread, Referred, RunMarks, ReadMarks
<1>4. AccountsKnown /\ CheckedIsFree /\ KeptAreNeeded
  BY <1>1, NoRunIs DEF AccountsKnown, CheckedIsFree, KeptAreNeeded
<1> QED BY <1>2, <1>3, <1>4 DEF DemoInductive

\* A run begins with the marks that are committed.
LEMMA StartStep == ASSUME DemoInductive, StartSeed \/ StartFlush PROVE DemoInductive'
<1> USE DEF DemoInductive
<1>1. /\ rows' = rows /\ marks' = marks /\ lost' = lost /\ run'.mode \in {"seed", "flush"} /\ run'.pc = "next"
      /\ run'.marks = marks /\ run'.entries = marks /\ run'.gone = {} /\ run'.added = {}
      /\ run'.visits = 0 /\ run'.late = {} /\ run' \in Run
      /\ run'.mode = "seed" => run'.todo = Keys
      /\ run'.mode = "flush" => run'.todo = {k \in Keys : marks[k] # NoRecord}
  <2>1. CASE StartSeed
    <3>1. run' = [NoRun EXCEPT !.mode = "seed", !.pc = "next", !.todo = Keys,
                               !.marks = marks, !.entries = marks]
      BY <2>1 DEF StartSeed
    <3> DEFINE todo == Keys
    <3>2. run' = [NoRun EXCEPT !.mode = "seed", !.pc = "next", !.todo = todo,
                               !.marks = marks, !.entries = marks]
      BY <3>1, NoRunIs DEF Run
    <3>3. todo \in SUBSET Keys /\ marks \in Marks
      BY DEF DemoTypeOK
    <3> HIDE DEF todo
    <3>4. run' \in Run
      BY <3>2, <3>3, NoRunIs DEF Run
    <3>5. /\ run'.mode = "seed" /\ run'.pc = "next" /\ run'.todo = todo /\ run'.marks = marks
          /\ run'.entries = marks /\ run'.gone = {} /\ run'.added = {} /\ run'.visits = 0 /\ run'.late = {}
      BY <3>2, NoRunIs DEF Run
    <3> QED BY <2>1, <3>4, <3>5 DEF StartSeed, todo
  <2>2. CASE StartFlush
    <3>1. run' = [NoRun EXCEPT !.mode = "flush", !.pc = "next", !.marks = marks, !.entries = marks,
                               !.todo = {k \in Keys : marks[k] # NoRecord}]
      BY <2>2 DEF StartFlush
    <3> DEFINE todo == {k \in Keys : marks[k] # NoRecord}
    <3>2. run' = [NoRun EXCEPT !.mode = "flush", !.pc = "next", !.todo = todo,
                               !.marks = marks, !.entries = marks]
      BY <3>1, NoRunIs DEF Run
    <3>3. todo \in SUBSET Keys /\ marks \in Marks
      BY DEF DemoTypeOK
    <3> HIDE DEF todo
    <3>4. run' \in Run
      BY <3>2, <3>3, NoRunIs DEF Run
    <3>5. /\ run'.mode = "flush" /\ run'.pc = "next" /\ run'.todo = todo /\ run'.marks = marks
          /\ run'.entries = marks /\ run'.gone = {} /\ run'.added = {} /\ run'.visits = 0 /\ run'.late = {}
      BY <3>2, NoRunIs DEF Run
    <3> QED BY <2>2, <3>4, <3>5 DEF StartFlush, todo
  <2> QED BY <2>1, <2>2
<1>2. DemoTypeOK'
  BY <1>1 DEF DemoTypeOK, MarksNameDemoRecords
<1>3. Modes'
  BY <1>1 DEF Modes
<1>4. OneThread' /\ Referred'
  BY <1>1 DEF OneThread, Referred
<1>5. RunMarks'
  BY <1>1 DEF RunMarks, View, DemoTypeOK, MarksNameDemoRecords
<1>6. ReadMarks' /\ AccountsKnown'
  BY <1>1 DEF ReadMarks, AccountsKnown, Keys
<1>7. CheckedIsFree'
  BY <1>1 DEF CheckedIsFree
<1>8. KeptAreNeeded'
  <2>1. run'.mode = "flush" /\ "admin" \notin run'.todo => marks["admin"] = NoRecord
    BY <1>1 DEF Keys, DemoAccounts
  <2> QED BY <1>1, <2>1 DEF KeptAreNeeded, View
<1> QED BY <1>2, <1>3, <1>4, <1>5, <1>6, <1>7, <1>8

\* A run that fails leaves the rows and marks that are committed.
LEMMA RollBackStep == ASSUME DemoInductive, RollBackRun PROVE DemoInductive'
<1>1. run' = NoRun /\ rows' = rows /\ marks' = marks /\ lost' = lost
  BY DEF RollBackRun
<1>2. NoRun' = NoRun
  BY DEF NoRun, NoMarks
<1>3. DemoTypeOK'
  BY <1>1, NoRunIs DEF DemoTypeOK, MarksNameDemoRecords, DemoInductive
<1>4. Modes' /\ OneThread' /\ Referred' /\ RunMarks' /\ ReadMarks'
  BY <1>1, NoRunIs DEF Modes, OneThread, Referred, RunMarks, ReadMarks, DemoInductive
<1>5. AccountsKnown' /\ CheckedIsFree' /\ KeptAreNeeded'
  BY <1>1, NoRunIs DEF AccountsKnown, CheckedIsFree, KeptAreNeeded, DemoInductive
<1> QED BY <1>3, <1>4, <1>5 DEF DemoInductive

\* The commit: the run's view is what is committed now.
LEMMA CommitStep == ASSUME DemoInductive, CommitRun PROVE DemoInductive'
<1> USE DEF DemoInductive
<1>1. /\ run.pc = "next" /\ run.todo = {} /\ \A r \in View : Refs[r] \subseteq View
      /\ (\E k \in Keys : run.marks[k] # NoRecord) => "admin" \in View
      /\ rows' = View /\ marks' = run.marks /\ run' = NoRun
      /\ "admin" \in View => lost' = IF run.bereft THEN (View \cap Keys) \ run.added ELSE lost \cap View
      /\ "admin" \notin View => lost' = {}
  BY DEF CommitRun
<1>2. /\ run.added \subseteq Keys /\ run.marks \in Marks /\ rows \subseteq Records /\ run.mode \in {"seed", "flush"}
      /\ lost \subseteq Keys /\ run.added \cap rows = {}
  BY <1>1 DEF DemoTypeOK, MarksNameDemoRecords, Run, Modes
<1>3. View \subseteq Records
  BY <1>2 DEF View, Records
<1>4. DemoTypeOK'
  <2>1. MarksNameDemoRecords'
    <3>1. ASSUME "admin" \in View, NEW k \in (View \cap Keys) \ lost' PROVE run.marks[k] = k
      <4>1. CASE k \in run.added
        BY <4>1 DEF RunMarks
      <4>2. CASE k \notin run.added
        <5>1. k \in rows \ run.gone /\ k \notin lost /\ ~ run.bereft
          BY <1>1, <3>1, <4>2 DEF View
        <5> QED BY <1>1, <1>2, <3>1, <5>1 DEF RunMarks
      <4> QED BY <4>1, <4>2
    <3>2. run'.added = {}
      BY <1>1, NoRunIs
    <3> QED BY <1>1, <3>1, <3>2 DEF MarksNameDemoRecords, RunMarks
  <2>2. lost' \subseteq rows' \cap Keys
    BY <1>1, <1>2
  <2> QED BY <1>1, <1>2, <1>3, <2>1, <2>2, NoRunIs DEF DemoTypeOK
<1>5. OneThread'
  <2>1. "ownThread" \in View => "ownThread" \in rows
    BY <1>2 DEF View, Keys, DemoAccounts
  <2>2. "private" \in View => "thread" \in View
    BY <1>1, RefsOf
  <2> QED BY <1>1, <2>1, <2>2, NoRunIs DEF OneThread, View
<1>6. ASSUME NEW k \in View \cap Keys, run.marks[k] = NoRecord, NEW j \in Refs[k]
      PROVE  run.marks[j] = NoRecord
  <2>1. k \in rows \ run.gone /\ k \in Records /\ k \notin run.added
    BY <1>6, DemoAssumption DEF RunMarks, View, Records
  <2>2. j \in Keys /\ j \in rows /\ j \notin run.added
    <3>1. j \in rows /\ j \in Keys
      BY <1>6, <2>1, RefsOf DEF Referred, Keys, DemoAccounts
    <3> QED BY <3>1, <1>2
  <2>3. run.entries[k] = NoRecord => run.entries[j] = NoRecord
    BY <1>2, <1>6, <2>1 DEF Referred
  <2>4. CASE run.mode = "seed"
    BY <1>6, <2>1, <2>2, <2>3, <2>4 DEF ReadMarks
  <2>5. CASE run.mode = "flush"
    BY <1>6, <2>1, <2>2, <2>3, <2>5 DEF ReadMarks
  <2> QED BY <1>2, <2>4, <2>5
<1>7. Referred'
  BY <1>1, <1>6, NoRunIs DEF Referred
<1>8. (Modes /\ RunMarks /\ ReadMarks /\ AccountsKnown /\ CheckedIsFree /\ KeptAreNeeded)'
  BY <1>1, NoRunIs DEF Modes, RunMarks, ReadMarks, AccountsKnown, CheckedIsFree, KeptAreNeeded
<1> QED BY <1>4, <1>5, <1>7, <1>8

\* What seed does not find by an entry is not there: without its entry there would be an
\* account without one, and seed would not have come so far.
LEMMA NotThere ==
  ASSUME DemoInductive, run.mode = "seed", NEW k \in Keys, Comes(k), ~ Existing(k), k \notin DemoAccounts
  PROVE  k \notin View
<1> USE DEF DemoInductive
<1>1. SUFFICES ASSUME k \in View PROVE FALSE
  OBVIOUS
<1>2. run.entries[k] = NoRecord
  BY <1>1, DemoAssumption DEF Existing, RunMarks
<1>3. k \in rows /\ k \in Records
  BY <1>1, <1>2, DemoAssumption DEF View, RunMarks, Records
<1>4. PICK a \in DemoAccounts : a \in Refs[k]
  BY DEF Refs, Records, Keys, DemoAccounts
<1>5. a \in rows /\ run.entries[a] = NoRecord
  BY <1>2, <1>3, <1>4 DEF Referred
<1>6. a \in run.todo
  BY <1>4, <1>5, DemoAssumption DEF AccountsKnown, Records, Keys
<1> QED BY <1>4, <1>6, Orderly

\* A record that seed makes was not there; it has its mark, and no second conversation is
\* made.
LEMMA CreatedStep ==
  ASSUME DemoInductive, run.mode = "seed", NEW k \in Keys, Comes(k), Created(k),
         k \notin View, k = "thread" => "ownThread" \notin View
  PROVE  DemoInductive'
<1> USE DEF DemoInductive
<1>1. /\ rows' = rows /\ marks' = marks /\ lost' = lost
      /\ run' = [run EXCEPT !.added = @ \cup {k}, !.marks[k] = k, !.entries[k] = k, !.todo = @ \ {k}]
  BY DEF Created
<1>2. /\ run \in Run /\ rows \subseteq Records /\ run.gone = {} /\ run.pc # "delete"
      /\ run.marks \in Marks /\ run.entries \in Marks /\ run.todo \subseteq Keys /\ k \in run.todo
  BY DEF DemoTypeOK, Run, Modes, Comes
<1>3. /\ run'.added = run.added \cup {k} /\ run'.marks = [run.marks EXCEPT ![k] = k]
      /\ run'.todo = run.todo \ {k} /\ run'.mode = run.mode /\ run'.pc = run.pc /\ run'.gone = run.gone
      /\ run'.entries = [run.entries EXCEPT ![k] = k] /\ run'.visits = run.visits /\ run'.late = run.late
      /\ run'.bereft = run.bereft /\ run' \in Run
  BY <1>1, <1>2 DEF Run, Marks, Records
<1>4. View = rows \cup run.added /\ View' = rows \cup run.added \cup {k} /\ k \notin rows
  BY <1>1, <1>2, <1>3 DEF View
<1>5. DemoTypeOK'
  BY <1>1, <1>3, <1>4 DEF DemoTypeOK, MarksNameDemoRecords
<1>6. Modes'
  BY <1>2, <1>3 DEF Modes
<1>7. OneThread'
  BY <1>1, <1>3, <1>4 DEF OneThread
<1>8. \A j \in Keys : /\ run'.marks[j] = IF j = k THEN k ELSE run.marks[j]
                      /\ run'.entries[j] = IF j = k THEN k ELSE run.entries[j]
  BY <1>2, <1>3 DEF Marks
<1>9. Referred'
  <2>1. ASSUME NEW q \in rows \cap Keys, run'.entries[q] = NoRecord, NEW j \in Refs[q]
        PROVE  run'.entries[j] = NoRecord
    <3>1. q # k /\ j \in rows /\ j \in Keys
      BY <1>4, <2>1, RefsOf DEF Referred, Records, Keys, DemoAccounts
    <3>2. run.entries[q] = NoRecord
      BY <1>8, <2>1, <3>1
    <3>3. run.entries[j] = NoRecord
      BY <2>1, <3>2 DEF Referred
    <3> QED BY <1>4, <1>8, <3>1, <3>3
  <2> QED BY <1>1, <1>3, <2>1 DEF Referred
<1>10. RunMarks'
  <2>1. run.mode = "seed" /\ k # "admin" => "admin" \notin run.todo
    BY Orderly
  <2>2. /\ \A j \in Keys : run'.marks[j] \in {j, NoRecord} /\ run'.entries[j] \in {j, NoRecord}
        /\ \A j \in run'.added : run'.marks[j] = j /\ run'.entries[j] = j
    BY <1>2, <1>3, <1>8 DEF RunMarks, Run
  <2>3. run'.mode = "seed" /\ "admin" \in run'.todo => run'.todo = Keys
    BY <1>3, <2>1
  <2>4. ASSUME "admin" \in View', NEW j \in rows \cap Keys
        PROVE  run'.marks[j] = j \/ j \in lost \/ run.bereft \/ j \in run'.todo
    <3>1. j # k
      BY <1>4, <2>4
    <3>2. CASE k = "admin"
      BY <3>1, <3>2, <1>2, <1>3, <2>4 DEF RunMarks
    <3>3. CASE k # "admin"
      BY <3>1, <3>3, <2>4, <1>2, <1>3, <1>4, <1>8 DEF RunMarks
    <3> QED BY <3>2, <3>3
  <2> QED BY <1>1, <1>2, <1>3, <2>2, <2>3, <2>4 DEF RunMarks
<1>11. ReadMarks'
  BY <1>2, <1>3, <1>8 DEF ReadMarks
<1>12. AccountsKnown'
  <2>1. ASSUME NEW a \in DemoAccounts \cap rows PROVE a \in run'.todo \/ run'.entries[a] = a
    <3>1. a # k /\ a \in Keys
      BY <1>4, <2>1 DEF Keys
    <3> QED BY <1>3, <1>8, <2>1, <3>1 DEF AccountsKnown
  <2> QED BY <1>1, <2>1 DEF AccountsKnown
<1>13. CheckedIsFree' /\ KeptAreNeeded'
  BY <1>1, <1>2, <1>3 DEF CheckedIsFree, KeptAreNeeded
<1> QED BY <1>5, <1>6, <1>7, <1>9, <1>10, <1>11, <1>12, <1>13

\* What a set of visitors' records needs is reached in three rounds.
LEMMA NeededIsClosed ==
  ASSUME NEW set \in SUBSET (Foreign \ {"log"})
  PROVE  /\ set \subseteq Needed(set)
         /\ \A r \in Needed(set) : r \in Records => Refs[r] \subseteq Needed(set)
<1> DEFINE More(s) == s \cup UNION {Refs[r] : r \in s}
           n1 == More(set)
           n2 == More(n1)
           n3 == More(n2)
<1>1. Needed(set) = n3
  BY DEF Needed
<1>2. set \subseteq n1 /\ n1 \subseteq n2 /\ n2 \subseteq n3
  OBVIOUS
<1>3. n1 \subseteq set \cup {"user1", "user2", "ad", "question", "thread"}
  BY RefsOf DEF Records, Foreign
<1>4. n2 \subseteq n1 \cup {"user1", "user2", "ad"}
  <2>1. ASSUME NEW r \in n1 PROVE Refs[r] \subseteq n1 \cup {"user1", "user2", "ad"}
    BY <2>1, <1>3, RefsOf DEF DemoAccounts
  <2> HIDE DEF n1
  <2> QED BY <2>1
<1>5. n3 \subseteq n2 \cup {"user1"}
  <2>1. ASSUME NEW r \in n2 PROVE Refs[r] \subseteq n2 \cup {"user1"}
    <3>1. CASE r \in n1
      BY <3>1
    <3>2. CASE r \in {"user1", "user2", "ad"}
      BY <3>2, RefsOf DEF DemoAccounts
    <3> HIDE DEF n1, n2
    <3> QED BY <1>4, <2>1, <3>1, <3>2
  <2> HIDE DEF n2
  <2> QED BY <2>1
<1>6. ASSUME NEW r \in n3 PROVE Refs[r] \subseteq n3
  <2>1. CASE r \in n2
    BY <2>1
  <2>2. CASE r = "user1"
    BY <2>2, RefsOf DEF DemoAccounts
  <2> HIDE DEF n2, n3
  <2> QED BY <1>5, <1>6, <2>1, <2>2
<1> QED BY <1>1, <1>2, <1>6

\* seed passes what it need not make: a record it knows, or the conversation it found.
LEMMA PassedStep ==
  ASSUME DemoInductive, run.mode = "seed", rows' = rows, marks' = marks, lost' = lost,
         NEW done \in SUBSET Keys, run' = [run EXCEPT !.todo = @ \ done],
         \A j \in done \cap rows : run.entries[j] = j,
         "admin" \in run.todo => "admin" \in done
  PROVE  DemoInductive'
<1> USE DEF DemoInductive
<1>1. /\ run \in Run /\ run.gone = {} /\ run.pc # "delete"
  BY DEF DemoTypeOK, Run, Modes
<1>2. /\ run'.todo = run.todo \ done /\ run'.mode = run.mode /\ run'.pc = run.pc /\ run'.gone = run.gone
      /\ run'.added = run.added /\ run'.marks = run.marks
      /\ run'.entries = run.entries /\ run'.visits = run.visits /\ run'.late = run.late
      /\ run'.bereft = run.bereft /\ run' \in Run
  BY <1>1 DEF Run
<1>3. View' = View
  BY <1>2 DEF View
<1>4. DemoTypeOK'
  BY <1>2 DEF DemoTypeOK, MarksNameDemoRecords
<1>5. Modes' /\ OneThread' /\ Referred' /\ ReadMarks'
  BY <1>2 DEF Modes, OneThread, Referred, ReadMarks
<1>6. RunMarks'
  <2>1. \A j \in done \cap rows : run.marks[j] = j \/ run.bereft
    BY DEF ReadMarks, RunMarks
  <2> QED BY <1>1, <1>2, <1>3, <2>1 DEF RunMarks
<1>7. AccountsKnown'
  BY <1>2 DEF AccountsKnown
<1>8. CheckedIsFree' /\ KeptAreNeeded'
  BY <1>1, <1>2 DEF CheckedIsFree, KeptAreNeeded
<1> QED BY <1>4, <1>5, <1>6, <1>7, <1>8

LEMMA SeedSteps == ASSUME DemoInductive, SeedStep \/ SeedThread PROVE DemoInductive'
<1>1. run.mode = "seed"
  BY DEF SeedStep, SeedThread
<1>2. PICK k \in Keys :
        /\ Comes(k)
        /\ \/ Existing(k) /\ Passed(k)
           \/ k \in DemoAccounts /\ k \notin View /\ Created(k)
           \/ ~ Existing(k) /\ k \notin DemoAccounts \cup {"thread"} /\ Created(k)
           \/ k = "thread" /\ {"thread", "ownThread"} \cap View = {} /\ Created(k)
           \/ /\ ~ Existing(k) /\ k = "thread" /\ {"thread", "ownThread"} \cap View # {}
              /\ run' = FoundThread /\ UNCHANGED <<rows, marks, lost>>
  <2>1. CASE SeedStep
    BY <2>1 DEF SeedStep
  <2>2. CASE SeedThread
    BY <2>2 DEF SeedThread, Keys, DemoAccounts
  <2> QED BY <2>1, <2>2
<1>3. ASSUME k \notin View, k = "thread" => "ownThread" \notin View, Created(k)
      PROVE  DemoInductive'
  BY <1>1, <1>2, <1>3, CreatedStep
<1>4. CASE Existing(k) /\ Passed(k)
  <2> DEFINE done == {k}
  <2>1. \A j \in done \cap rows : run.entries[j] = j
    BY <1>4 DEF Existing, DemoInductive, RunMarks
  <2>2. run' = [run EXCEPT !.todo = @ \ done] /\ rows' = rows /\ marks' = marks /\ lost' = lost
    BY <1>4 DEF Passed
  <2>3. "admin" \in run.todo => "admin" \in done
    BY <1>1, <1>2, Orderly
  <2>4. done \in SUBSET Keys
    OBVIOUS
  <2> HIDE DEF done
  <2> QED BY <1>1, <2>1, <2>2, <2>3, <2>4, PassedStep
<1>5. CASE /\ ~ Existing(k) /\ k = "thread" /\ {"thread", "ownThread"} \cap View # {}
           /\ run' = FoundThread /\ UNCHANGED <<rows, marks, lost>>
  <2> DEFINE done == {"thread", "private"}
  <2>1. "thread" \notin View
    BY <1>1, <1>2, <1>5, NotThere DEF DemoAccounts
  <2>2. "thread" \notin rows /\ "private" \notin rows
    <3>1. run.gone = {}
      BY <1>1 DEF DemoInductive, Modes
    <3>2. "thread" \notin rows
      BY <2>1, <3>1 DEF View
    <3> QED BY <3>2 DEF DemoInductive, OneThread
  <2>3. run' = [run EXCEPT !.todo = @ \ done] /\ rows' = rows /\ marks' = marks /\ lost' = lost
    BY <1>5 DEF FoundThread
  <2>4. "admin" \in run.todo => "admin" \in done
    BY <1>1, <1>2, <1>5, Orderly
  <2>5. done \in SUBSET Keys
    BY DEF Keys
  <2>6. \A j \in done \cap rows : run.entries[j] = j
    BY <2>2
  <2> HIDE DEF done
  <2> QED BY <1>1, <2>3, <2>4, <2>5, <2>6, PassedStep
<1>6. CASE k \in DemoAccounts /\ k \notin View /\ Created(k)
  BY <1>3, <1>6 DEF DemoAccounts
<1>7. CASE ~ Existing(k) /\ k \notin DemoAccounts \cup {"thread"} /\ Created(k)
  <2>1. k \notin View
    BY <1>1, <1>2, <1>7, NotThere
  <2> QED BY <1>3, <1>7, <2>1
<1>8. CASE k = "thread" /\ {"thread", "ownThread"} \cap View = {} /\ Created(k)
  BY <1>3, <1>8
<1> QED BY <1>2, <1>4, <1>5, <1>6, <1>7, <1>8

\* What flush keeps or forgets without a deletion.
KeyChecked(k) ==
    /\ Comes(k)
    /\ run' = CASE run.entries[k] \notin View -> [run EXCEPT !.marks[k] = NoRecord, !.todo = @ \ {k}]
                [] run.entries[k] \in View /\ (Dependent(run.entries[k]) \/ OwnsMarks(k)) ->
                       [run EXCEPT !.todo = @ \ {k}]
                [] OTHER -> [run EXCEPT !.pc = "delete"]

LEMMA CheckMarkedStep == ASSUME DemoInductive, CheckMarked PROVE DemoInductive'
<1> USE DEF DemoInductive
<1>0. PICK k \in Keys : KeyChecked(k)
  BY DEF CheckMarked, KeyChecked
<1>1. /\ Comes(k) /\ run.mode = "flush" /\ run.pc = "next" /\ rows' = rows /\ marks' = marks
      /\ lost' = lost
      /\ run.entries[k] \notin View => run' = [run EXCEPT !.marks[k] = NoRecord, !.todo = @ \ {k}]
      /\ run.entries[k] \in View /\ (Dependent(run.entries[k]) \/ OwnsMarks(k)) =>
             run' = [run EXCEPT !.todo = @ \ {k}]
      /\ run.entries[k] \in View /\ ~ (Dependent(run.entries[k]) \/ OwnsMarks(k)) =>
             run' = [run EXCEPT !.pc = "delete"]
  BY <1>0 DEF CheckMarked, KeyChecked
<1>2. run \in Run /\ rows \subseteq Records /\ k \in run.todo /\ run.entries[k] = k /\ run.added = {}
  BY <1>1 DEF DemoTypeOK, RunMarks, Modes, Comes
<1>3. View = rows \ run.gone
  BY <1>2 DEF View
<1>31. k # "admin" => "admin" \in run.todo \/ run.visits # 0 \/ run.marks["admin"] = NoRecord
  BY <1>1, <1>2 DEF KeptAreNeeded
<1>4. CASE k \notin View
  <2>1. run' = [run EXCEPT !.marks[k] = NoRecord, !.todo = @ \ {k}]
    BY <1>1, <1>2, <1>4
  <2>2. /\ run'.todo = run.todo \ {k} /\ run'.mode = "flush" /\ run'.pc = "next" /\ run'.gone = run.gone
        /\ run'.added = {} /\ run'.marks = [run.marks EXCEPT ![k] = NoRecord]
        /\ run'.entries = run.entries /\ run'.visits = run.visits /\ run'.late = run.late
        /\ run'.bereft = run.bereft /\ run' \in Run
    BY <1>1, <1>2, <2>1 DEF Run, Marks
  <2>3. \A j \in Keys : run'.marks[j] = IF j = k THEN NoRecord ELSE run.marks[j]
    BY <1>2, <2>2 DEF Run, Marks
  <2>4. View' = View
    BY <1>1, <1>2, <2>2 DEF View
  <2>5. DemoTypeOK'
    BY <1>1, <2>2 DEF DemoTypeOK, MarksNameDemoRecords
  <2>6. Modes' /\ OneThread' /\ Referred' /\ AccountsKnown'
    BY <1>1, <1>2, <2>2 DEF Modes, OneThread, Referred, AccountsKnown
  <2>7. RunMarks'
    BY <1>1, <1>3, <1>4, <2>2, <2>3, <2>4 DEF RunMarks
  <2>8. CheckedIsFree'
    BY <2>2 DEF CheckedIsFree
  <2>9. KeptAreNeeded'
    BY <1>1, <1>31, <2>2, <2>3, <2>4 DEF KeptAreNeeded
  <2>10. ReadMarks'
    BY <1>1, <1>3, <1>4, <2>2, <2>3 DEF ReadMarks
  <2> QED BY <2>5, <2>6, <2>7, <2>8, <2>9, <2>10
<1>5. CASE k \in View /\ (Dependent(k) \/ OwnsMarks(k))
  <2>1. run' = [run EXCEPT !.todo = @ \ {k}]
    BY <1>1, <1>2, <1>5
  <2>2. /\ run'.todo = run.todo \ {k} /\ run'.mode = "flush" /\ run'.pc = "next" /\ run'.gone = run.gone
        /\ run'.added = {} /\ run'.marks = run.marks
        /\ run'.entries = run.entries /\ run'.visits = run.visits /\ run'.late = run.late
        /\ run'.bereft = run.bereft /\ run' \in Run
    BY <1>1, <1>2, <2>1 DEF Run
  <2>4. View' = View
    BY <1>1, <1>2, <2>2 DEF View
  <2>5. DemoTypeOK'
    BY <1>1, <2>2 DEF DemoTypeOK, MarksNameDemoRecords
  <2>6. Modes' /\ OneThread' /\ Referred' /\ AccountsKnown'
    BY <1>1, <1>2, <2>2 DEF Modes, OneThread, Referred, AccountsKnown
  <2>7. RunMarks'
    BY <1>1, <2>2, <2>4 DEF RunMarks
  <2>8. CheckedIsFree'
    BY <2>2 DEF CheckedIsFree
  <2>9. KeptAreNeeded'
    <3> DEFINE needed == Needed(rows \cap (Foreign \ {"log"}))
    <3>1. ASSUME run.visits = 0, run.marks[k] # NoRecord, k # "admin"
          PROVE  k \in needed
      <4>1. "admin" \in View
        BY <1>1, <3>1 DEF KeptAreNeeded
      <4>2. PICK r \in View : k \in Refs[r] /\ r # "log"
        BY <1>5, <3>1 DEF Dependent, OwnsMarks
      <4>3. CASE r \in Keys
        <5>1. r \notin run.todo /\ r # "admin" /\ run.marks[r] # NoRecord
          <6>1. r \notin run.todo /\ r # "admin"
            BY <1>1, <4>2, <4>3, Orderly, RefsOf DEF DemoAccounts
          <6>2. run.entries[r] # NoRecord
            BY <1>1, <1>2, <1>3, <4>2, <4>3, DemoAssumption DEF Referred, Records
          <6>3. run.marks[r] = run.entries[r]
            BY <1>1, <1>3, <3>1, <4>2, <4>3 DEF ReadMarks
          <6> QED BY <6>1, <6>2, <6>3
        <5>2. r \in needed
          BY <1>1, <3>1, <4>3, <5>1, DemoAssumption DEF KeptAreNeeded, Records
        <5> QED BY <4>2, <4>3, <5>2, NeededIsClosed DEF Records
      <4>4. CASE r \notin Keys
        <5>1. r \in rows \cap (Foreign \ {"log"})
          BY <1>2, <1>3, <4>2, <4>4 DEF Records
        <5>2. r \in needed /\ r \in Records /\ rows \cap (Foreign \ {"log"}) \in SUBSET (Foreign \ {"log"})
          BY <5>1, NeededIsClosed DEF Records
        <5>3. Refs[r] \subseteq needed
          BY <5>2, NeededIsClosed
        <5> QED BY <4>2, <5>3
      <4> QED BY <4>3, <4>4
    <3> HIDE DEF needed
    <3>2. needed' = needed
      BY <1>1 DEF needed
    <3>3. run.visits = 0 => \A j \in Keys \ (run'.todo \cup {"admin"}) : run.marks[j] # NoRecord => j \in needed
      BY <1>1, <2>2, <3>1 DEF KeptAreNeeded, needed
    <3>4. ASSUME run.visits = 0, "admin" \notin run'.todo, run.marks["admin"] # NoRecord
          PROVE  run'.todo = {} /\ \E j \in Keys \ {"admin"} : run.marks[j] # NoRecord
      <4>1. k = "admin"
        BY <1>31, <2>2, <3>4
      <4>2. ~ Dependent("admin")
        BY <1>2, <1>3, RefsOf DEF Dependent
      <4>3. \E j \in Keys \ {"admin"} : run.marks[j] # NoRecord
        BY <1>5, <4>1, <4>2 DEF OwnsMarks
      <4>4. \A j \in Keys \ {"admin"} : j \notin run.todo
        BY <1>1, <4>1, Orderly
      <4>5. run.todo \subseteq Keys
        BY <1>2 DEF Run
      <4> QED BY <2>2, <4>1, <4>3, <4>4, <4>5
    <3> QED BY <1>1, <2>2, <2>4, <3>3, <3>4 DEF KeptAreNeeded, needed
  <2>10. ReadMarks'
    BY <1>1, <2>2 DEF ReadMarks
  <2> QED BY <2>5, <2>6, <2>7, <2>8, <2>9, <2>10
<1>6. CASE k \in View /\ ~ (Dependent(k) \/ OwnsMarks(k))
  <2>1. run' = [run EXCEPT !.pc = "delete"]
    BY <1>1, <1>2, <1>6
  <2>2. /\ run'.todo = run.todo /\ run'.mode = "flush" /\ run'.pc = "delete" /\ run'.gone = run.gone
        /\ run'.added = {} /\ run'.marks = run.marks
        /\ run'.entries = run.entries /\ run'.visits = run.visits /\ run'.late = run.late
        /\ run'.bereft = run.bereft /\ run' \in Run
    BY <1>1, <1>2, <2>1 DEF Run
  <2>4. View' = View
    BY <1>1, <1>2, <2>2 DEF View
  <2>5. DemoTypeOK'
    BY <1>1, <2>2 DEF DemoTypeOK, MarksNameDemoRecords
  <2>6. Modes' /\ OneThread' /\ Referred' /\ AccountsKnown'
    BY <1>1, <1>2, <2>2 DEF Modes, OneThread, Referred, AccountsKnown
  <2>7. RunMarks'
    BY <1>1, <2>2, <2>4 DEF RunMarks
  <2>8. CheckedIsFree'
    <3>1. \A j \in Keys : Comes(j)' <=> Comes(j)
      BY <1>1, <2>2 DEF Comes
    <3>2. \A j \in Keys : Comes(j) => j = k
      BY <1>1, OneComes
    <3>3. \A r \in View : k \in Refs[r] => r = "log"
      BY <1>6 DEF Dependent
    <3> QED BY <2>4, <3>1, <3>2, <3>3 DEF CheckedIsFree
  <2>9. KeptAreNeeded'
    BY <1>1, <2>2, <2>4 DEF KeptAreNeeded
  <2>10. ReadMarks'
    BY <1>1, <2>2 DEF ReadMarks
  <2> QED BY <2>5, <2>6, <2>7, <2>8, <2>9, <2>10
<1> QED BY <1>4, <1>5, <1>6

\* A deletion of flush: what goes with the record are late records and the log.
LEMMA TakenByFlush ==
  ASSUME DemoInductive, run.pc = "delete", NEW k \in Keys, Comes(k)
  PROVE  /\ run.entries[k] = k /\ View = rows \ run.gone /\ View \subseteq Records
         /\ run.mode = "flush" /\ run.added = {} /\ k \in run.todo
         /\ Closure({k}, View) \subseteq {k} \cup run.late \cup {"log"}
         /\ k \in Closure({k}, View) /\ run.late \subseteq Foreign
         /\ "admin" \in Closure({k}, View) => k = "admin"
<1> USE DEF DemoInductive
<1>1. /\ run \in Run /\ rows \subseteq Records /\ run.mode = "flush" /\ run.added = {}
      /\ k \in run.todo /\ run.entries[k] = k
  BY DEF DemoTypeOK, RunMarks, Modes, Comes
<1>2. View = rows \ run.gone /\ View \subseteq Records
  BY <1>1 DEF View
<1>3. \A r \in View : k \in Refs[r] => r \in run.late \cup {"log"}
  BY DEF CheckedIsFree
<1>4. run.late \subseteq Foreign /\ Foreign \cap Keys = {}
  BY <1>1 DEF Run, Foreign, Keys, DemoAccounts
<1>5. \A r \in View : Refs[r] \subseteq Keys
  BY <1>2, RefsOf DEF Keys, DemoAccounts
<1>6. "log" \notin Keys
  BY DEF Keys, DemoAccounts
<1> DEFINE some == {k} \cup run.late \cup {"log"}
<1>7. \A s \in SUBSET some : Round(s, View) \subseteq some
  <2>1. ASSUME NEW s \in SUBSET some, NEW r \in View, Refs[r] \cap s # {} PROVE r \in some
    <3>1. k \in Refs[r]
      BY <1>4, <1>5, <1>6, <2>1
    <3> QED BY <1>3, <3>1
  <2> HIDE DEF some
  <2> QED BY <2>1 DEF Round
<1>8. Closure({k}, View) = Round(Round(Round({k}, View), View), View)
  BY <1>2, ClosureIsRounds DEF Records
<1>9. Closure({k}, View) \subseteq some
  <2>1. {k} \in SUBSET some
    OBVIOUS
  <2> HIDE DEF some
  <2>2. Round({k}, View) \in SUBSET some
    BY <1>7, <2>1
  <2>3. Round(Round({k}, View), View) \in SUBSET some
    BY <1>7, <2>2
  <2> QED BY <1>7, <1>8, <2>3
<1>10. k \in Records
  BY DEF Records
<1>11. k \in Closure({k}, View) /\ ("admin" \in Closure({k}, View) => k = "admin")
  BY <1>2, <1>10, ClosureOf
<1> QED BY <1>1, <1>2, <1>4, <1>9, <1>11

LEMMA DeleteMarkedStep == ASSUME DemoInductive, DeleteMarked PROVE DemoInductive'
<1> USE DEF DemoInductive
<1>1. run.pc = "delete" /\ rows' = rows /\ marks' = marks /\ lost' = lost
  BY DEF DeleteMarked
<1>2. PICK k \in Keys :
        /\ Comes(k)
        /\ run' = [run EXCEPT !.pc = "next", !.todo = @ \ {k}, !.late = {},
                     !.gone = @ \cup (Closure({run.entries[k]}, View) \cap rows),
                     !.marks = IF "admin" \in Closure({run.entries[k]}, View) THEN NoMarks
                               ELSE [@ EXCEPT ![k] = NoRecord]]
  BY DEF DeleteMarked
<1> DEFINE taken == Closure({k}, View)
           left == IF "admin" \in taken THEN NoMarks ELSE [run.marks EXCEPT ![k] = NoRecord]
<1>3. /\ run.entries[k] = k /\ View = rows \ run.gone /\ run.mode = "flush" /\ run.added = {}
      /\ taken \subseteq {k} \cup run.late \cup {"log"} /\ k \in taken
      /\ "admin" \in taken => k = "admin"
  BY <1>1, <1>2, TakenByFlush
<1>4. run' = [run EXCEPT !.pc = "next", !.todo = @ \ {k}, !.late = {},
                         !.gone = @ \cup (taken \cap rows), !.marks = left]
  BY <1>2, <1>3
<1>5. run \in Run /\ rows \subseteq Records /\ run.gone \subseteq rows /\ run.marks \in Marks
  BY DEF DemoTypeOK, Run
<1>6. left \in Marks /\ \A j \in Keys : left[j] \in {run.marks[j], NoRecord}
  BY <1>5, NoRunIs DEF Marks
<1>7. left[k] = NoRecord /\ \A j \in Keys \ {k} : "admin" \notin taken => left[j] = run.marks[j]
  BY <1>5, NoRunIs DEF Marks
<1>8. "admin" \in taken => \A j \in Keys : left[j] = NoRecord
  BY NoRunIs
<1> HIDE DEF taken, left
<1>9. /\ run'.todo = run.todo \ {k} /\ run'.mode = "flush" /\ run'.pc = "next"
      /\ run'.gone = run.gone \cup (taken \cap rows) /\ run'.added = {} /\ run'.marks = left
      /\ run'.entries = run.entries /\ run'.visits = run.visits /\ run'.late = {}
      /\ run'.bereft = run.bereft
  BY <1>3, <1>4, <1>5 DEF Run
<1>10. run' \in Run
  BY <1>4, <1>5, <1>6 DEF Run
<1>11. View' = View \ taken
  BY <1>1, <1>3, <1>9 DEF View
<1>12. DemoTypeOK'
  BY <1>1, <1>5, <1>9, <1>10 DEF DemoTypeOK, MarksNameDemoRecords
<1>13. Modes' /\ OneThread' /\ Referred' /\ AccountsKnown'
  BY <1>1, <1>3, <1>9 DEF Modes, OneThread, Referred, AccountsKnown
<1>14. RunMarks'
  <2>1. \A j \in Keys : run'.marks[j] \in {j, NoRecord} /\ run'.entries[j] \in {j, NoRecord}
    BY <1>6, <1>9 DEF RunMarks
  <2>2. \A j \in run'.todo : run'.entries[j] = j
    BY <1>3, <1>9 DEF RunMarks
  <2>3. ASSUME "admin" \in View', NEW j \in (rows \ run'.gone) \cap Keys
        PROVE  run'.marks[j] = j \/ j \in lost \/ run.bereft
    <3>1. "admin" \in View /\ "admin" \notin taken /\ j # k /\ j \in rows \ run.gone
      BY <1>3, <1>9, <1>11, <2>3
    <3>2. run.marks[j] = j \/ j \in lost \/ run.bereft
      BY <1>3, <2>3, <3>1 DEF RunMarks
    <3> QED BY <1>7, <1>9, <2>3, <3>1, <3>2
  <2> QED BY <1>1, <1>9, <2>1, <2>2, <2>3 DEF RunMarks
<1>15. CheckedIsFree'
  BY <1>9 DEF CheckedIsFree
<1>16. KeptAreNeeded'
  <2>1. ASSUME run.visits = 0, "admin" \notin View' PROVE \A j \in Keys : left[j] = NoRecord
    <3>1. CASE "admin" \in View
      BY <1>8, <1>11, <2>1, <3>1
    <3>2. CASE "admin" \notin View
      BY <1>3, <1>6, <2>1, <3>2 DEF KeptAreNeeded
    <3> QED BY <3>1, <3>2
  <2> DEFINE needed == Needed(rows \cap (Foreign \ {"log"}))
  <2>2. ASSUME run.visits = 0, NEW j \in Keys \ (run'.todo \cup {"admin"}), left[j] # NoRecord
        PROVE  j \in needed
    <3>1. j # k /\ run.marks[j] # NoRecord /\ j \notin run.todo
      BY <1>6, <1>7, <1>9, <2>2
    <3> QED BY <1>3, <2>2, <3>1 DEF KeptAreNeeded
  <2> HIDE DEF needed
  <2>3. needed' = needed
    BY <1>1 DEF needed
  <2>4. run.visits = 0 /\ "admin" \notin run'.todo => left["admin"] = NoRecord
    <3>1. CASE k = "admin"
      BY <1>7, <3>1
    <3>2. CASE k # "admin"
      <4>1. k \in run.todo
        BY <1>2 DEF Comes
      <4>2. run.visits = 0 /\ "admin" \notin run.todo => run.marks["admin"] = NoRecord
        BY <1>3, <4>1 DEF KeptAreNeeded
      <4>3. "admin" \in Keys
        BY DEF Keys, DemoAccounts
      <4> QED BY <1>6, <1>9, <3>2, <4>2, <4>3
    <3> QED BY <3>1, <3>2
  <2> QED BY <1>1, <1>9, <2>1, <2>2, <2>3, <2>4 DEF KeptAreNeeded, needed
<1>17. ReadMarks'
  <2>1. \A j \in Keys : left[j] \in {run.entries[j], NoRecord}
    BY <1>3, <1>6 DEF ReadMarks
  <2>2. CASE "admin" \in taken
    BY <1>8, <1>9, <2>1, <2>2 DEF ReadMarks
  <2>3. CASE "admin" \notin taken /\ \A j \in (rows \ run.gone) \cap Keys : run.marks[j] = run.entries[j]
    <3>1. ASSUME NEW j \in (rows \ run'.gone) \cap Keys PROVE left[j] = run.entries[j]
      BY <1>3, <1>7, <1>9, <2>3, <3>1
    <3> QED BY <1>1, <1>9, <2>1, <3>1 DEF ReadMarks
  <2>4. CASE \A j \in Keys : run.marks[j] = NoRecord
    BY <1>6, <1>9, <2>1, <2>4 DEF ReadMarks
  <2> QED BY <1>3, <2>2, <2>3, <2>4 DEF ReadMarks
<1> QED BY <1>12, <1>13, <1>14, <1>15, <1>16, <1>17

\* What a visit does to a run: it counts, and the rest stays but for late and the marks.
LEMMA VisitOf ==
  ASSUME DemoInductive, NEW written \in SUBSET Foreign, NEW bereft \in BOOLEAN, NEW left \in Marks,
         MayVisit, Visit(written, bereft, left)
  PROVE  /\ run' \in Run /\ run'.mode = run.mode /\ run'.pc = run.pc /\ run'.todo = run.todo
         /\ run'.gone = run.gone /\ run'.added = run.added /\ run'.entries = run.entries
         /\ run.mode = "none" => run' = run
         /\ run.mode # "none" =>
                /\ run'.late = run.late \cup written /\ run'.marks = left /\ run'.visits # 0
                /\ run'.bereft = (run.bereft \/ bereft)
<1>1. run \in Run
  BY DEF DemoInductive, DemoTypeOK
<1>2. CASE run.mode = "none"
  BY <1>1, <1>2 DEF Visit
<1>3. CASE run.mode # "none"
  <2> DEFINE some == run.bereft \/ bereft
  <2>1. /\ run' = [run EXCEPT !.visits = @ + 1, !.late = @ \cup written, !.bereft = some, !.marks = left]
        /\ run.visits < MaxVisits /\ some \in BOOLEAN
    BY <1>1, <1>3 DEF Visit, MayVisit, Run
  <2> HIDE DEF some
  <2>2. run.visits + 1 \in 0..MaxVisits /\ run.visits + 1 # 0
    BY <1>1, <2>1, DemoAssumption DEF Run
  <2>3. run.late \cup written \in SUBSET Foreign
    BY <1>1 DEF Run
  <2>4. run' \in Run
    BY <1>1, <2>1, <2>2, <2>3 DEF Run
  <2>5. /\ run'.visits = run.visits + 1 /\ run'.late = run.late \cup written
        /\ run'.bereft = some /\ run'.marks = left
        /\ run'.mode = run.mode /\ run'.pc = run.pc /\ run'.todo = run.todo
        /\ run'.gone = run.gone /\ run'.added = run.added /\ run'.entries = run.entries
    BY <1>1, <2>1 DEF Run
  <2> QED BY <1>3, <2>2, <2>4, <2>5 DEF some
<1> QED BY <1>2, <1>3

\* A visitor writes.
LEMMA WriteStep == ASSUME DemoInductive, NEW r \in Foreign, Write(r) PROVE DemoInductive'
<1> USE DEF DemoInductive
<1> DEFINE written == IF run.pc = "delete" THEN {r} ELSE {}
<1>1. /\ r \notin rows /\ rows' = rows \cup {r} /\ marks' = marks /\ lost' = lost
      /\ Refs[r] \subseteq rows /\ MayVisit
      /\ r = "ownThread" => "thread" \notin rows \cup run.added
      /\ Visit(written, FALSE, run.marks)
  BY DEF Write
<1>2. run \in Run /\ run.bereft \in BOOLEAN /\ run.marks \in Marks /\ run.gone \subseteq rows /\ run.added \subseteq Keys
  BY DEF DemoTypeOK, Run
<1>3. written \in SUBSET Foreign
  OBVIOUS
<1>4. /\ run' \in Run /\ run'.mode = run.mode /\ run'.pc = run.pc /\ run'.todo = run.todo
      /\ run'.gone = run.gone /\ run'.added = run.added /\ run'.entries = run.entries
      /\ run'.marks = run.marks /\ run'.bereft = run.bereft
      /\ run.mode # "none" => run'.late = run.late \cup written /\ run'.visits # 0
  <2> HIDE DEF DemoInductive, written
  <2>1. DemoInductive
    OBVIOUS
  <2>2. FALSE \in BOOLEAN
    OBVIOUS
  <2> QED BY <1>1, <1>2, <1>3, <2>1, <2>2, VisitOf
<1>5. View' = View \cup {r}
  BY <1>1, <1>2, <1>4 DEF View
<1>6. r \notin Keys /\ r \in Records
  BY DEF Foreign, Keys, DemoAccounts, Records
<1>7. DemoTypeOK'
  <2>1. rows' \cap Keys = rows \cap Keys /\ "admin" \in Keys
    BY <1>1, <1>6 DEF Keys, DemoAccounts
  <2>2. "admin" \in rows' => "admin" \in rows
    BY <2>1
  <2>3. run'.added \cap rows' = {}
    BY <1>1, <1>2, <1>4, <1>6 DEF DemoTypeOK, MarksNameDemoRecords
  <2>4. MarksNameDemoRecords'
    BY <1>1, <2>1, <2>2, <2>3 DEF DemoTypeOK, MarksNameDemoRecords
  <2> QED BY <1>1, <1>2, <1>4, <1>6, <2>1, <2>4 DEF DemoTypeOK
<1>8. Modes'
  BY <1>4 DEF Modes
<1>9. OneThread' /\ AccountsKnown'
  <2>1. rows' \cap DemoAccounts = rows \cap DemoAccounts
    BY <1>1, <1>6 DEF Keys
  <2> QED BY <1>1, <1>4, <1>6, <2>1 DEF OneThread, AccountsKnown, Keys
<1>10. RunMarks'
  <2>1. "admin" \in View' => "admin" \in View
    BY <1>5, <1>6 DEF Keys, DemoAccounts
  <2>2. "admin" \notin rows => "admin" \notin rows'
    BY <1>1, <1>6 DEF Keys, DemoAccounts
  <2>3. (rows' \ run'.gone) \cap Keys = (rows \ run.gone) \cap Keys
    BY <1>1, <1>4, <1>6
  <2> QED BY <1>1, <1>4, <2>1, <2>2, <2>3 DEF RunMarks
<1>11. CheckedIsFree'
  <2>1. ASSUME run.pc = "delete", NEW k \in Keys, Comes(k), NEW q \in View', k \in Refs[q]
        PROVE  q \in run'.late \cup {"log"}
    <3>1. run.mode # "none"
      BY <2>1 DEF Modes
    <3> QED BY <1>4, <1>5, <2>1, <3>1 DEF CheckedIsFree
  <2>2. \A k \in Keys : Comes(k)' <=> Comes(k)
    BY <1>4 DEF Comes
  <2> QED BY <1>4, <2>1, <2>2 DEF CheckedIsFree
<1>12. KeptAreNeeded'
  <2>1. run'.mode = "flush" => run'.visits # 0
    BY <1>4
  <2> QED BY <1>1, <1>4, <2>1 DEF KeptAreNeeded
<1>13. Referred' /\ ReadMarks'
  <2>1. rows' \cap Keys = rows \cap Keys /\ (rows' \ run'.gone) \cap Keys = (rows \ run.gone) \cap Keys
    BY <1>1, <1>4, <1>6
  <2>2. Referred'
    BY <1>1, <1>4, <2>1 DEF Referred
  <2>3. ReadMarks'
    BY <1>4, <2>1 DEF ReadMarks
  <2> QED BY <2>2, <2>3
<1> QED BY <1>7, <1>8, <1>9, <1>10, <1>11, <1>12, <1>13

\* A record is removed with what depends on it.
LEMMA RemoveStep == ASSUME DemoInductive, NEW r \in Records, Remove(r) PROVE DemoInductive'
<1> USE DEF DemoInductive
<1> DEFINE taken == Closure({r}, rows)
           left == IF "admin" \in taken THEN OwnMarks ELSE run.marks
<1>1. /\ r \in rows /\ r # "thread" /\ taken \cap run.gone = {} /\ rows' = rows \ taken
      /\ marks' = (IF "admin" \in taken THEN NoMarks ELSE marks)
      /\ lost' = (IF "admin" \in taken THEN {} ELSE lost \ taken)
      /\ MayVisit /\ Visit({}, "admin" \in taken, left)
  BY DEF Remove
<1>2. /\ run \in Run /\ run.bereft \in BOOLEAN /\ run.marks \in Marks /\ marks \in Marks /\ run.gone \subseteq rows
      /\ run.added \subseteq Keys /\ rows \subseteq Records /\ lost \subseteq rows \cap Keys
      /\ run.added \cap rows = {}
  BY DEF DemoTypeOK, MarksNameDemoRecords, Run
<1>3. r \in taken /\ ("admin" \in taken => "admin" \in rows /\ "admin" \notin run.added)
  <2>1. r \in taken /\ ("admin" \in taken => r = "admin")
    BY <1>2, ClosureOf
  <2> QED BY <1>1, <1>2, <2>1
<1>4. ASSUME NEW q \in rows, NEW i \in Refs[q], i \in taken PROVE q \in taken
  BY <1>2, <1>4, ClosureIsComplete
<1>51. "admin" \in taken => \A k \in Keys \ run.added : left[k] = NoRecord
  BY DEF OwnMarks
<1>5. left \in Marks /\ \A k \in run.added : left[k] = run.marks[k]
  BY <1>2 DEF OwnMarks, Marks
<1>6. /\ \A k \in Keys : left[k] \in {run.marks[k], NoRecord}
      /\ "admin" \notin taken => left = run.marks
  BY <1>2 DEF OwnMarks, Marks
<1> HIDE DEF taken, left
<1>7. /\ run' \in Run /\ run'.mode = run.mode /\ run'.pc = run.pc /\ run'.todo = run.todo
      /\ run'.gone = run.gone /\ run'.added = run.added /\ run'.entries = run.entries
      /\ run.mode = "none" => run' = run
      /\ run.mode # "none" => run'.late = run.late /\ run'.marks = left /\ run'.visits # 0
      /\ run.mode # "none" => run'.bereft = (run.bereft \/ "admin" \in taken)
  <2> DEFINE bereft == "admin" \in taken
  <2> HIDE DEF DemoInductive
  <2>1. DemoInductive /\ {} \in SUBSET Foreign /\ bereft \in BOOLEAN /\ Visit({}, bereft, left)
    BY <1>1
  <2>2. bereft <=> "admin" \in taken
    OBVIOUS
  <2> HIDE DEF bereft
  <2> QED BY <1>1, <1>5, <2>1, <2>2, VisitOf
<1>8. View' = (View \ taken) \cup run.added
  BY <1>1, <1>7 DEF View
<1>9. DemoTypeOK'
  <2>1. marks' \in Marks /\ \A k \in Keys : marks'[k] \in {marks[k], NoRecord}
    BY <1>1, <1>2, NoRunIs
  <2>2. \A k \in Keys : marks'[k] \in {k, NoRecord}
    BY <2>1 DEF DemoTypeOK, MarksNameDemoRecords
  <2>3. ASSUME "admin" \in rows', NEW k \in (rows' \cap Keys) \ lost' PROVE marks'[k] = k
    <3>1. "admin" \notin taken /\ "admin" \in rows /\ k \in (rows \cap Keys) \ lost
      BY <1>1, <2>3
    <3> QED BY <1>1, <3>1 DEF DemoTypeOK, MarksNameDemoRecords
  <2>4. run'.added \cap rows' = {}
    BY <1>1, <1>2, <1>7
  <2>5. lost' \subseteq rows' \cap Keys
    BY <1>1, <1>2
  <2>6. MarksNameDemoRecords'
    BY <2>2, <2>3, <2>4 DEF MarksNameDemoRecords
  <2> QED BY <1>1, <1>2, <1>7, <2>1, <2>5, <2>6 DEF DemoTypeOK
<1>10. Modes'
  BY <1>7 DEF Modes
<1>11. OneThread' /\ Referred'
  <2>1. ASSUME NEW q \in rows' PROVE q \in rows /\ Refs[q] \subseteq rows'
    BY <1>1, <1>4, <2>1 DEF Referred
  <2>2. "private" \in rows' => "thread" \in rows'
    BY <2>1, RefsOf
  <2>3. \A k \in Keys : Refs[k] \subseteq Keys
    BY RefsOf DEF Records, Keys, DemoAccounts
  <2>4. ASSUME NEW k \in rows' \cap Keys, marks'[k] = NoRecord, NEW i \in Refs[k]
        PROVE  marks'[i] = NoRecord
    <3>1. CASE "admin" \in taken
      BY <1>1, <2>3, <2>4, <3>1, NoRunIs
    <3>2. CASE "admin" \notin taken
      BY <1>1, <2>4, <3>2 DEF Referred
    <3> QED BY <3>1, <3>2
  <2>5. Referred'
    BY <1>1, <1>7, <2>1, <2>4 DEF Referred
  <2>6. OneThread'
    BY <1>1, <1>7, <2>1, <2>2 DEF OneThread
  <2> QED BY <2>5, <2>6
<1>12. RunMarks'
  <2>1. CASE run.mode = "none"
    BY <1>1, <1>7, <2>1 DEF RunMarks
  <2>2. CASE run.mode # "none"
    <3>1. /\ \A k \in Keys : run'.marks[k] \in {k, NoRecord} /\ run'.entries[k] \in {k, NoRecord}
          /\ \A k \in run'.added : run'.marks[k] = k /\ run'.entries[k] = k
      BY <1>5, <1>6, <1>7, <2>2 DEF RunMarks
    <3>2. ASSUME "admin" \in View', NEW k \in (rows' \ run'.gone) \cap Keys
          PROVE  run'.marks[k] = k \/ k \in lost' \/ run'.bereft \/ (run'.mode = "seed" /\ k \in run'.todo)
      <4>1. CASE "admin" \in taken
        BY <1>7, <2>2, <4>1
      <4>2. CASE "admin" \notin taken
        <5>1. "admin" \in View /\ k \in rows \ run.gone /\ k \notin taken
          BY <1>1, <1>7, <1>8, <3>2, <4>2 DEF View
        <5>2. run.marks[k] = k \/ k \in lost \/ run.bereft \/ (run.mode = "seed" /\ k \in run.todo)
          BY <2>2, <3>2, <5>1 DEF RunMarks
        <5> QED BY <1>1, <1>6, <1>7, <2>2, <4>2, <5>1, <5>2
      <4> QED BY <4>1, <4>2
    <3> QED BY <1>1, <1>7, <2>2, <3>1, <3>2 DEF RunMarks
  <2> QED BY <2>1, <2>2
<1>13. CheckedIsFree'
  <2>1. \A k \in Keys : Comes(k)' <=> Comes(k)
    BY <1>7 DEF Comes
  <2>2. View' \subseteq View
    BY <1>8 DEF View
  <2>3. run.pc = "delete" => run.mode # "none"
    BY DEF Modes
  <2> QED BY <1>7, <2>1, <2>2, <2>3 DEF CheckedIsFree
<1>14. KeptAreNeeded'
  <2>1. ASSUME "admin" \notin rows' PROVE \A k \in Keys : marks'[k] = NoRecord
    BY <1>1, <2>1, NoRunIs DEF KeptAreNeeded
  <2>2. run'.mode = "flush" => run'.visits # 0
    BY <1>7
  <2> QED BY <2>1, <2>2 DEF KeptAreNeeded
<1>15. AccountsKnown'
  BY <1>1, <1>7 DEF AccountsKnown
<1>16. ReadMarks'
  <2>1. CASE run.mode = "none"
    BY <1>7, <2>1 DEF ReadMarks
  <2>2. CASE run.mode = "seed"
    <3>1. CASE "admin" \in taken
      BY <1>51, <1>7, <2>2, <3>1 DEF ReadMarks
    <3>2. CASE "admin" \notin taken
      BY <1>6, <1>7, <2>2, <3>2 DEF ReadMarks
    <3> QED BY <3>1, <3>2
  <2>3. CASE run.mode = "flush"
    <3>1. \A k \in Keys : left[k] \in {run.entries[k], NoRecord}
      BY <1>6, <2>3 DEF ReadMarks
    <3>2. CASE "admin" \in taken
      <4>1. run.added = {}
        BY <2>3 DEF Modes
      <4> QED BY <1>51, <1>7, <2>3, <3>1, <3>2, <4>1 DEF ReadMarks
    <3>3. CASE "admin" \notin taken
      BY <1>1, <1>6, <1>7, <2>3, <3>1, <3>3 DEF ReadMarks
    <3> QED BY <3>2, <3>3
  <2> QED BY <1>2, <2>1, <2>2, <2>3 DEF Run
<1> QED BY <1>9, <1>10, <1>11, <1>12, <1>13, <1>14, <1>15, <1>16

\* Every step of the command and of the site keeps the invariant.
LEMMA DemoStepInductive == DemoInductive /\ [DemoNext]_demoVars => DemoInductive'
<1> SUFFICES ASSUME DemoInductive, [DemoNext]_demoVars PROVE DemoInductive'
  OBVIOUS
<1>1. CASE StartSeed \/ StartFlush
  BY <1>1, StartStep
<1>2. CASE SeedStep \/ SeedThread
  BY <1>2, SeedSteps
<1>3. CASE CheckMarked
  BY <1>3, CheckMarkedStep
<1>4. CASE DeleteMarked
  BY <1>4, DeleteMarkedStep
<1>5. CASE CommitRun
  BY <1>5, CommitStep
<1>6. CASE RollBackRun
  BY <1>6, RollBackStep
<1>7. CASE \E r \in Foreign : Write(r)
  BY <1>7, WriteStep
<1>8. CASE \E r \in Records : Remove(r)
  BY <1>8, RemoveStep
<1>9. CASE UNCHANGED demoVars
  <2>1. rows' = rows /\ marks' = marks /\ run' = run /\ lost' = lost
    BY <1>9 DEF demoVars
  <2>2. View' = View /\ \A k : Comes(k)' <=> Comes(k)
    BY <2>1 DEF View, Comes
  <2>3. DemoTypeOK' /\ Modes' /\ OneThread'
    BY <2>1 DEF DemoInductive, DemoTypeOK, MarksNameDemoRecords, Modes, OneThread
  <2>4. RunMarks' /\ CheckedIsFree' /\ KeptAreNeeded'
    BY <2>1, <2>2 DEF DemoInductive, RunMarks, CheckedIsFree, KeptAreNeeded
  <2>5. Referred' /\ ReadMarks' /\ AccountsKnown'
    BY <2>1 DEF DemoInductive, Referred, ReadMarks, AccountsKnown
  <2> QED BY <2>3, <2>4, <2>5 DEF DemoInductive
<1> QED BY <1>1, <1>2, <1>3, <1>4, <1>5, <1>6, <1>7, <1>8, <1>9 DEF DemoNext

LEMMA DemoAlwaysInductive == DemoSpec => []DemoInductive
  BY DemoInitInductive, DemoStepInductive, PTL DEF DemoSpec

\* For any number of visits: the marks of the demonstration records name those records
\* and no visitor's, nothing is made twice, and while the administrator is there every
\* demonstration record that is committed has its mark, whatever seeds, flushes and visits
\* there have been, but for what a seed left whose administrator was deleted under it.
THEOREM DemoTyped == DemoSpec => []DemoTypeOK
<1>1. DemoInductive => DemoTypeOK
  BY DEF DemoInductive
<1> QED BY <1>1, DemoAlwaysInductive, PTL

\* Only a deletion of flush adds to what a run has deleted.
LEMMA OthersDeleteNothing ==
  ASSUME DemoInductive, [DemoNext]_demoVars, ~ DeleteMarked
  PROVE  run'.gone \subseteq run.gone
<1>1. run \in Run
  BY DEF DemoInductive, DemoTypeOK
<1>2. CASE StartSeed \/ StartFlush \/ CommitRun \/ RollBackRun
  <2>1. run'.gone = {}
    BY <1>2, NoRunIs DEF StartSeed, StartFlush, CommitRun, RollBackRun, Run
  <2> QED BY <2>1
<1>3. CASE SeedStep \/ SeedThread
  BY <1>1, <1>3 DEF SeedStep, SeedThread, Created, Passed, FoundThread, Run
<1>4. CASE CheckMarked
  BY <1>1, <1>4 DEF CheckMarked, Run
<1>5. ASSUME NEW written, NEW bereft, NEW left, Visit(written, bereft, left) PROVE run'.gone = run.gone
  BY <1>1, <1>5 DEF Visit, Run
<1>6. CASE (\E r \in Foreign : Write(r)) \/ (\E r \in Records : Remove(r))
  BY <1>5, <1>6 DEF Write, Remove
<1>7. CASE UNCHANGED demoVars
  BY <1>7 DEF demoVars
<1> QED BY <1>2, <1>3, <1>4, <1>6, <1>7 DEF DemoNext

LEMMA DeletionSpares ==
  ASSUME DemoInductive, [DemoNext]_demoVars
  PROVE  (run'.gone \ run.gone) \cap Foreign \subseteq run.late \cup {"log"}
<1>1. CASE DeleteMarked
  <2>1. PICK k \in Keys :
          /\ Comes(k)
          /\ run' = [run EXCEPT !.pc = "next", !.todo = @ \ {k}, !.late = {},
                       !.gone = @ \cup (Closure({run.entries[k]}, View) \cap rows),
                       !.marks = IF "admin" \in Closure({run.entries[k]}, View) THEN NoMarks
                                 ELSE [@ EXCEPT ![k] = NoRecord]]
    BY <1>1 DEF DeleteMarked
  <2>2. run.pc = "delete" /\ run \in Run
    BY <1>1 DEF DeleteMarked, DemoInductive, DemoTypeOK
  <2>3. /\ run.entries[k] = k
        /\ Closure({k}, View) \subseteq {k} \cup run.late \cup {"log"}
    BY <2>1, <2>2, TakenByFlush
  <2>4. run'.gone = run.gone \cup (Closure({k}, View) \cap rows)
    BY <2>1, <2>2, <2>3 DEF Run
  <2>5. k \notin Foreign
    BY DEF Foreign, Keys, DemoAccounts
  <2> QED BY <2>3, <2>4, <2>5
<1>2. CASE ~ DeleteMarked
  BY <1>2, OthersDeleteNothing
<1> QED BY <1>1, <1>2

\* For any number of visits: flush takes no visitor's record along but those committed
\* between its check and its deletion, and the administrator's log.
THEOREM VisitorsSpared == DemoSpec => FlushSparesVisitors
<1>1. DemoInductive /\ [DemoNext]_demoVars =>
        [(run'.gone \ run.gone) \cap Foreign \subseteq run.late \cup {"log"}]_demoVars
  BY DeletionSpares
<1> QED BY <1>1, DemoAlwaysInductive, PTL DEF DemoSpec, FlushSparesVisitors

\* Whatever runs and visits came before it: an undisturbed flush that has come to its
\* end has left the mark of no record that no visitor's record needs, and that of the
\* administrator only beside another one: its order misses nothing it could have taken.
THEOREM OnlyNeededLeft == DemoSpec => []FlushLeavesOnlyWhatIsNeeded
<1>1. ASSUME DemoInductive PROVE FlushLeavesOnlyWhatIsNeeded
  <2>1. ASSUME run.mode = "flush", run.visits = 0, run.todo = {}, NEW k \in Keys, run.marks[k] # NoRecord
        PROVE  \/ k \in Needed(rows \cap (Foreign \ {"log"}))
               \/ k = "admin" /\ \E j \in Keys \ {"admin"} : run.marks[j] # NoRecord
    BY <1>1, <2>1 DEF DemoInductive, KeptAreNeeded
  <2> QED BY <2>1 DEF FlushLeavesOnlyWhatIsNeeded
<1> QED BY <1>1, DemoAlwaysInductive, PTL

(***************************************************************************)
(* The four parts together.                                                *)
(***************************************************************************)
\* The inductive invariants of the four parts hold side by side in the specification
\* the run checks, for any values of its constants: nothing moves but one part.
THEOREM PartsTypes == Spec => []PartsTypeOK
<1>1. Init => PartsTypeOK
  BY MediaInitInductive, DemoInitInductive, AccountsInitInductive, CatalogueInitInductive
     DEF Init, PartsTypeOK
<1>2. ASSUME PartsTypeOK, [Next]_<<turn, mediaVars, demoVars, accountsVars, catalogueVars>>
      PROVE  PartsTypeOK'
  <2>1. /\ [MediaNext]_mediaVars /\ [DemoNext]_demoVars
        /\ [AccountsNext]_accountsVars /\ [CatalogueNext]_catalogueVars
    BY <1>2 DEF Next
  <2>2. MediaInductive'
    BY <1>2, <2>1, MediaNextInductive DEF PartsTypeOK
  <2>3. DemoInductive'
    BY <1>2, <2>1, DemoStepInductive DEF PartsTypeOK
  <2>4. AccountsInductive'
    BY <1>2, <2>1, AccountsStepInductive DEF PartsTypeOK
  <2>5. CatalogueInductive'
    BY <1>2, <2>1, CatalogueStepInductive DEF PartsTypeOK
  <2> QED BY <2>2, <2>3, <2>4, <2>5 DEF PartsTypeOK
<1> QED BY <1>1, <1>2, PTL DEF Spec
=============================================================================
