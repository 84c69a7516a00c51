-------------------------- MODULE AdWorkflowProofs --------------------------
(***************************************************************************)
(* Proofs about AdWorkflow, for any number of workers, users and contents: *)
(* requests take effect one at a time, with the rights and by the rules of *)
(* the instant of their commit.                                            *)
(*                                                                         *)
(* TypeOK is inductive: only the holder of the row lock writes the row, so *)
(* what a request has read and decided at the lock still holds when it     *)
(* saves.  Every step of the detailed module is then one step of AdReview, *)
(* the save being the one that counts, or none.                            *)
(***************************************************************************)
EXTENDS AdWorkflow, TLAPS

(***************************************************************************)
(* Data.                                                                   *)
(***************************************************************************)
LEMMA SomeContentType == SomeContent \in Contents
  BY AdWorkflowAssumption DEF SomeContent

\* What a request may ask: a status button asks for nothing but a status.
LEMMA ChangeFacts ==
  ASSUME NEW ch \in ChangeSet
  PROVE  /\ ch.content \in Contents \cup {Keep} /\ ch.status \in Statuses \cup {Keep}
         /\ ch.author \in Users \cup {Keep} /\ ch.action \in BOOLEAN
         /\ StatusOnly(ch) <=> (ch.author = Keep /\ ch.content = Keep)
         /\ StatusOnly(ch) => ch.status # Keep
<1> USE DEF ChangeSet
<1>1. Keep \notin Statuses /\ Keep \notin Contents /\ Keep \notin Users
  BY KeepAssumption DEF Keep, Statuses
<1> QED BY <1>1 DEF StatusOnly

LEMMA RowType ==
  ASSUME NEW row \in AdRow
  PROVE  /\ row.life \in {"unborn", "live", "gone"} /\ row.status \in Statuses
         /\ row.author \in Users \cup {NoUser} /\ row.content \in Contents
         /\ row.submitted \in -1..MaxClock
  BY DEF AdRow

LEMMA AbsentType ==
  ASSUME NEW life \in {"unborn", "gone"}
  PROVE  /\ Absent(life) \in AdRow /\ Absent(life).life = life
         /\ Absent(life).status = "draft" /\ Absent(life).author = NoUser
         /\ Absent(life).content = SomeContent
  BY SomeContentType, AdWorkflowAssumption DEF Absent, Row, AdRow, Statuses, Never

LEMMA IdleType ==
  /\ Idle \in Served /\ Idle.pc = "idle" /\ Idle.actor = NoUser /\ Idle.admin = FALSE
  /\ Idle.changes = NoChanges /\ Idle.copy \in AdRow
  BY AbsentType DEF Idle, Served

\* The new row: well typed, and in the queue when it is a draft.
LEMMA UpdatedRow ==
  ASSUME NEW r \in Served, r.changes \in ChangeSet, NEW row \in AdRow, clock \in 0..MaxClock
  PROVE  /\ Updated(r, row) \in AdRow
         /\ Updated(r, row).life = row.life
         /\ Updated(r, row).status = NewStatus(r, row)
         /\ Updated(r, row).content = Wished(r.changes.content, row.content)
         /\ Updated(r, row).author = Wished(r.changes.author, row.author)
         /\ Updated(r, row).submitted = (IF Resubmits(r, row) THEN clock ELSE row.submitted)
         /\ (row.status = "draft" => row.submitted # Never)
                => (NewStatus(r, row) = "draft" => Updated(r, row).submitted # Never)
<1> DEFINE ch == r.changes
           status == NewStatus(r, row)
           content == Wished(ch.content, row.content)
           author == Wished(ch.author, row.author)
           submitted == IF Resubmits(r, row) THEN clock ELSE row.submitted
<1>1. /\ ch.content \in Contents \cup {Keep} /\ ch.status \in Statuses \cup {Keep}
      /\ ch.author \in Users \cup {Keep}
  BY ChangeFacts
<1>2. content \in Contents /\ author \in Users \cup {NoUser} /\ submitted \in -1..MaxClock
  BY <1>1, RowType, AdWorkflowAssumption DEF Wished
<1>3. status \in Statuses
  BY <1>1, RowType DEF NewStatus, Target, Wished, Statuses
<1>4. Updated(r, row) = [life |-> row.life, status |-> status, author |-> author,
                         content |-> content, submitted |-> submitted]
  BY DEF Updated, Row
<1>5. (row.status = "draft" => row.submitted # Never)
         => (status = "draft" => submitted # Never)
  BY DEF Resubmits, Never
<1> HIDE DEF status, content, author, submitted
<1>6. Updated(r, row) \in AdRow
  BY <1>2, <1>3, <1>4, RowType DEF AdRow
<1>7. /\ Updated(r, row).life = row.life /\ Updated(r, row).status = status
      /\ Updated(r, row).content = content /\ Updated(r, row).author = author
      /\ Updated(r, row).submitted = submitted
  BY <1>4
<1> QED BY <1>5, <1>6, <1>7 DEF status, content, author, submitted

(***************************************************************************)
(* Steps of one request: w's record becomes q.                             *)
(***************************************************************************)
\* What the others rely on is the row and the lock, and w keeps both for them.
Fits(w, q) ==
    /\ q \in Served
    /\ q.pc = "locked" <=> lock' = w
    /\ q.pc = "locked" => /\ q.copy = ad' /\ ad'.life = "live"
                          /\ MayChange(q.actor, q.admin, ad') /\ Allowed(q, ad')
    /\ q.pc \in {"lock", "locked"} => q.changes \in ChangeSet
    /\ q.pc \in {"idle", "mail"} => q.actor = NoUser /\ q.admin = FALSE /\ q.changes = NoChanges

\* The row keeps its queue.
RowOK(row) == row \in AdRow /\ (row.life = "live" /\ row.status = "draft" => row.submitted # Never)

LEMMA RequestStep ==
  ASSUME TypeOK, NEW w \in Workers, NEW q, Fits(w, q), Become(w, q), RowOK(ad'),
         lock' \in {lock, w, NoWorker}, lock \in {w, NoWorker} \/ (lock' = lock /\ ad' = ad),
         admins' = admins, clock' = clock
  PROVE  TypeOK'
<1>1. req' \in [Workers -> Served] /\ req'[w] = q /\ \A v \in Workers \ {w} : req'[v] = req[v]
  BY DEF TypeOK, Become, Fits
<1>2. /\ ad' \in AdRow /\ DraftsAreQueued' /\ admins' \subseteq Users /\ clock' \in 0..MaxClock
      /\ lock' \in Workers \cup {NoWorker}
  BY DEF TypeOK, RowOK, DraftsAreQueued
<1>3. RequestOK(w)'
  BY <1>1 DEF Fits, RequestOK
<1>4. ASSUME NEW v \in Workers \ {w} PROVE RequestOK(v)'
  <2>1. req'[v] = req[v] /\ RequestOK(v)
    BY <1>1 DEF TypeOK
  <2>2. lock' = v <=> lock = v
    BY AdWorkflowAssumption
  <2>3. req[v].pc = "locked" => ad' = ad
    BY <2>1, AdWorkflowAssumption DEF RequestOK
  <2> QED BY <2>1, <2>2, <2>3 DEF RequestOK
<1> QED BY <1>1, <1>2, <1>3, <1>4 DEF TypeOK

LEMMA RowStep ==
  ASSUME TypeOK, req' = req, lock' = lock, RowOK(ad'), ad' = ad \/ lock = NoWorker,
         admins' \subseteq Users, clock' \in 0..MaxClock
  PROVE  TypeOK'
<1>1. ASSUME NEW v \in Workers PROVE RequestOK(v)'
  <2>1. RequestOK(v) /\ v # NoWorker
    BY AdWorkflowAssumption DEF TypeOK
  <2>2. req[v].pc = "locked" => ad' = ad
    BY <2>1 DEF RequestOK
  <2> QED BY <2>1, <2>2 DEF RequestOK
<1>2. ad' \in AdRow /\ DraftsAreQueued'
  BY DEF RowOK, DraftsAreQueued
<1> QED BY <1>1, <1>2 DEF TypeOK

\* What TypeOK says of one worker and of the row.
LEMMA Facts ==
  ASSUME TypeOK, NEW w \in Workers
  PROVE  /\ req[w] \in Served /\ RequestOK(w) /\ RowOK(ad) /\ w # NoWorker
         /\ lock \in Workers \cup {NoWorker} /\ clock \in 0..MaxClock /\ admins \subseteq Users
  BY AdWorkflowAssumption DEF TypeOK, RowOK, DraftsAreQueued

LEMMA IdleFits ==
  ASSUME NEW w \in Workers, lock' # w
  PROVE  Fits(w, Idle) /\ Fits(w, [Idle EXCEPT !.pc = "mail"])
<1>1. Fits(w, Idle)
  BY IdleType DEF Fits
<1>2. [Idle EXCEPT !.pc = "mail"] \in Served
  BY IdleType DEF Served
<1>3. /\ [Idle EXCEPT !.pc = "mail"].pc = "mail" /\ [Idle EXCEPT !.pc = "mail"].actor = NoUser
      /\ [Idle EXCEPT !.pc = "mail"].admin = FALSE /\ [Idle EXCEPT !.pc = "mail"].changes = NoChanges
  BY DEF Idle
<1> QED BY <1>1, <1>2, <1>3 DEF Fits

(***************************************************************************)
(* The invariant, action by action.                                        *)
(***************************************************************************)
LEMMA InitTypeOK == Init => TypeOK
<1> SUFFICES ASSUME Init PROVE TypeOK
  OBVIOUS
<1>1. RowOK(ad) /\ ad.life = "unborn"
  BY AbsentType DEF Init, RowOK
<1>2. ASSUME NEW w \in Workers PROVE RequestOK(w)
  <2>1. req[w] = Idle /\ lock # w
    BY AdWorkflowAssumption DEF Init
  <2> QED BY <2>1, IdleType DEF RequestOK
<1>3. req \in [Workers -> Served] /\ clock \in 0..MaxClock
  BY IdleType, AdWorkflowAssumption DEF Init
<1> QED BY <1>1, <1>2, <1>3 DEF Init, TypeOK, RowOK, DraftsAreQueued

LEMMA CreateStep == ASSUME TypeOK, NEW u \in Users, Create(u) PROVE TypeOK'
<1>1. PICK c \in Contents, s \in Statuses, submitted \in {clock, Never} :
        ad' = Row("live", s, u, c, submitted) /\ (s = "draft" => submitted = clock)
  BY DEF Create
<1>2. clock \in 0..MaxClock /\ admins \subseteq Users /\ MaxClock \in Nat
  BY AdWorkflowAssumption DEF TypeOK
<1>3. ad' \in AdRow /\ ad'.status = s /\ ad'.submitted = submitted
  BY <1>1, <1>2 DEF Row, AdRow, Never
<1>4. RowOK(ad')
  BY <1>1, <1>2, <1>3 DEF RowOK, Never
<1>5. lock = NoWorker
  <2>1. ad.life = "unborn" /\ lock \in Workers \cup {NoWorker} /\ \A w \in Workers : RequestOK(w)
    BY DEF Create, TypeOK
  <2> QED BY <2>1 DEF RequestOK
<1> QED BY <1>2, <1>4, <1>5, RowStep DEF Create

LEMMA StartStep == ASSUME TypeOK, NEW w \in Workers, Start(w) PROVE TypeOK'
<1>1. PICK u \in Users, ch \in ChangeSet :
        Become(w, [Idle EXCEPT !.pc = "lock", !.actor = u, !.admin = u \in admins, !.changes = ch])
  BY DEF Start
<1> DEFINE admin == u \in admins
           q == [Idle EXCEPT !.pc = "lock", !.actor = u, !.admin = admin, !.changes = ch]
<1>0. admin \in BOOLEAN
  OBVIOUS
<1> HIDE DEF admin
<1>2. q \in Served
  BY <1>0, IdleType DEF Served
<1>3. q.pc = "lock" /\ q.changes = ch
  BY DEF Idle
<1>4. lock # w
  BY Facts DEF Start, RequestOK
<1>5. Become(w, q) /\ UNCHANGED <<ad, lock, admins, clock>>
  BY <1>1 DEF Start, admin
<1> HIDE DEF q
<1>6. Fits(w, q)
  BY <1>2, <1>3, <1>4, <1>5 DEF Fits
<1> QED BY <1>5, <1>6, Facts, RequestStep

LEMMA LockStep == ASSUME TypeOK, NEW w \in Workers, Lock(w) PROVE TypeOK'
<1> DEFINE r == req[w]
           q == [r EXCEPT !.pc = "locked", !.copy = ad]
<1>1. /\ r.pc = "lock" /\ lock = NoWorker /\ UNCHANGED <<ad, admins, clock>>
      /\ r \in Served /\ RowOK(ad) /\ r.changes \in ChangeSet /\ lock # w
  BY Facts DEF Lock, RequestOK
<1>2. CASE ad.life = "live" /\ MayChange(r.actor, r.admin, ad) /\ Allowed(r, ad)
  <2>1. Become(w, q) /\ lock' = w
    BY <1>2 DEF Lock
  <2>2. q \in Served
    BY <1>1 DEF Served, RowOK
  <2>3. /\ q.pc = "locked" /\ q.copy = ad /\ q.actor = r.actor /\ q.admin = r.admin
        /\ q.changes = r.changes
    BY <1>1 DEF Served
  <2> HIDE DEF q
  <2>4. Allowed(q, ad)
    BY <1>2, <2>3 DEF Allowed
  <2>5. Fits(w, q)
    BY <1>1, <1>2, <2>1, <2>2, <2>3, <2>4 DEF Fits
  <2> QED BY <1>1, <2>1, <2>5, RequestStep
<1>3. CASE ~ (ad.life = "live" /\ MayChange(r.actor, r.admin, ad) /\ Allowed(r, ad))
  <2>1. Become(w, Idle) /\ lock' = lock
    BY <1>3 DEF Lock, Refuse
  <2> QED BY <1>1, <2>1, IdleFits, RequestStep
<1> QED BY <1>2, <1>3

LEMMA SaveStep == ASSUME TypeOK, NEW w \in Workers, Save(w) PROVE TypeOK'
<1> DEFINE r == req[w]
<1>1. /\ r.pc = "locked" /\ lock = w /\ lock' = NoWorker /\ r.copy = ad /\ ad.life = "live"
      /\ r \in Served /\ RowOK(ad) /\ r.changes \in ChangeSet /\ clock \in 0..MaxClock /\ lock' # w
  BY Facts DEF Save, RequestOK
<1>2. /\ ad' = Updated(r, ad) /\ UNCHANGED <<admins, clock>>
      /\ Become(w, Idle) \/ Become(w, [Idle EXCEPT !.pc = "mail"])
  BY <1>1 DEF Save
<1>3. RowOK(ad')
  BY <1>1, <1>2, UpdatedRow DEF RowOK
<1> QED BY <1>1, <1>2, <1>3, IdleFits, RequestStep

LEMMA MailStep == ASSUME TypeOK, NEW w \in Workers, Mail(w) PROVE TypeOK'
<1>1. Become(w, Idle) /\ UNCHANGED <<ad, lock, admins, clock>> /\ lock' # w /\ RowOK(ad')
  BY Facts DEF Mail, RequestOK
<1> QED BY <1>1, IdleFits, RequestStep

LEMMA DeleteStartStep == ASSUME TypeOK, NEW w \in Workers, DeleteStart(w) PROVE TypeOK'
<1>1. PICK u \in Users : Become(w, [Idle EXCEPT !.pc = "delete", !.actor = u, !.admin = u \in admins])
  BY DEF DeleteStart
<1> DEFINE admin == u \in admins
           q == [Idle EXCEPT !.pc = "delete", !.actor = u, !.admin = admin]
<1>0. admin \in BOOLEAN
  OBVIOUS
<1> HIDE DEF admin
<1>2. q \in Served
  BY <1>0, IdleType DEF Served
<1>3. q.pc = "delete"
  BY DEF Idle
<1>4. Become(w, q) /\ UNCHANGED <<ad, lock, admins, clock>> /\ lock # w /\ RowOK(ad')
  BY <1>1, Facts DEF DeleteStart, RequestOK, admin
<1> HIDE DEF q
<1>5. Fits(w, q)
  BY <1>2, <1>3, <1>4 DEF Fits
<1> QED BY <1>4, <1>5, RequestStep

LEMMA DeleteStep == ASSUME TypeOK, NEW w \in Workers, Delete(w) PROVE TypeOK'
<1>1. Become(w, Idle) /\ lock = NoWorker /\ UNCHANGED <<lock, admins, clock>> /\ lock' # w /\ RowOK(ad')
  BY Facts, AbsentType DEF Delete, RequestOK, RowOK
<1> QED BY <1>1, IdleFits, RequestStep

LEMMA CrashStep == ASSUME TypeOK, NEW w \in Workers, Crash(w) PROVE TypeOK'
<1>1. /\ Become(w, Idle) /\ UNCHANGED <<ad, admins, clock>> /\ lock' # w /\ RowOK(ad')
      /\ lock' = (IF lock = w THEN NoWorker ELSE lock)
  BY Facts DEF Crash
<1> QED BY <1>1, IdleFits, RequestStep

LEMMA StepTypeOK == TypeOK /\ [Next]_vars => TypeOK'
<1> SUFFICES ASSUME TypeOK, [Next]_vars PROVE TypeOK'
  OBVIOUS
<1>1. CASE UNCHANGED vars
  BY <1>1 DEF vars, TypeOK, RequestOK, DraftsAreQueued, Allowed
<1>2. ASSUME NEW w \in Workers, Serve(w) \/ Crash(w) PROVE TypeOK'
  BY <1>2, StartStep, LockStep, SaveStep, MailStep, DeleteStartStep, DeleteStep, CrashStep DEF Serve
<1>3. ASSUME NEW u \in Users, Create(u) PROVE TypeOK'
  BY <1>3, CreateStep
<1>4. ASSUME NEW u \in Users, SetRole(u) PROVE TypeOK'
  <2>1. admins' \subseteq Users /\ RowOK(ad') /\ clock' \in 0..MaxClock
    BY <1>4 DEF SetRole, TypeOK, RowOK, DraftsAreQueued
  <2> QED BY <1>4, <2>1, RowStep DEF SetRole
<1>5. CASE Tick
  <2>1. admins' \subseteq Users /\ RowOK(ad') /\ clock' \in 0..MaxClock
    BY <1>5, AdWorkflowAssumption DEF Tick, TypeOK, RowOK, DraftsAreQueued
  <2> QED BY <1>5, <2>1, RowStep DEF Tick
<1> QED BY <1>1, <1>2, <1>3, <1>4, <1>5 DEF Next

\* Types, the row lock, and that what a request decided at its lock holds until it saves.
THEOREM TypeCorrect == Spec => []TypeOK
<1> QED BY InitTypeOK, StepTypeOK, PTL DEF Spec

(***************************************************************************)
(* What a step may do to the row.                                          *)
(***************************************************************************)
LEMMA SaveFacts ==
  ASSUME TypeOK, NEW w \in Workers, Save(w)
  PROVE  /\ req[w] \in Served /\ req[w].changes \in ChangeSet /\ ad \in AdRow
         /\ req[w].pc = "locked" /\ ad.life = "live" /\ clock \in 0..MaxClock
         /\ MayChange(req[w].actor, req[w].admin, ad) /\ Allowed(req[w], ad)
         /\ ad' = Updated(req[w], ad) /\ Announces(req[w], req[w].copy) = Announces(req[w], ad)
         /\ req' = [req EXCEPT ![w] = IF Announces(req[w], ad) THEN [Idle EXCEPT !.pc = "mail"] ELSE Idle]
         /\ req'[w].pc \in {"idle", "mail"}
<1>1. RequestOK(w) /\ req[w] \in Served /\ ad \in AdRow /\ clock \in 0..MaxClock
  BY Facts DEF RowOK
<1>2. req[w].pc = "locked" /\ req[w].copy = ad
  BY <1>1 DEF Save, RequestOK
<1>3. req' = [req EXCEPT ![w] = IF Announces(req[w], ad) THEN [Idle EXCEPT !.pc = "mail"] ELSE Idle]
  BY <1>2 DEF Save, Become
<1>4. req'[w].pc \in {"idle", "mail"}
  BY <1>3 DEF TypeOK, Idle
<1> QED BY <1>1, <1>2, <1>3, <1>4 DEF Save, RequestOK

\* A live advertisement that stays live is changed by a save and nothing else.
LEMMA OnlySavesWrite ==
  ASSUME TypeOK, [Next]_vars, ad.life = "live", ad'.life = "live", ad' # ad
  PROVE  \E w \in Workers : Save(w)
<1>1. ASSUME NEW w \in Workers, Delete(w) PROVE FALSE
  BY <1>1, AbsentType DEF Delete
<1> QED BY <1>1 DEF Next, vars, Serve, Create, Start, Lock, Mail, DeleteStart, Crash, SetRole, Tick

\* A request leaves its lock by its save, or by its death, which writes nothing.
LEMMA LeavesByASave ==
  ASSUME TypeOK, [Next]_vars, NEW w \in Workers, Saves(w)
  PROVE  Save(w) \/ ad' = ad
<1>1. req[w].pc = "locked" /\ req' # req
  BY DEF Saves
<1>2. ASSUME NEW v \in Workers, Serve(v) \/ Crash(v), v # w PROVE FALSE
  <2>1. \E q : Become(v, q)
    BY <1>2 DEF Serve, Start, Lock, Refuse, Save, Mail, DeleteStart, Delete, Crash
  <2> QED BY <1>2, <2>1 DEF Become, Saves, TypeOK
<1>3. Serve(w) \/ Crash(w)
  BY <1>1, <1>2 DEF Next, vars, Create, SetRole, Tick
<1> QED BY <1>1, <1>3 DEF Serve, Start, Lock, Mail, DeleteStart, Delete, Crash

\* The outcome of a request without the role.
LEMMA AuthorsSave ==
  ASSUME TypeOK, NEW w \in Workers, Save(w), ~ req[w].admin
  PROVE  /\ req[w].actor = ad.author
         /\ IF StatusOnly(req[w].changes)
            THEN /\ ad.status = "published" /\ ad'.status = "archived"
                 /\ req[w].changes.status = "archived" /\ ad'.content = ad.content
            ELSE /\ Wished(req[w].changes.status, ad.status) \in {ad.status, "archived"}
                 /\ ad'.status = "draft" /\ ad'.submitted = clock
<1>1. /\ ad'.status = NewStatus(req[w], ad)
      /\ ad'.content = Wished(req[w].changes.content, ad.content)
      /\ ad'.submitted = (IF Resubmits(req[w], ad) THEN clock ELSE ad.submitted)
  BY SaveFacts, UpdatedRow
<1>2. StatusOnly(req[w].changes) => req[w].changes.content = Keep /\ req[w].changes.status # Keep
  BY SaveFacts, ChangeFacts
<1>3. MayChange(req[w].actor, req[w].admin, ad) /\ Allowed(req[w], ad)
  BY SaveFacts
<1> QED BY <1>1, <1>2, <1>3 DEF NewStatus, Resubmits, Target, Wished, MayChange, Allowed

LEMMA AuthorizedStep ==
  ASSUME TypeOK, [Next]_vars, ad.life = "live", ad'.life = "live", ad' # ad
  PROVE  \E w \in Workers :
            /\ Saves(w)
            /\ \/ req[w].admin
               \/ /\ req[w].actor = ad.author
                  /\ \/ ad'.status = "draft"
                     \/ ad.status = "published" /\ ad'.status = "archived"
<1>1. PICK w \in Workers : Save(w)
  BY OnlySavesWrite
<1>2. Saves(w)
  BY <1>1, SaveFacts DEF Saves
<1> QED BY <1>1, <1>2, AuthorsSave

\* Whoever came in without the role changes only what is his at that moment.
THEOREM Authorized == Spec => ChangesAreAuthorized
<1>1. TypeOK /\ [Next]_vars =>
        [ad.life = "live" /\ ad'.life = "live" /\ ad' # ad =>
           \E w \in Workers :
               /\ Saves(w)
               /\ \/ req[w].admin
                  \/ /\ req[w].actor = ad.author
                     /\ \/ ad'.status = "draft"
                        \/ ad.status = "published" /\ ad'.status = "archived"]_vars
  BY AuthorizedStep
<1> QED BY <1>1, TypeCorrect, PTL DEF Spec, ChangesAreAuthorized

LEMMA FieldsStep ==
  ASSUME TypeOK, [Next]_vars, ad.life = "live", ad'.life = "live", NEW w \in Workers, Saves(w)
  PROVE  /\ ad'.content # ad.content => ad'.content = req[w].changes.content
         /\ ad'.author # ad.author => ad'.author = req[w].changes.author
         /\ ad'.status \notin {ad.status, "draft"} => ad'.status = req[w].changes.status
<1>1. CASE ad' = ad
  BY <1>1
<1>2. CASE Save(w)
  <2>1. /\ ad'.status = NewStatus(req[w], ad)
        /\ ad'.content = Wished(req[w].changes.content, ad.content)
        /\ ad'.author = Wished(req[w].changes.author, ad.author)
    BY <1>2, SaveFacts, UpdatedRow
  <2> QED BY <2>1 DEF Wished, NewStatus, Target
<1> QED BY <1>1, <1>2, LeavesByASave

\* The whole row is saved, and no field changes that the request did not name.
THEOREM NothingUndone == Spec => EditsTouchOnlyTheirFields
<1>1. TypeOK /\ [Next]_vars =>
        [ad.life = "live" /\ ad'.life = "live" =>
           \A w \in Workers : Saves(w) =>
               /\ ad'.content # ad.content => ad'.content = req[w].changes.content
               /\ ad'.author # ad.author => ad'.author = req[w].changes.author
               /\ ad'.status \notin {ad.status, "draft"} => ad'.status = req[w].changes.status]_vars
  BY FieldsStep
<1> QED BY <1>1, TypeCorrect, PTL DEF Spec, EditsTouchOnlyTheirFields

LEMMA ReviewedStep ==
  ASSUME TypeOK, [Next]_vars, ad.life = "live", ad'.life = "live", ad'.content # ad.content
  PROVE  \/ ad'.status = "draft" /\ ad'.submitted = clock
         \/ \E w \in Workers : Saves(w) /\ req[w].admin
<1>1. PICK w \in Workers : Save(w)
  BY OnlySavesWrite
<1>2. Saves(w)
  BY <1>1, SaveFacts DEF Saves
<1> QED BY <1>1, <1>2, AuthorsSave

\* New words of an author wait for a reviewer.
THEOREM Reviewed == Spec => AuthorsEditsAreReviewed
<1>1. TypeOK /\ [Next]_vars =>
        [ad.life = "live" /\ ad'.life = "live" /\ ad'.content # ad.content =>
           \/ ad'.status = "draft" /\ ad'.submitted = clock
           \/ \E w \in Workers : Saves(w) /\ req[w].admin]_vars
  BY ReviewedStep
<1> QED BY <1>1, TypeCorrect, PTL DEF Spec, AuthorsEditsAreReviewed

(***************************************************************************)
(* The refinement, action by action.                                       *)
(***************************************************************************)
LEMMA AskedByIdle ==
  ASSUME NEW r \in Served, r.pc \in {"idle", "mail"}, r.actor = NoUser, r.admin = FALSE,
         r.changes = NoChanges
  PROVE  AskedBy(r) = Review!Nothing
<1>1. Kind(r) = "none"
  BY DEF Kind
<1>2. r.changes.status = Keep /\ r.changes.author = Keep /\ r.changes.content = Keep
  BY DEF NoChanges
<1> QED BY <1>1, <1>2, Zenon DEF AskedBy, Review!Nothing, Review!Order

LEMMA AskedStep ==
  ASSUME TypeOK, NEW w \in Workers, NEW q, Become(w, q)
  PROVE  /\ Asked' = [Asked EXCEPT ![w] = AskedBy(q)]
         /\ Asked[w] = AskedBy(req[w])
         /\ Owed' = IF q.pc = "mail" THEN Owed \cup {w} ELSE Owed \ {w}
<1>1. req' = [req EXCEPT ![w] = q] /\ req'[w] = q /\ \A v \in Workers \ {w} : req'[v] = req[v]
  BY DEF Become, TypeOK
<1>2. Owed' = IF q.pc = "mail" THEN Owed \cup {w} ELSE Owed \ {w}
  BY <1>1 DEF Owed
<1>3. Asked' = [v \in Workers |-> AskedBy(req'[v])]
  BY DEF Asked, AskedBy, Kind
<1>4. ASSUME NEW v \in Workers PROVE AskedBy(req'[v]) = IF v = w THEN AskedBy(q) ELSE AskedBy(req[v])
  BY <1>1
<1>5. [Asked EXCEPT ![w] = AskedBy(q)] =
        [v \in Workers |-> IF v = w THEN AskedBy(q) ELSE AskedBy(req[v])]
  BY DEF Asked
<1>6. Asked' = [v \in Workers |-> IF v = w THEN AskedBy(q) ELSE AskedBy(req[v])]
  BY <1>3, <1>4
<1>7. Asked[w] = AskedBy(req[w])
  BY DEF Asked
<1> QED BY <1>2, <1>5, <1>6, <1>7

\* The worker that finishes: its request is no more, and the letter it owes is its own.
LEMMA Finishes ==
  ASSUME TypeOK, NEW w \in Workers, Become(w, Idle)
  PROVE  /\ Review!Finished(w)
         /\ Owed' = Owed \ {w}
<1>1. AskedBy(Idle) = Review!Nothing
  BY IdleType, AskedByIdle
<1> QED BY <1>1, AskedStep, IdleType DEF Review!Finished

LEMMA PendingAsked ==
  ASSUME TypeOK, NEW w \in Workers
  PROVE  /\ req[w].pc \in {"lock", "locked"} => Asked[w].kind = "change" /\ w \notin Owed
         /\ req[w].pc = "delete" => Asked[w].kind = "delete" /\ w \notin Owed
         /\ req[w].pc \in {"idle", "mail"} => Asked[w] = Review!Nothing
<1>1. RequestOK(w) /\ req[w] \in Served
  BY Facts
<1>2. Asked[w] = AskedBy(req[w])
  BY DEF Asked
<1>3. req[w].pc \in {"idle", "mail"} => Asked[w] = Review!Nothing
  BY <1>1, <1>2, AskedByIdle DEF RequestOK
<1> QED BY <1>2, <1>3 DEF AskedBy, Kind, Owed

LEMMA InitRefines == Init => Review!Init
<1> SUFFICES ASSUME Init PROVE Review!Init
  OBVIOUS
<1>1. Shown = Review!Absent("unborn")
  BY AbsentType DEF Init, Shown, Review!Absent, Review!Ad
<1>2. Asked = [w \in Workers |-> Review!Nothing]
  BY IdleType, AskedByIdle DEF Init, Asked
<1>3. Owed = {}
  BY IdleType DEF Init, Owed
<1> QED BY <1>1, <1>2, <1>3 DEF Review!Init

LEMMA CreateRefines == ASSUME TypeOK, NEW u \in Users, Create(u) PROVE Review!Post
<1>1. ad.life = "unborn" /\ ad'.life = "live" /\ req' = req
  BY DEF Create, Row
<1> QED BY <1>1 DEF Review!Post, Shown, Asked, Owed, AskedBy, Kind

LEMMA StartRefines ==
  ASSUME TypeOK, NEW w \in Workers, Start(w) \/ DeleteStart(w)
  PROVE  Review!Ask(w)
<1>1. PICK u, q :
        /\ Become(w, q) /\ q.pc \in {"lock", "delete"} /\ q.actor = u /\ q.admin = (u \in admins)
        /\ MayChange(u, u \in admins, ad) /\ req[w].pc = "idle" /\ ad.life = "live" /\ ad' = ad
  <2>1. CASE Start(w)
    <3>1. PICK u \in Users, ch \in ChangeSet :
            /\ MayChange(u, u \in admins, ad)
            /\ Become(w, [Idle EXCEPT !.pc = "lock", !.actor = u, !.admin = u \in admins, !.changes = ch])
      BY <2>1 DEF Start
    <3> DEFINE q == [Idle EXCEPT !.pc = "lock", !.actor = u, !.admin = u \in admins, !.changes = ch]
    <3>2. q.pc = "lock" /\ q.actor = u /\ q.admin = (u \in admins)
      BY DEF Idle
    <3>3. Become(w, q)
      BY <3>1
    <3> HIDE DEF q
    <3> QED BY <2>1, <3>1, <3>2, <3>3 DEF Start
  <2>2. CASE DeleteStart(w)
    <3>1. PICK u \in Users :
            /\ MayChange(u, u \in admins, ad)
            /\ Become(w, [Idle EXCEPT !.pc = "delete", !.actor = u, !.admin = u \in admins])
      BY <2>2 DEF DeleteStart
    <3> DEFINE q == [Idle EXCEPT !.pc = "delete", !.actor = u, !.admin = u \in admins]
    <3>2. q.pc = "delete" /\ q.actor = u /\ q.admin = (u \in admins)
      BY DEF Idle
    <3>3. Become(w, q)
      BY <3>1
    <3> HIDE DEF q
    <3> QED BY <2>2, <3>1, <3>2, <3>3 DEF DeleteStart
  <2> QED BY <2>1, <2>2
<1>2. /\ Asked' = [Asked EXCEPT ![w] = AskedBy(q)] /\ Asked'[w] = AskedBy(q)
      /\ Owed' = Owed \ {w} /\ Asked[w] = Review!Nothing /\ w \notin Owed
  BY <1>1, AskedStep, PendingAsked DEF Asked, Owed
<1>3. /\ Asked'[w].kind \in {"change", "delete"} /\ Asked'[w].actor = u
      /\ Asked'[w].admin = (u \in admins)
  BY <1>1, <1>2 DEF AskedBy, Kind
<1>4. Asked'[w].admin \/ Asked'[w].actor = Shown.author
  BY <1>1, <1>3 DEF MayChange, Shown
<1> QED BY <1>1, <1>2, <1>3, <1>4 DEF Review!Ask, Shown

LEMMA LockRefines ==
  ASSUME TypeOK, NEW w \in Workers, Lock(w)
  PROVE  Review!Drop(w) \/ UNCHANGED <<Shown, Asked, Owed>>
<1> DEFINE q == [req[w] EXCEPT !.pc = "locked", !.copy = ad]
<1>1. /\ req[w].pc = "lock" /\ ad' = ad /\ req[w] \in Served
      /\ Asked[w].kind = "change" /\ w \notin Owed
  BY Facts, PendingAsked DEF Lock
<1>2. CASE Become(w, q)
  <2>1. AskedBy(q) = AskedBy(req[w]) /\ q.pc = "locked"
    BY <1>1 DEF AskedBy, Kind, Served
  <2> HIDE DEF q
  <2>2. Asked' = Asked /\ Owed' = Owed
    BY <1>1, <1>2, <2>1, AskedStep DEF Asked
  <2> QED BY <1>1, <2>2 DEF Shown
<1>3. CASE Become(w, Idle)
  <2>1. Asked[w] # Review!Nothing
    BY <1>1 DEF Review!Nothing, Review!Order
  <2> QED BY <1>1, <1>3, <2>1, Finishes DEF Review!Drop, Shown
<1> QED BY <1>2, <1>3 DEF Lock, Refuse

LEMMA SaveRefines == ASSUME TypeOK, NEW w \in Workers, Save(w) PROVE Review!Change(w)
<1> DEFINE r == req[w]
           o == Asked[w]
           q == IF Announces(r, ad) THEN [Idle EXCEPT !.pc = "mail"] ELSE Idle
<1>1. /\ o.kind = "change" /\ o.admin = r.admin /\ o.actor = r.actor /\ o.status = r.changes.status
      /\ o.author = r.changes.author /\ o.content = r.changes.content /\ w \notin Owed
  BY SaveFacts, PendingAsked DEF Asked, AskedBy
<1>2. /\ ad'.life = "live" /\ ad'.status = NewStatus(r, ad)
      /\ ad'.author = Wished(r.changes.author, ad.author)
      /\ ad'.content = Wished(r.changes.content, ad.content)
  BY SaveFacts, UpdatedRow
<1>3. Review!Click(o) <=> StatusOnly(r.changes)
  BY <1>1, SaveFacts, ChangeFacts DEF Review!Click
<1>4. Review!Ruled(o, ad'.status)
  <2>1. CASE r.admin
    BY <1>1, <1>2, <2>1 DEF Review!Ruled, Review!Wish, NewStatus, Target, Wished, Shown
  <2>2. CASE ~ r.admin
    BY <1>1, <1>3, <2>2, AuthorsSave DEF Review!Ruled, Wished, Shown
  <2> QED BY <2>1, <2>2
<1>5. Shown' = Review!Ad("live", ad'.status, Review!Wish(o.author, ad.author), Review!Wish(o.content, ad.content))
  BY <1>1, <1>2 DEF Shown, Review!Ad, Review!Wish, Wished
<1>6. Announces(r, ad) <=> ad.status # "published" /\ ad'.status = "published"
  <2>1. CASE r.admin
    BY <1>2, <2>1 DEF Announces
  <2>2. CASE ~ r.admin
    BY <1>2, <2>2, AuthorsSave DEF Announces
  <2> QED BY <2>1, <2>2
<1>7. Become(w, q) /\ AskedBy(q) = Review!Nothing /\ (q.pc = "mail" <=> Announces(r, ad))
  <2>1. Become(w, q)
    BY SaveFacts DEF Become
  <2>2. AskedBy(Idle) = Review!Nothing /\ Idle.pc = "idle"
    BY IdleType, AskedByIdle
  <2>3. AskedBy([Idle EXCEPT !.pc = "mail"]) = AskedBy(Idle) /\ [Idle EXCEPT !.pc = "mail"].pc = "mail"
    BY DEF AskedBy, Kind, Idle
  <2> QED BY <2>1, <2>2, <2>3
<1> HIDE DEF q
<1>8. /\ Review!Finished(w)
      /\ Owed' = IF ad.status # "published" /\ ad'.status = "published" THEN Owed \cup {w} ELSE Owed
  BY <1>1, <1>6, <1>7, AskedStep DEF Review!Finished
<1>9. Shown.life = "live" /\ Shown.status = ad.status /\ Shown.author = ad.author
      /\ Shown.content = ad.content /\ Shown'.status = ad'.status
  BY SaveFacts DEF Shown
<1> HIDE DEF o
<1> QED BY <1>1, <1>4, <1>5, <1>8, <1>9 DEF Review!Change, o

LEMMA MailRefines ==
  ASSUME TypeOK, NEW w \in Workers, Become(w, Idle), req[w].pc = "mail", ad' = ad
  PROVE  Review!Announce(w)
<1>1. w \in Owed /\ Asked[w] = Review!Nothing /\ Asked' = [Asked EXCEPT ![w] = Review!Nothing]
  BY PendingAsked, Finishes DEF Owed, Review!Finished
<1>2. Asked' = Asked
  BY <1>1 DEF Asked
<1> QED BY <1>1, <1>2, Finishes DEF Review!Announce, Shown

LEMMA DeleteRefines == ASSUME TypeOK, NEW w \in Workers, Delete(w) PROVE Review!Delete(w)
<1>1. /\ Become(w, Idle) /\ ad' = Absent("gone")
      /\ Asked[w].kind = "delete" /\ w \notin Owed
  BY PendingAsked DEF Delete
<1>2. Shown' = Review!Absent("gone")
  BY <1>1, AbsentType DEF Shown, Review!Absent, Review!Ad
<1> QED BY <1>1, <1>2, Finishes DEF Review!Delete

LEMMA CrashRefines ==
  ASSUME TypeOK, NEW w \in Workers, Crash(w)
  PROVE  Review!Drop(w) \/ Review!Announce(w)
<1>1. Become(w, Idle) /\ ad' = ad /\ req[w].pc # "idle" /\ req[w] \in Served
  BY Facts DEF Crash
<1>2. CASE req[w].pc = "mail"
  BY <1>1, <1>2, MailRefines
<1>3. CASE req[w].pc # "mail"
  <2>1. Asked[w].kind # "none" /\ w \notin Owed
    BY <1>1, <1>3, PendingAsked DEF Served
  <2>2. Asked[w] # Review!Nothing
    BY <2>1 DEF Review!Nothing, Review!Order
  <2> QED BY <1>1, <2>1, <2>2, Finishes DEF Review!Drop, Shown
<1> QED BY <1>2, <1>3

LEMMA NextRefines ==
  ASSUME TypeOK, [Next]_vars
  PROVE  [Review!Next]_(<<Shown, Asked, Owed>>)
<1>1. ASSUME NEW w \in Workers, Serve(w) \/ Crash(w)
      PROVE  Review!Next \/ UNCHANGED <<Shown, Asked, Owed>>
  <2>1. CASE Start(w) \/ DeleteStart(w)
    BY <2>1, StartRefines DEF Review!Next
  <2>2. CASE Lock(w)
    BY <2>2, LockRefines DEF Review!Next
  <2>3. CASE Save(w)
    BY <2>3, SaveRefines DEF Review!Next
  <2>4. CASE Mail(w)
    BY <2>4, MailRefines DEF Mail, Review!Next
  <2>5. CASE Delete(w)
    BY <2>5, DeleteRefines DEF Review!Next
  <2>6. CASE Crash(w)
    BY <2>6, CrashRefines DEF Review!Next
  <2> QED BY <1>1, <2>1, <2>2, <2>3, <2>4, <2>5, <2>6 DEF Serve
<1>2. ASSUME NEW u \in Users, Create(u) PROVE Review!Next
  BY <1>2, CreateRefines DEF Review!Next
<1>3. CASE ad' = ad /\ req' = req
  BY <1>3 DEF Shown, Asked, Owed, AskedBy, Kind
<1> QED BY <1>1, <1>2, <1>3 DEF Next, vars, SetRole, Tick

\* The handlers with their copies, lock and letters are requests that act at once.
THEOREM Refinement == Spec => ImplementsAdReview
<1>1. TypeOK /\ [Next]_vars => [Review!Next]_(<<Shown, Asked, Owed>>)
  BY NextRefines
<1> QED BY <1>1, InitRefines, TypeCorrect, PTL DEF Spec, ImplementsAdReview, Review!Spec, Review!vars
=============================================================================
