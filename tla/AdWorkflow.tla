----------------------------- MODULE AdWorkflow -----------------------------
(***************************************************************************)
(* The review of one advertisement (ads/workflow.py): authors submit and   *)
(* edit it, administrators publish, archive or return it, through the API, *)
(* the site and the admin site.                                            *)
(*                                                                         *)
(* Every path reads the row to decide who may try, and update_ad reads it  *)
(* again FOR UPDATE to decide what happens; the row may change in between, *)
(* and so may the actor's role, which is the one read with the session or  *)
(* the token.                                                              *)
(***************************************************************************)
EXTENDS Integers

CONSTANTS
    Workers,        \* gunicorn workers, each serving one request at a time
    Users,          \* accounts
    Staff,          \* those let into the admin site (is_staff), whatever their role
    Contents,       \* what an advertisement says: title, price, text, image
    NoUser,
    NoWorker,
    MaxClock        \* bound: the last instant

ASSUME AdWorkflowAssumption ==
    /\ Staff \subseteq Users
    /\ Contents # {}
    /\ NoUser \notin Users
    /\ NoWorker \notin Workers
    /\ MaxClock \in Nat

VARIABLES
    ad,             \* the ads_ad row
    lock,           \* the worker holding its row lock
    admins,         \* the accounts with the administrator's role
    clock,
    req             \* worker -> the request it is serving

vars == <<ad, lock, admins, clock, req>>

----------------------------------------------------------------------------
Statuses == {"draft", "published", "archived"}

Never == -1         \* submitted_at IS NULL
Keep  == "keep"     \* a field the request does not change

ASSUME KeepAssumption == Keep \notin Contents \cup Users

SomeContent == CHOOSE c \in Contents : TRUE

Row(life, status, author, content, submitted) ==
    [life |-> life, status |-> status, author |-> author, content |-> content,
     submitted |-> submitted]

\* The row before it is inserted, and after it is deleted.
Absent(life) == Row(life, "draft", NoUser, SomeContent, Never)

NoChanges == [content |-> Keep, status |-> Keep, author |-> Keep, action |-> FALSE]

\* What a request changes; action says that it came by a status button.  A request
\* that changes nothing leaves update_ad at once and is left out.
ChangeSet ==
    LET edits  == [content : Contents, status : Statuses \cup {Keep}, author : {Keep}, action : {FALSE}]
        clicks == [content : {Keep}, status : Statuses, author : {Keep}, action : BOOLEAN]
        moves  == [content : {Keep}, status : {Keep}, author : Users, action : {FALSE}]
    IN  edits \cup clicks \cup moves

Idle == [ pc |-> "idle", actor |-> NoUser, admin |-> FALSE, changes |-> NoChanges,
          copy |-> Absent("unborn") ]

Become(w, r) == req' = [req EXCEPT ![w] = r]

\* IsOwnerOrAdmin, require_owner and update_ad ask the same question.
MayChange(u, isAdmin, row) == isAdmin \/ row.author = u

Init ==
    /\ ad = Absent("unborn")
    /\ lock = NoWorker
    /\ admins \in SUBSET Users
    /\ clock = 0
    /\ req = [w \in Workers |-> Idle]

(***************************************************************************)
(* create_ad and AdAdmin.save_model for a new object.  The API lets the    *)
(* author choose the status, published when it is left out; the site makes *)
(* a draft.  Only an administrator's live advertisement goes unsubmitted.  *)
(***************************************************************************)
Create(u) ==
    /\ ad.life = "unborn"
    /\ \E c \in Contents, s \in Statuses, viaAdminSite \in {FALSE, Staff # {}} :
           LET asksReview == s = "draft" \/ (~ viaAdminSite /\ u \notin admins)
           IN  ad' = Row("live", s, u, c, IF asksReview THEN clock ELSE Never)
    /\ UNCHANGED <<lock, admins, clock, req>>

(***************************************************************************)
(* update_ad.                                                              *)
(***************************************************************************)
StatusOnly(ch) == ch.action \/ (ch.content = Keep /\ ch.author = Keep /\ ch.status # Keep)

Wished(wish, old) == IF wish = Keep THEN old ELSE wish

Target(ch, row) == Wished(ch.status, row.status)

\* What a click or an edit may ask of the status without the role.
Allowed(r, row) ==
    LET target == Target(r.changes, row)
    IN  \/ r.admin
        \/ /\ StatusOnly(r.changes)
           /\ row.status = "published" /\ target = "archived"
        \/ /\ ~ StatusOnly(r.changes)
           /\ target \in {row.status, "archived"}

\* Mutant of NewStatus: an author's edit keeps the status.
NewStatusKept(r, row) == Target(r.changes, row)

\* An author's edit goes back to the reviewers whatever else it asks.
NewStatus(r, row) ==
    IF r.admin \/ StatusOnly(r.changes) THEN Target(r.changes, row) ELSE "draft"

\* Mutant of Resubmits: returning by the status button does not queue.
ResubmitsEdits(r, row) ==
    /\ NewStatus(r, row) = "draft"
    /\ ~ StatusOnly(r.changes)

Resubmits(r, row) ==
    /\ NewStatus(r, row) = "draft"
    /\ \/ row.status # "draft"
       \/ ~ r.admin /\ ~ StatusOnly(r.changes)

Updated(r, row) ==
    Row(row.life, NewStatus(r, row), Wished(r.changes.author, row.author),
        Wished(r.changes.content, row.content), IF Resubmits(r, row) THEN clock ELSE row.submitted)

\* Mutant of Announces: every save of a published advertisement.
AnnouncesSaves(r, row) == r.admin /\ NewStatus(r, row) = "published"

Announces(r, row) ==
    /\ r.admin
    /\ row.status # "published" /\ NewStatus(r, row) = "published"

\* The view has found the advertisement and let the actor through.  Only the
\* admin site changes the author.
Start(w) ==
    /\ req[w].pc = "idle"
    /\ ad.life = "live"
    /\ \E u \in Users, ch \in ChangeSet :
           /\ MayChange(u, u \in admins, ad)
           /\ ch.author # Keep => u \in Staff
           /\ Become(w, [Idle EXCEPT !.pc = "lock", !.actor = u, !.admin = u \in admins,
                                     !.changes = ch])
    /\ UNCHANGED <<ad, lock, admins, clock>>

Refuse(w) ==
    /\ Become(w, Idle)
    /\ UNCHANGED lock

\* Mutant of Lock: the row is read again, but not locked.
LockNothing(w) ==
    /\ req[w].pc = "lock"
    /\ IF ad.life = "live" /\ MayChange(req[w].actor, req[w].admin, ad) /\ Allowed(req[w], ad)
       THEN Become(w, [req[w] EXCEPT !.pc = "locked", !.copy = ad]) /\ UNCHANGED lock
       ELSE Refuse(w)
    /\ UNCHANGED <<ad, admins, clock>>

\* Mutant of Lock: the decision of the view is trusted.
LockTrusting(w) ==
    /\ req[w].pc = "lock"
    /\ lock = NoWorker
    /\ IF ad.life = "live" /\ Allowed(req[w], ad)
       THEN Become(w, [req[w] EXCEPT !.pc = "locked", !.copy = ad]) /\ lock' = w
       ELSE Refuse(w)
    /\ UNCHANGED <<ad, admins, clock>>

\* SELECT ... FOR UPDATE, then the permission and the rules, on the locked row.
Lock(w) ==
    /\ req[w].pc = "lock"
    /\ lock = NoWorker
    /\ IF ad.life = "live" /\ MayChange(req[w].actor, req[w].admin, ad) /\ Allowed(req[w], ad)
       THEN Become(w, [req[w] EXCEPT !.pc = "locked", !.copy = ad]) /\ lock' = w
       ELSE Refuse(w)
    /\ UNCHANGED <<ad, admins, clock>>

\* ad.save() writes every field; the letter is registered for the commit.
Save(w) ==
    LET r == req[w]
        row == Updated(r, r.copy)
    IN  /\ r.pc = "locked"
        /\ ad' = row
        /\ lock' = IF lock = w THEN NoWorker ELSE lock
        /\ Become(w, IF Announces(r, r.copy) THEN [Idle EXCEPT !.pc = "mail"] ELSE Idle)
        /\ UNCHANGED <<admins, clock>>

\* send_publication_email, after the commit; a failure is only logged.
Mail(w) ==
    /\ req[w].pc = "mail"
    /\ Become(w, Idle)
    /\ UNCHANGED <<ad, lock, admins, clock>>

(***************************************************************************)
(* ad_delete and AdViewSet.destroy: the permission is not asked again.     *)
(***************************************************************************)
DeleteStart(w) ==
    /\ req[w].pc = "idle"
    /\ ad.life = "live"
    /\ \E u \in Users :
           /\ MayChange(u, u \in admins, ad)
           /\ Become(w, [Idle EXCEPT !.pc = "delete", !.actor = u, !.admin = u \in admins])
    /\ UNCHANGED <<ad, lock, admins, clock>>

Delete(w) ==
    /\ req[w].pc = "delete"
    /\ lock = NoWorker
    /\ ad' = Absent("gone")
    /\ Become(w, Idle)
    /\ UNCHANGED <<lock, admins, clock>>

\* UserAdmin.save_model: the role of an account changes.
SetRole(u) ==
    /\ admins' = IF u \in admins THEN admins \ {u} ELSE admins \cup {u}
    /\ UNCHANGED <<ad, lock, clock, req>>

Crash(w) ==
    /\ req[w].pc # "idle"
    /\ lock' = IF lock = w THEN NoWorker ELSE lock
    /\ Become(w, Idle)
    /\ UNCHANGED <<ad, admins, clock>>

Tick ==
    /\ clock < MaxClock
    /\ clock' = clock + 1
    /\ UNCHANGED <<ad, lock, admins, req>>

Serve(w) == Start(w) \/ Lock(w) \/ Save(w) \/ Mail(w) \/ DeleteStart(w) \/ Delete(w)

Next ==
    \/ \E w \in Workers : Serve(w) \/ Crash(w)
    \/ \E u \in Users : Create(u) \/ SetRole(u)
    \/ Tick

Spec == Init /\ [][Next]_vars

----------------------------------------------------------------------------
(* Properties.                                                             *)

AdRow == [ life : {"unborn", "live", "gone"}, status : Statuses, author : Users \cup {NoUser},
           content : Contents, submitted : -1..MaxClock ]

Served == [ pc : {"idle", "lock", "locked", "mail", "delete"}, actor : Users \cup {NoUser},
            admin : BOOLEAN, changes : ChangeSet \cup {NoChanges}, copy : AdRow ]

\* Whatever waits for the reviewers has a date in their queue, by every path
\* that makes a draft.
DraftsAreQueued ==
    ad.life = "live" /\ ad.status = "draft" => ad.submitted # Never

\* The row lock belongs to the worker between its SELECT FOR UPDATE and its commit;
\* what it read is still the row, and what was allowed then is allowed now.
RequestOK(w) ==
    LET r == req[w]
    IN  /\ r.pc = "locked" <=> lock = w
        /\ r.pc = "locked" => /\ r.copy = ad /\ ad.life = "live"
                             /\ MayChange(r.actor, r.admin, ad) /\ Allowed(r, ad)
        /\ r.pc \in {"lock", "locked"} => r.changes \in ChangeSet
        /\ r.pc \in {"idle", "mail"} => r.actor = NoUser /\ r.admin = FALSE /\ r.changes = NoChanges

\* The variables keep their types; requests hold what they rely on; drafts are queued.
TypeOK ==
    /\ ad \in AdRow
    /\ lock \in Workers \cup {NoWorker}
    /\ admins \subseteq Users
    /\ clock \in 0..MaxClock
    /\ req \in [Workers -> Served]
    /\ \A w \in Workers : RequestOK(w)
    /\ DraftsAreQueued

Saves(w) == req[w].pc = "locked" /\ req'[w].pc # "locked"

\* However requests overlap, a live advertisement changes only by someone who
\* came in as an administrator or is its author at that moment; without the role
\* the status goes only from published to archived, or back to the reviewers.
ChangesAreAuthorized ==
    [][ad.life = "live" /\ ad'.life = "live" /\ ad' # ad =>
           \E w \in Workers :
               /\ Saves(w)
               /\ \/ req[w].admin
                  \/ /\ req[w].actor = ad.author
                     /\ \/ ad'.status = "draft"
                        \/ ad.status = "published" /\ ad'.status = "archived"]_vars

\* ad.save() writes the whole row, yet no concurrent change is undone: what a
\* request did not ask for stays as the last committed request left it.
EditsTouchOnlyTheirFields ==
    [][ad.life = "live" /\ ad'.life = "live" =>
           \A w \in Workers : Saves(w) =>
               /\ ad'.content # ad.content => ad'.content = req[w].changes.content
               /\ ad'.author # ad.author => ad'.author = req[w].changes.author
               /\ ad'.status \notin {ad.status, "draft"} => ad'.status = req[w].changes.status]_vars

\* An author's edit of the content always ends with the reviewers: the new text
\* is not in the catalogue until an administrator publishes it.
AuthorsEditsAreReviewed ==
    [][ad.life = "live" /\ ad'.life = "live" /\ ad'.content # ad.content =>
           \/ ad'.status = "draft" /\ ad'.submitted = clock
           \/ \E w \in Workers : Saves(w) /\ req[w].admin]_vars

\* The mapping: a request is pending until its commit, its refusal or its end.
Kind(r) ==
    CASE r.pc \in {"lock", "locked"} -> "change"
      [] r.pc = "delete" -> "delete"
      [] OTHER -> "none"

AskedBy(r) ==
    [kind |-> Kind(r), actor |-> r.actor, admin |-> r.admin, status |-> r.changes.status,
     author |-> r.changes.author, content |-> r.changes.content]

Shown == [life |-> ad.life, status |-> ad.status, author |-> ad.author, content |-> ad.content]

Asked == [w \in Workers |-> AskedBy(req[w])]

Owed == {w \in Workers : req[w].pc = "mail"}

\* Each request that changes the advertisement does so at one instant, its commit,
\* by the rules and rights of that instant, however long ago it came in; and each
\* publication that commits, whoever else publishes at the time, owes one letter.
Review == INSTANCE AdReview WITH
    ad <- Shown, asked <- Asked, owed <- Owed, Nobody <- NoUser, Blank <- SomeContent

ImplementsAdReview == Review!Spec
=============================================================================
