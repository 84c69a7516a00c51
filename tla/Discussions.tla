---------------------------- MODULE Discussions ----------------------------
(***************************************************************************)
(* Reviews, questions and answers under advertisements (ads/discussions.py *)
(* and the views, forms, serializers and admin pages that call it).        *)
(*                                                                         *)
(* A request looks at the rows of the moment: which records its user may   *)
(* see and change, and what validate_discussion says.  It writes by a      *)
(* later statement, without a lock, while other requests change or delete  *)
(* the same rows, hide the advertisement or delete it.                     *)
(***************************************************************************)
EXTENDS Integers, FiniteSets

CONSTANTS
    Workers,        \* gunicorn workers, each serving one request at a time
    Ads,            \* advertisements
    Changing,       \* bound: those that are hidden, shown and deleted
    Users, Staff,   \* accounts; those of administrators
    Heirs,          \* bound: whom the admin page makes the author of a record
    MaxForms,       \* bound: admin pages being saved at the same time
    OwnerOf,        \* advertisement -> its author
    MaxReviews      \* bound: reviews ever written

ASSUME DiscussionsAssumption ==
    /\ IsFiniteSet(Workers)
    /\ Ads # {} /\ Changing \subseteq Ads
    /\ Users # {} /\ Staff \subseteq Users /\ Heirs \subseteq Users
    /\ OwnerOf \in [Ads -> Users]
    /\ MaxReviews \in Nat /\ MaxForms \in Nat

VARIABLES
    ads,            \* advertisement -> published, hidden (a draft, archived) or gone
    reviews,        \* id -> the ads_review row
    minted,         \* ids given so far
    req,            \* worker -> the request it is serving
    serial          \* history: no two requests have ever overlapped

vars == <<ads, reviews, minted, req, serial>>

----------------------------------------------------------------------------
Ids == 1..MaxReviews
None == 0           \* parent IS NULL
Kinds == {"review", "question"}
SomeAd == CHOOSE a \in Ads : TRUE
SomeUser == CHOOSE u \in Users : TRUE

Review(a, u, k, p) == [exists |-> TRUE, ad |-> a, author |-> u, kind |-> k, parent |-> p]
NoReview == [Review(SomeAd, SomeUser, "review", None) EXCEPT !.exists = FALSE]

Existing == {i \in Ids : reviews[i].exists}
Answers(i) == {j \in Existing : reviews[j].parent = i}

VisibleTo(u) == {a \in Ads : ads[a] = "published" \/ (ads[a] = "hidden" /\ (u \in Staff \/ OwnerOf[a] = u))}

\* Who has written a record keeps it when the advertisement is hidden.
AccessibleTo(u) == {i \in Existing : reviews[i].ad \in VisibleTo(u) \/ reviews[i].author = u}

\* parent_queryset.
ParentsFor(u, a) == {i \in AccessibleTo(u) : reviews[i].ad = a}

\* data: what the request is going to write; an edit through the API holds its user,
\* the advertisement in its URL, and no more of the row than the fields sent.
Sendable == {"kind", "parent"}
Idle == [pc |-> "idle", user |-> SomeUser, id |-> None, data |-> NoReview, fields |-> {}]

Become(w, r) == req' = [req EXCEPT ![w] = r]
Alone(w) == \A v \in Workers \ {w} : req[v].pc = "idle"
Inserting == {w \in Workers : req[w].pc = "insert"}

IsQuestionOf(p, a) ==
    /\ p \in Existing
    /\ reviews[p].ad = a /\ reviews[p].kind = "question" /\ reviews[p].parent = None

\* Mutant of Valid: the answers a record already has are not asked for.
ValidParent(i, row) ==
    /\ row.parent # None => IsQuestionOf(row.parent, row.ad) /\ row.parent # i

\* validate_discussion; i is None for a new record.
Valid(i, row) ==
    /\ row.parent # None => IsQuestionOf(row.parent, row.ad) /\ row.parent # i
    /\ i # None /\ Answers(i) # {} => row.kind = "question" /\ row.parent = None

\* The foreign keys, checked when the transaction ends.
RefsExist(row) == ads[row.ad] # "gone" /\ (row.parent = None \/ row.parent \in Existing)

Init ==
    /\ ads = [a \in Ads |-> "published"]
    /\ reviews = [i \in Ids |-> NoReview]
    /\ minted = 0
    /\ req = [w \in Workers |-> Idle]
    /\ serial = TRUE

(***************************************************************************)
(* ReviewForm on the site and ReviewSerializer in the API write a record   *)
(* under an advertisement the user may see, and so every record under it.  *)
(***************************************************************************)
CreateCheck(w) ==
    /\ req[w].pc = "idle"
    /\ minted + Cardinality(Inserting) < MaxReviews
    /\ \E u \in Users, k \in Kinds : \E a \in VisibleTo(u) : \E p \in ParentsFor(u, a) \cup {None} :
           /\ Valid(None, Review(a, u, k, p))
           /\ Become(w, [Idle EXCEPT !.pc = "insert", !.data = Review(a, u, k, p)])
    /\ serial' = (serial /\ Alone(w))
    /\ UNCHANGED <<ads, reviews, minted>>

Insert(w) ==
    /\ req[w].pc = "insert"
    /\ IF RefsExist(req[w].data)
       THEN /\ reviews' = [reviews EXCEPT ![minted + 1] = req[w].data]
            /\ minted' = minted + 1
       ELSE UNCHANGED <<reviews, minted>>
    /\ Become(w, Idle)
    /\ UNCHANGED <<ads, serial>>

(***************************************************************************)
(* PATCH: the values not sent are taken from the row as it was read; those *)
(* sent are written with update_fields.  The reply is read anew.           *)
(***************************************************************************)
UrlOnly(a) == [NoReview EXCEPT !.ad = a]

\* IsOwnerOrAdmin.
MayChange(u, i) == u \in Staff \/ reviews[i].author = u

EditCheck(w) ==
    /\ req[w].pc = "idle"
    /\ \E u \in Users, sent \in SUBSET Sendable : \E i \in {j \in AccessibleTo(u) : MayChange(u, j)} :
       \E k \in IF "kind" \in sent THEN Kinds ELSE {reviews[i].kind},
          p \in IF "parent" \in sent THEN ParentsFor(u, reviews[i].ad) \cup {None} ELSE {reviews[i].parent} :
           LET data == [ UrlOnly(reviews[i].ad) EXCEPT !.kind = IF "kind" \in sent THEN k ELSE @,
                                                       !.parent = IF "parent" \in sent THEN p ELSE @ ]
           IN  /\ Valid(i, [reviews[i] EXCEPT !.kind = k, !.parent = p])
               /\ Become(w, [pc |-> "update", user |-> u, id |-> i, data |-> data, fields |-> sent])
    /\ serial' = (serial /\ Alone(w))
    /\ UNCHANGED <<ads, reviews, minted>>

Merged(old, r) ==
    [old EXCEPT !.kind = IF "kind" \in r.fields THEN r.data.kind ELSE @,
                !.parent = IF "parent" \in r.fields THEN r.data.parent ELSE @]

\* What the UPDATE leaves of the row; it finds no row if it was deleted.
Written(r) ==
    LET old == reviews[r.id]
    IN  IF old.exists THEN Merged(old, r) ELSE NoReview

\* No row, or no parent any more: the request ends with 404 or 500.
Update(w) ==
    LET r == req[w]
        row == Written(r)
    IN  /\ r.pc = "update"
        /\ IF row.exists /\ RefsExist(row)
           THEN /\ reviews' = [reviews EXCEPT ![r.id] = row]
                /\ Become(w, [r EXCEPT !.pc = "reload", !.data = UrlOnly(@.ad), !.fields = {}])
           ELSE UNCHANGED reviews /\ Become(w, Idle)
        /\ UNCHANGED <<ads, minted, serial>>

\* Mutant of Reply: the answers come with the record, as DRF reads them by itself.
ReplyWithAnswers(r) ==
    IF r.id \in AccessibleTo(r.user) /\ reviews[r.id].ad = r.data.ad THEN {r.id} \cup Answers(r.id) ELSE {}

\* get_queryset: a record of the advertisement in the URL, with the answers its user
\* may see as well.  Empty: 404.
Reply(r) ==
    IF r.id \in AccessibleTo(r.user) /\ reviews[r.id].ad = r.data.ad
    THEN {r.id} \cup (Answers(r.id) \cap AccessibleTo(r.user))
    ELSE {}

Reload(w) ==
    /\ req[w].pc = "reload"
    /\ Become(w, Idle)
    /\ UNCHANGED <<ads, reviews, minted, serial>>

(***************************************************************************)
(* The admin page validates every field and saves the whole row, which     *)
(* Django inserts again if the UPDATE finds none.                          *)
(***************************************************************************)
AdminCheck(w) ==
    /\ req[w].pc = "idle"
    /\ Cardinality({v \in Workers : req[v].pc = "save"}) < MaxForms
    /\ \E i \in Existing, a \in Ads, k \in Kinds, p \in Existing \cup {None} : \E u \in Heirs \cup {reviews[i].author} :
           /\ ads[a] # "gone"
           /\ Valid(i, Review(a, u, k, p))
           /\ Become(w, [Idle EXCEPT !.pc = "save", !.id = i, !.data = Review(a, u, k, p)])
    /\ serial' = (serial /\ Alone(w))
    /\ UNCHANGED <<ads, reviews, minted>>

AdminSave(w) ==
    /\ req[w].pc = "save"
    /\ reviews' = IF RefsExist(req[w].data)
                  THEN [reviews EXCEPT ![req[w].id] = req[w].data]
                  ELSE reviews
    /\ Become(w, Idle)
    /\ UNCHANGED <<ads, minted, serial>>

\* Mutant of Thread: the answers are not deleted with what they answer.
ThreadAlone(set) == set

\* Records go with their answers and, after a race, with theirs: the least set
\* that holds them and the answers of all it holds.
Thread(set) ==
    {j \in Existing : \A ids \in SUBSET Existing :
        set \subseteq ids /\ (\A k \in ids : Answers(k) \subseteq ids) => j \in ids}

Vanish(set) ==
    /\ reviews' = [j \in Ids |-> IF j \in Thread(set) THEN NoReview ELSE reviews[j]]
    /\ serial' = (serial /\ \A w \in Workers : req[w].pc = "idle")
    /\ UNCHANGED <<minted, req>>

\* Its author may, whatever has become of the advertisement, and an administrator.
Delete(i) ==
    /\ i \in Existing
    /\ Vanish({i})
    /\ UNCHANGED ads

(***************************************************************************)
(* The advertisement: update_ad changes its state, a deletion cascades.    *)
(***************************************************************************)
ChangeStatus(a) ==
    /\ ads[a] # "gone"
    /\ ads' = [ads EXCEPT ![a] = IF @ = "hidden" THEN "published" ELSE "hidden"]
    /\ Vanish({})

DeleteAd(a) ==
    /\ ads[a] # "gone"
    /\ ads' = [ads EXCEPT ![a] = "gone"]
    /\ Vanish({i \in Existing : reviews[i].ad = a})

\* A request that ends before its write: refused elsewhere, or killed.
Drop(w) ==
    /\ req[w].pc # "idle"
    /\ Become(w, Idle)
    /\ UNCHANGED <<ads, reviews, minted, serial>>

Next ==
    \/ \E w \in Workers :
           \/ CreateCheck(w) \/ Insert(w) \/ EditCheck(w) \/ Update(w) \/ Reload(w)
           \/ AdminCheck(w) \/ AdminSave(w) \/ Drop(w)
    \/ \E i \in Ids : Delete(i)
    \/ \E a \in Changing : ChangeStatus(a) \/ DeleteAd(a)

Spec == Init /\ [][Next]_vars

----------------------------------------------------------------------------
(* Properties.                                                             *)

ReviewRow == [exists : BOOLEAN, ad : Ads, author : Users, kind : Kinds, parent : Ids \cup {None}]
Served == [ pc : {"idle", "insert", "update", "reload", "save"}, user : Users, id : Ids \cup {None},
            data : ReviewRow, fields : SUBSET Sendable ]

\* A request that writes to a record knows which; what the forms save is a record.
Phases ==
    \A w \in Workers :
        /\ req[w].id \in 0..minted
        /\ req[w].pc \in {"update", "reload", "save"} => req[w].id # None
        /\ req[w].pc \in {"insert", "save"} => req[w].data.exists

\* The variables keep their types, ids are given in turn, and no record outlives what
\* it answers or the advertisement it is about.
TypeOK ==
    /\ ads \in [Ads -> {"published", "hidden", "gone"}]
    /\ reviews \in [Ids -> ReviewRow]
    /\ minted \in 0..MaxReviews /\ minted + Cardinality(Inserting) <= MaxReviews
    /\ req \in [Workers -> Served]
    /\ serial \in BOOLEAN
    /\ Existing \subseteq 1..minted
    /\ \A i \in Existing : RefsExist(reviews[i])
    /\ Phases

\* What ads/discussions.py says of the records: only a question is answered, and
\* neither becomes a review nor an answer once it is.
QuestionsKeepTheirAnswers ==
    \A i \in Existing : Answers(i) # {} =>
        reviews[i].kind = "question" /\ reviews[i].parent = None

\* One request after another, by every path, the rules of validate_discussion are
\* enough: no sequence of them breaks the shape of a discussion.
RulesSufficeSerially == serial => QuestionsKeepTheirAnswers

\* What validate_discussion said when the request was checked.
Checked(r) ==
    /\ r.pc = "insert" => Valid(None, r.data)
    /\ r.pc = "update" => r.id \in Existing /\ Valid(r.id, Merged(reviews[r.id], r))
    /\ r.pc = "save" => Valid(r.id, r.data)

\* Why they are: what was checked is still true when it is written.
Inductive ==
    /\ TypeOK
    /\ serial => /\ QuestionsKeepTheirAnswers
                 /\ \A v, w \in Workers : v = w \/ req[v].pc = "idle" \/ req[w].pc = "idle"
                 /\ \A w \in Workers : Checked(req[w])

\* An edit through the API leaves every field it was not sent as it stands, also
\* when another request has changed it since it was read; one that loses the race
\* against a deletion answers 404 and brings nothing back.
WritesOnlyWhatWasSent(w) ==
    req[w].pc = "update" /\ req'[w].pc # "update" =>
        LET old == reviews[req[w].id]
            new == reviews'[req[w].id]
        IN  /\ new.exists = old.exists /\ new.ad = old.ad /\ new.author = old.author
            /\ new.kind # old.kind => "kind" \in req[w].fields
            /\ new.parent # old.parent => "parent" \in req[w].fields

\* Its reply holds no record of an advertisement that is hidden from the user, except
\* the user's own, and so no foreign answer to a question of the user's.
RepliesHideForeignRecords(w) ==
    req[w].pc = "reload" =>
        \A i \in Reply(req[w]) : reviews[i].author = req[w].user \/ reviews[i].ad \in VisibleTo(req[w].user)

\* Whatever others change, move, hide and delete between the three steps of an edit,
\* it writes no more than it was sent and shows no more than its user may see.
EditsKeepWithinBounds ==
    [][\A w \in Workers : WritesOnlyWhatWasSent(w) /\ RepliesHideForeignRecords(w)]_vars
=============================================================================
