----------------------------- MODULE Catalogue -----------------------------
(***************************************************************************)
(* The lists of the site and of the API, page by page (ads/views.py,       *)
(* filters.py, paginators.py, web/views/ads.py, web/views/accounts.py).    *)
(* A page is a request of its own, and two queries outside a transaction:  *)
(* the count of the list, and then the rows of the page.  A reader who     *)
(* turns pages sees the list of several moments.                           *)
(*                                                                         *)
(* An entry is an advertisement; on the list of discussions it stands for  *)
(* the question asked under that advertisement.                            *)
(***************************************************************************)
EXTENDS Integers, Sequences, FiniteSets

CONSTANTS
    Entries,        \* ids, in the order of the primary key
    CreatedAt,      \* id -> its date; several may share one
    Own,            \* the entries whose author is the reader
    PageSize,
    MaxChanges      \* bound: how often others change the rows

ASSUME CatalogueAssumption ==
    /\ Entries \subseteq Nat /\ IsFiniteSet(Entries)
    /\ CreatedAt \in [Entries -> Nat]
    /\ Own \subseteq Entries
    /\ PageSize \in Nat \ {0}
    /\ MaxChanges \in Nat

VARIABLES
    entry,      \* id -> what the row holds
    reader,     \* who reads which list, and what has been shown so far
    changes     \* how often others have changed a row

catalogueVars == <<entry, reader, changes>>

----------------------------------------------------------------------------
Absent == [status |-> "absent", price |-> 0, submitted |-> 0]

\* An order is a sequence of columns, each ascending or descending.
Asc(column)  == [by |-> column, up |-> TRUE]
Desc(column) == [by |-> column, up |-> FALSE]

Newest == <<Desc("created_at"), Desc("id")>>

\* page: the page asked for next; count: the length of the list as its request has
\* counted it.  History: seen; kept, on the list ever since the reader opened it;
\* entered and left, whether entries have come to it or gone from it; late, how many
\* have come between the count and the rows of the last page; twice, something was
\* shown again.
NoReader ==
    [ pc |-> "idle", role |-> "guest", list |-> "catalogue", order |-> Newest, least |-> 0,
      page |-> 1, count |-> 0, seen |-> {}, kept |-> {},
      entered |-> FALSE, left |-> FALSE, late |-> 0, twice |-> FALSE ]

\* visible_to.
VisibleTo(role, e) ==
    {i \in Entries : /\ e[i].status # "absent"
                     /\ \/ e[i].status = "published"
                        \/ role = "admin"
                        \/ role = "user" /\ i \in Own}

\* get_queryset of each list; least is price_min.
ApiList(role, least, e) == {i \in VisibleTo(role, e) : e[i].price >= least}
CatalogueList(role, e)  == {i \in VisibleTo(role, e) : e[i].status = "published"}
AccountList(role, e)    == VisibleTo(role, e) \cap Own
ReviewQueue(role, e)    == {i \in VisibleTo(role, e) : e[i].status = "draft"}
DiscussionList(role, e) == VisibleTo(role, e)

Listed(r, e) ==
    CASE r.list = "api" -> ApiList(r.role, r.least, e)
      [] r.list = "catalogue" -> CatalogueList(r.role, e)
      [] r.list = "account" -> AccountList(r.role, e)
      [] r.list = "queue" -> ReviewQueue(r.role, e)
      [] r.list = "discussions" -> DiscussionList(r.role, e)

\* Mutant of Stable: the order asked for is taken as it is.
AsAsked(order) == order

\* StableOrderingFilter: the primary key decides between equals, in the direction
\* of the first column.
Stable(order) ==
    IF \E k \in DOMAIN order : order[k].by = "id" THEN order
    ELSE Append(order, [by |-> "id", up |-> order[1].up])

OrderOf(list, asked) ==
    CASE list = "api" -> Stable(asked)
      [] list = "queue" -> <<Desc("submitted"), Desc("created_at"), Desc("id")>>
      [] OTHER -> Newest

Value(column, i, e) ==
    CASE column = "id" -> i
      [] column = "created_at" -> CreatedAt[i]
      [] column = "price" -> e[i].price
      [] column = "submitted" -> e[i].submitted    \* NULL is 0, and comes last

Before(i, j, order, e) ==
    \E k \in DOMAIN order :
        /\ LET x == Value(order[k].by, i, e)
               y == Value(order[k].by, j, e)
           IN  IF order[k].up THEN x < y ELSE x > y
        /\ \A h \in 1..(k - 1) : Value(order[h].by, i, e) = Value(order[h].by, j, e)

\* What ORDER BY may answer: equals come in any order, another one in each request.
Answers(set, order, e) ==
    {s \in [1..Cardinality(set) -> set] :
        \A p, q \in DOMAIN s : p < q => s[p] # s[q] /\ ~ Before(s[q], s[p], order, e)}

CatalogueInit ==
    /\ entry \in [Entries -> {Absent} \cup
                    [status : {"published"}, price : {0, 1}, submitted : {0}] \cup
                    [status : {"draft", "archived"}, price : {0, 1}, submitted : {1}]]
    /\ reader = NoReader
    /\ changes = 0

(***************************************************************************)
(* The reader.                                                             *)
(***************************************************************************)
Open ==
    /\ reader.pc = "idle"
    /\ \E role \in {"guest", "user", "admin"}, list \in {"api", "catalogue", "account", "queue", "discussions"},
          asked \in {<<Desc("created_at")>>, <<Asc("price")>>, <<Desc("price")>>}, least \in {0, 1} :
           /\ list \in {"account", "discussions"} => role # "guest"
           /\ list = "queue" => role = "admin"
           /\ list # "api" => least = 0 /\ asked = <<Desc("created_at")>>
           /\ LET r == [NoReader EXCEPT !.pc = "reading", !.role = role, !.list = list, !.least = least,
                                        !.order = OrderOf(list, asked)]
              IN  reader' = [r EXCEPT !.kept = Listed(r, entry)]
    /\ UNCHANGED <<entry, changes>>

\* Paginator: a page after the last one is a 404.
Count ==
    /\ reader.pc = "reading"
    /\ LET n == Cardinality(Listed(reader, entry))
       IN  reader' = IF reader.page > 1 /\ n <= (reader.page - 1) * PageSize
                     THEN [reader EXCEPT !.pc = "done"]
                     ELSE [reader EXCEPT !.pc = "counted", !.count = n]
    /\ UNCHANGED <<entry, changes>>

\* The page is the last one by the count, and then its rows end where the count did.
Last == reader.count <= reader.page * PageSize
Top == IF Last THEN reader.count ELSE reader.page * PageSize

\* LIMIT and OFFSET.
Show ==
    /\ reader.pc = "counted"
    /\ \E s \in Answers(Listed(reader, entry), reader.order, entry) :
           LET shown == {s[i] : i \in DOMAIN s \cap ((reader.page - 1) * PageSize + 1)..Top}
           IN  reader' = [reader EXCEPT !.pc = IF Last THEN "done" ELSE "reading",
                                        !.page = @ + 1,
                                        !.count = 0,
                                        !.seen = @ \cup shown,
                                        !.twice = @ \/ shown \cap reader.seen # {}]
    /\ UNCHANGED <<entry, changes>>

Close ==
    /\ reader.pc = "done"
    /\ reader' = NoReader
    /\ UNCHANGED <<entry, changes>>

(***************************************************************************)
(* Everybody else.  A column that orders the list moves an entry when it   *)
(* changes: it has left its place and entered another.                     *)
(***************************************************************************)
Become(i, row) ==
    LET e == [entry EXCEPT ![i] = row]
        old == Listed(reader, entry)
        new == Listed(reader, e)
        moved == /\ i \in old \cap new
                 /\ \E k \in DOMAIN reader.order :
                        Value(reader.order[k].by, i, e) # Value(reader.order[k].by, i, entry)
    IN  /\ changes < MaxChanges
        /\ changes' = changes + 1
        /\ entry' = e
        /\ reader' = IF reader.pc = "idle" THEN reader
                     ELSE [reader EXCEPT !.kept = @ \cap new,
                                         !.entered = @ \/ moved \/ i \in new \ old,
                                         !.late = IF reader.pc = "counted" /\ Last /\ i \in new \ old
                                                  THEN @ + 1 ELSE @,
                                         !.left = @ \/ moved \/ i \in old \ new]

\* A new advertisement: published through the API, to be reviewed through the site.
Add(i) ==
    /\ entry[i].status = "absent"
    /\ \E status \in {"published", "draft"}, price \in {0, 1} :
           Become(i, [status |-> status, price |-> price, submitted |-> IF status = "draft" THEN 1 ELSE 0])

Present(i) == entry[i].status # "absent"

Publish(i) == entry[i].status \in {"draft", "archived"} /\ Become(i, [entry[i] EXCEPT !.status = "published"])
Archive(i) == entry[i].status = "published" /\ Become(i, [entry[i] EXCEPT !.status = "archived"])
Submit(i) == Present(i) /\ Become(i, [entry[i] EXCEPT !.status = "draft", !.submitted = 1])
Reprice(i) == Present(i) /\ Become(i, [entry[i] EXCEPT !.price = 1 - @])
Destroy(i) == Present(i) /\ Become(i, Absent)

CatalogueNext ==
    \/ Open \/ Count \/ Show \/ Close
    \/ \E i \in Entries : Add(i) \/ Publish(i) \/ Archive(i) \/ Submit(i) \/ Reprice(i) \/ Destroy(i)

CatalogueSpec == CatalogueInit /\ [][CatalogueNext]_catalogueVars

----------------------------------------------------------------------------
(* Properties.                                                             *)

Listing == [status : {"absent", "published", "draft", "archived"}, price : {0, 1}, submitted : {0, 1}]
Orders == {Newest, <<Desc("submitted"), Desc("created_at"), Desc("id")>>,
           <<Asc("price"), Asc("id")>>, <<Desc("price"), Desc("id")>>}
Reader == [ pc : {"idle", "reading", "counted", "done"}, role : {"guest", "user", "admin"},
            list : {"api", "catalogue", "account", "queue", "discussions"}, order : Orders, least : {0, 1},
            page : Nat \ {0}, count : Nat, seen : SUBSET Entries, kept : SUBSET Entries,
            entered : BOOLEAN, left : BOOLEAN, late : Nat, twice : BOOLEAN ]

\* The variables keep their types, and a list is only read in an order that ends in
\* the primary key.
CatalogueTypeOK ==
    /\ entry \in [Entries -> Listing]
    /\ reader \in Reader
    /\ changes \in 0..MaxChanges

\* Turning the pages of any list to the last one shows every entry that has been on
\* the list all the time, unless one has left it meanwhile, and shows none twice,
\* unless one has entered it: entries of the same date or price keep their order
\* from one request to the next.  Of those that stay it misses at most as many as have
\* come between the count of the last page and its rows: they push others off a page
\* that has no next one.
PagesMissNothing ==
    reader.pc = "done" =>
        /\ reader.left \/ Cardinality(reader.kept \ reader.seen) <= reader.late
        /\ reader.entered \/ ~ reader.twice

----------------------------------------------------------------------------
(* Why it holds.                                                           *)

Ahead(i) == {j \in Listed(reader, entry) : Before(j, i, reader.order, entry)}
Turned == (reader.page - 1) * PageSize

\* While none leaves the list, entries only fall back in it: who is now among the
\* first pages was there when they were shown.
MissesNone ==
    reader.pc \in {"reading", "counted"} /\ ~ reader.left =>
        \A i \in reader.kept : Cardinality(Ahead(i)) < Turned => i \in reader.seen

\* While none enters it, entries only move up: what was shown stays on those pages.
RepeatsNone ==
    reader.pc # "idle" /\ ~ reader.entered =>
        /\ ~ reader.twice
        /\ \A i \in reader.seen \cap Listed(reader, entry) : Cardinality(Ahead(i)) < Turned

\* Only those who have come late are beyond the count of the last page.
CountHolds ==
    reader.pc = "counted" /\ Last => Cardinality(Listed(reader, entry)) <= reader.count + reader.late

KeptAreListed == reader.pc # "idle" => reader.kept \subseteq Listed(reader, entry)

CatalogueInductive ==
    CatalogueTypeOK /\ KeptAreListed /\ CountHolds /\ MissesNone /\ RepeatsNone /\ PagesMissNothing
=============================================================================
