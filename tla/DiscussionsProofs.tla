------------------------- MODULE DiscussionsProofs -------------------------
(***************************************************************************)
(* Proofs about Discussions.  A request is checked in one statement and    *)
(* writes in another, so the proofs are about what is left of the check by *)
(* then: that the rows are there and what they refer to is (TypeOK), and,  *)
(* where requests do not overlap, all of it (Inductive).                   *)
(***************************************************************************)
EXTENDS Discussions, FiniteSetTheorems, TLAPS

(***************************************************************************)
(* Values.                                                                 *)
(***************************************************************************)
LEMMA ReviewFields ==
  ASSUME NEW a, NEW u, NEW k, NEW p
  PROVE  /\ Review(a, u, k, p).exists = TRUE /\ Review(a, u, k, p).ad = a
         /\ Review(a, u, k, p).author = u
         /\ Review(a, u, k, p).kind = k /\ Review(a, u, k, p).parent = p
         /\ a \in Ads /\ u \in Users /\ k \in Kinds /\ p \in Ids \cup {None}
            => Review(a, u, k, p) \in ReviewRow
  BY DEF Review, ReviewRow

LEMMA Values ==
  /\ MaxReviews \in Nat /\ MaxForms \in Nat /\ IsFiniteSet(Workers)
  /\ None = 0 /\ None \notin Ids /\ Ids \subseteq Nat
  /\ SomeAd \in Ads /\ SomeUser \in Users
  /\ NoReview \in ReviewRow /\ ~ NoReview.exists
  /\ \A a \in Ads : UrlOnly(a) \in ReviewRow
<1>1. MaxReviews \in Nat /\ MaxForms \in Nat /\ IsFiniteSet(Workers) /\ Ads # {} /\ Users # {}
  BY DiscussionsAssumption DEF DiscussionsAssumption
<1>2. None = 0 /\ None \notin Ids /\ Ids \subseteq Nat
  BY <1>1 DEF None, Ids
<1>3. SomeAd \in Ads /\ SomeUser \in Users
  BY <1>1 DEF SomeAd, SomeUser
<1>4. NoReview \in ReviewRow /\ ~ NoReview.exists
  BY <1>3 DEF NoReview, Review, ReviewRow, Kinds, None
<1>5. \A a \in Ads : UrlOnly(a) \in ReviewRow
  BY <1>4 DEF UrlOnly, ReviewRow
<1> QED BY <1>1, <1>2, <1>3, <1>4, <1>5

LEMMA IdleFields ==
  Idle \in Served /\ Idle.pc = "idle" /\ Idle.id = None
<1>1. SomeUser \in Users /\ NoReview \in ReviewRow
  BY Values
<1> QED BY <1>1 DEF Idle, Served

LEMMA ServedFields ==
  ASSUME NEW r \in Served
  PROVE  /\ r.pc \in {"idle", "insert", "update", "reload", "save"} /\ r.user \in Users
         /\ r.id \in Ids \cup {None} /\ r.data \in ReviewRow /\ r.fields \subseteq Sendable
  BY DEF Served

LEMMA RowFields ==
  ASSUME NEW row \in ReviewRow
  PROVE  /\ row.exists \in BOOLEAN /\ row.ad \in Ads /\ row.author \in Users
         /\ row.kind \in Kinds /\ row.parent \in Ids \cup {None}
  BY DEF ReviewRow

LEMMA MergedFields ==
  ASSUME NEW old \in ReviewRow, NEW r \in Served
  PROVE  /\ Merged(old, r) \in ReviewRow
         /\ Merged(old, r).exists = old.exists /\ Merged(old, r).ad = old.ad
         /\ Merged(old, r).author = old.author
         /\ Merged(old, r).kind = IF "kind" \in r.fields THEN r.data.kind ELSE old.kind
         /\ Merged(old, r).parent = IF "parent" \in r.fields THEN r.data.parent ELSE old.parent
<1>1. r.data.kind \in Kinds /\ r.data.parent \in Ids \cup {None}
  BY ServedFields, RowFields
<1> DEFINE k == IF "kind" \in r.fields THEN r.data.kind ELSE old.kind
           p == IF "parent" \in r.fields THEN r.data.parent ELSE old.parent
<1>2. Merged(old, r) = [old EXCEPT !.kind = k, !.parent = p]
  BY DEF Merged
<1>3. k \in Kinds /\ p \in Ids \cup {None}
  BY <1>1, RowFields
<1>4. k = IF "kind" \in r.fields THEN r.data.kind ELSE old.kind
  OBVIOUS
<1>5. p = IF "parent" \in r.fields THEN r.data.parent ELSE old.parent
  OBVIOUS
<1> HIDE DEF k, p
<1>6. /\ Merged(old, r) \in ReviewRow
      /\ Merged(old, r).exists = old.exists /\ Merged(old, r).ad = old.ad
      /\ Merged(old, r).author = old.author
      /\ Merged(old, r).kind = k /\ Merged(old, r).parent = p
  BY <1>2, <1>3 DEF ReviewRow
<1> QED BY <1>4, <1>5, <1>6

(***************************************************************************)
(* A request goes on: the other requests stay, and at most one more is     *)
(* going to insert a record.                                               *)
(***************************************************************************)
LEMMA Inserters ==
  ASSUME TypeOK
  PROVE  IsFiniteSet(Inserting) /\ Cardinality(Inserting) \in Nat
<1>1. Inserting \subseteq Workers
  BY DEF Inserting
<1>2. IsFiniteSet(Inserting)
  BY <1>1, Values, FS_Subset
<1> QED BY <1>2, FS_CardinalityType

LEMMA Goes ==
  ASSUME TypeOK, NEW w \in Workers, NEW r \in Served, Become(w, r)
  PROVE  /\ req' \in [Workers -> Served] /\ req'[w] = r
         /\ \A v \in Workers \ {w} : req'[v] = req[v]
         /\ Cardinality(Inserting') \in Nat
         /\ Cardinality(Inserting') <= Cardinality(Inserting) + 1
         /\ r.pc # "insert" => Cardinality(Inserting') <= Cardinality(Inserting)
         /\ r.pc # "insert" /\ req[w].pc = "insert" => Cardinality(Inserting') + 1 = Cardinality(Inserting)
<1>1. req \in [Workers -> Served]
  BY DEF TypeOK
<1>2. /\ req' \in [Workers -> Served] /\ req'[w] = r
      /\ \A v \in Workers \ {w} : req'[v] = req[v]
  BY <1>1 DEF Become
<1>3. IsFiniteSet(Inserting) /\ Cardinality(Inserting) \in Nat
  BY Inserters
<1>4. CASE r.pc = "insert"
  <2>1. Inserting' = Inserting \cup {w}
    BY <1>2, <1>4 DEF Inserting
  <2>2. Cardinality(Inserting \cup {w}) = IF w \in Inserting THEN Cardinality(Inserting) ELSE Cardinality(Inserting) + 1
    BY <1>3, FS_AddElement
  <2> QED BY <1>2, <1>3, <1>4, <2>1, <2>2
<1>5. CASE r.pc # "insert"
  <2>1. Inserting' = Inserting \ {w}
    BY <1>2, <1>5 DEF Inserting
  <2>2. Cardinality(Inserting \ {w}) = IF w \in Inserting THEN Cardinality(Inserting) - 1 ELSE Cardinality(Inserting)
    BY <1>3, FS_RemoveElement
  <2>3. IsFiniteSet(Inserting \ {w})
    BY <1>3, FS_RemoveElement
  <2>4. Cardinality(Inserting \ {w}) \in Nat
    BY <2>3, FS_CardinalityType
  <2>5. w \in Inserting <=> req[w].pc = "insert"
    BY DEF Inserting
  <2> QED BY <1>2, <1>3, <1>5, <2>1, <2>2, <2>4, <2>5
<1> QED BY <1>4, <1>5

(***************************************************************************)
(* What each step does.                                                    *)
(***************************************************************************)
\* A request is checked: nothing is written, and if no other request is under way it
\* is the only one.
Checks(w, r) ==
    /\ req[w].pc = "idle" /\ r \in Served /\ Become(w, r) /\ Checked(r)
    /\ r.id \in 0..minted
    /\ r.pc \in {"update", "reload", "save"} => r.id # None
    /\ r.pc \in {"insert", "save"} => r.data.exists
    /\ serial' = (serial /\ Alone(w)) /\ UNCHANGED <<ads, reviews, minted>>

\* It ends, or goes on to its reply.
Ends(w) ==
    \E r \in Served :
        /\ Become(w, r) /\ r.pc \in {"idle", "reload"} /\ r.id \in 0..minted
        /\ r.pc = "reload" => r.id # None

LEMMA CreateCheckEffect ==
  ASSUME TypeOK, NEW w \in Workers, CreateCheck(w)
  PROVE  \E r \in Served : Checks(w, r) /\ r.pc = "insert" /\ minted + Cardinality(Inserting) < MaxReviews
<1>1. PICK u \in Users, k \in Kinds : \E a \in VisibleTo(u) : \E p \in ParentsFor(u, a) \cup {None} :
           /\ Valid(None, Review(a, u, k, p))
           /\ Become(w, [Idle EXCEPT !.pc = "insert", !.data = Review(a, u, k, p)])
  BY DEF CreateCheck
<1>2. PICK a \in VisibleTo(u) : \E p \in ParentsFor(u, a) \cup {None} :
           /\ Valid(None, Review(a, u, k, p))
           /\ Become(w, [Idle EXCEPT !.pc = "insert", !.data = Review(a, u, k, p)])
  BY <1>1
<1>3. PICK p \in ParentsFor(u, a) \cup {None} :
           /\ Valid(None, Review(a, u, k, p))
           /\ Become(w, [Idle EXCEPT !.pc = "insert", !.data = Review(a, u, k, p)])
  BY <1>2
<1>4. a \in Ads /\ p \in Ids \cup {None}
  BY <1>3 DEF VisibleTo, ParentsFor, AccessibleTo, Existing
<1> DEFINE row == Review(a, u, k, p)
           r == [Idle EXCEPT !.pc = "insert", !.data = row]
<1>5. row \in ReviewRow /\ row.exists
  BY <1>4, ReviewFields
<1>6. Valid(None, row) /\ Become(w, r)
  BY <1>3
<1> HIDE DEF row
<1>7. r \in Served /\ r.pc = "insert" /\ r.data = row /\ r.id = None
  BY <1>5, IdleFields DEF Served
<1> HIDE DEF r
<1>8. req[w].pc = "idle" /\ serial' = (serial /\ Alone(w)) /\ UNCHANGED <<ads, reviews, minted>>
  BY DEF CreateCheck
<1>9. minted + Cardinality(Inserting) < MaxReviews
  BY DEF CreateCheck
<1>10. None \in 0..minted
  BY Values DEF TypeOK
<1>11. Checked(r)
  BY <1>6, <1>7 DEF Checked
<1>12. Checks(w, r)
  BY <1>5, <1>6, <1>7, <1>8, <1>10, <1>11 DEF Checks
<1> QED BY <1>7, <1>9, <1>12

LEMMA ExistingIds ==
  ASSUME TypeOK, NEW i \in Existing
  PROVE  /\ i \in Ids /\ i \in 1..minted /\ i \in 0..minted /\ i # None
         /\ reviews[i] \in ReviewRow /\ reviews[i].exists
<1>1. i \in Ids /\ i \in 1..minted /\ reviews[i] \in ReviewRow /\ reviews[i].exists
  BY DEF TypeOK, Existing
<1> QED BY <1>1, Values DEF TypeOK

LEMMA EditCheckEffect ==
  ASSUME TypeOK, NEW w \in Workers, EditCheck(w)
  PROVE  \E r \in Served : Checks(w, r) /\ r.pc = "update"
<1>1. PICK u \in Users, sent \in SUBSET Sendable : \E i \in {j \in AccessibleTo(u) : MayChange(u, j)} :
       \E k \in IF "kind" \in sent THEN Kinds ELSE {reviews[i].kind},
          p \in IF "parent" \in sent THEN ParentsFor(u, reviews[i].ad) \cup {None} ELSE {reviews[i].parent} :
           LET data == [ UrlOnly(reviews[i].ad) EXCEPT !.kind = IF "kind" \in sent THEN k ELSE @,
                                                       !.parent = IF "parent" \in sent THEN p ELSE @ ]
           IN  /\ Valid(i, [reviews[i] EXCEPT !.kind = k, !.parent = p])
               /\ Become(w, [pc |-> "update", user |-> u, id |-> i, data |-> data, fields |-> sent])
  BY DEF EditCheck
<1>2. PICK i \in AccessibleTo(u) :
       \E k \in IF "kind" \in sent THEN Kinds ELSE {reviews[i].kind},
          p \in IF "parent" \in sent THEN ParentsFor(u, reviews[i].ad) \cup {None} ELSE {reviews[i].parent} :
           LET data == [ UrlOnly(reviews[i].ad) EXCEPT !.kind = IF "kind" \in sent THEN k ELSE @,
                                                       !.parent = IF "parent" \in sent THEN p ELSE @ ]
           IN  /\ Valid(i, [reviews[i] EXCEPT !.kind = k, !.parent = p])
               /\ Become(w, [pc |-> "update", user |-> u, id |-> i, data |-> data, fields |-> sent])
  BY <1>1
<1>3. i \in Existing /\ i \in Ids /\ i # None /\ i \in 0..minted /\ reviews[i] \in ReviewRow
  BY <1>2, ExistingIds DEF AccessibleTo
<1>4. reviews[i].kind \in Kinds /\ reviews[i].parent \in Ids \cup {None} /\ reviews[i].ad \in Ads
  BY <1>3, RowFields
<1>5. PICK k \in IF "kind" \in sent THEN Kinds ELSE {reviews[i].kind},
           p \in IF "parent" \in sent THEN ParentsFor(u, reviews[i].ad) \cup {None} ELSE {reviews[i].parent} :
           LET data == [ UrlOnly(reviews[i].ad) EXCEPT !.kind = IF "kind" \in sent THEN k ELSE @,
                                                       !.parent = IF "parent" \in sent THEN p ELSE @ ]
           IN  /\ Valid(i, [reviews[i] EXCEPT !.kind = k, !.parent = p])
               /\ Become(w, [pc |-> "update", user |-> u, id |-> i, data |-> data, fields |-> sent])
  BY <1>2
<1>6. ParentsFor(u, reviews[i].ad) \subseteq Ids
  BY DEF ParentsFor, AccessibleTo, Existing
<1>7. k \in Kinds /\ p \in Ids \cup {None}
  BY <1>4, <1>5, <1>6
<1>8. ("kind" \notin sent => k = reviews[i].kind) /\ ("parent" \notin sent => p = reviews[i].parent)
  BY <1>5
<1> DEFINE url == UrlOnly(reviews[i].ad)
           data == [url EXCEPT !.kind = IF "kind" \in sent THEN k ELSE @,
                               !.parent = IF "parent" \in sent THEN p ELSE @]
           r == [pc |-> "update", user |-> u, id |-> i, data |-> data, fields |-> sent]
           row == [reviews[i] EXCEPT !.kind = k, !.parent = p]
<1>9. Valid(i, row) /\ Become(w, r)
  BY <1>5
<1>10. url \in ReviewRow
  BY <1>4, Values
<1> HIDE DEF url
<1>11. /\ data \in ReviewRow
       /\ "kind" \in sent => data.kind = k
       /\ "parent" \in sent => data.parent = p
  BY <1>7, <1>10 DEF ReviewRow
<1> HIDE DEF data
<1>12. r \in Served /\ r.pc = "update" /\ r.id = i /\ r.fields = sent /\ r.data = data
  BY <1>3, <1>11 DEF Served
<1> HIDE DEF r
<1>13. Merged(reviews[i], r) = row
  <2>1. (IF "kind" \in r.fields THEN r.data.kind ELSE reviews[i].kind) = k
    BY <1>8, <1>11, <1>12
  <2>2. (IF "parent" \in r.fields THEN r.data.parent ELSE reviews[i].parent) = p
    BY <1>8, <1>11, <1>12
  <2> QED BY <2>1, <2>2 DEF Merged
<1>14. Checked(r)
  BY <1>3, <1>9, <1>12, <1>13 DEF Checked
<1>15. req[w].pc = "idle" /\ serial' = (serial /\ Alone(w)) /\ UNCHANGED <<ads, reviews, minted>>
  BY DEF EditCheck
<1>16. Checks(w, r)
  BY <1>3, <1>9, <1>12, <1>14, <1>15 DEF Checks
<1> QED BY <1>12, <1>16

LEMMA AdminCheckEffect ==
  ASSUME TypeOK, NEW w \in Workers, AdminCheck(w)
  PROVE  \E r \in Served : Checks(w, r) /\ r.pc = "save"
<1>1. PICK i \in Existing, a \in Ads, k \in Kinds, p \in Existing \cup {None} :
        \E u \in Heirs \cup {reviews[i].author} :
           /\ Valid(i, Review(a, u, k, p))
           /\ Become(w, [Idle EXCEPT !.pc = "save", !.id = i, !.data = Review(a, u, k, p)])
  BY DEF AdminCheck
<1>2. PICK u \in Heirs \cup {reviews[i].author} :
           /\ Valid(i, Review(a, u, k, p))
           /\ Become(w, [Idle EXCEPT !.pc = "save", !.id = i, !.data = Review(a, u, k, p)])
  BY <1>1
<1>3. i \in Ids /\ i \in 0..minted /\ i # None /\ reviews[i] \in ReviewRow
  BY ExistingIds
<1>4. u \in Users /\ p \in Ids \cup {None}
  BY <1>3, RowFields, DiscussionsAssumption DEF DiscussionsAssumption, Existing
<1> DEFINE row == Review(a, u, k, p)
           r == [Idle EXCEPT !.pc = "save", !.id = i, !.data = row]
<1>5. row \in ReviewRow /\ row.exists
  BY <1>4, ReviewFields
<1>6. Valid(i, row) /\ Become(w, r)
  BY <1>2
<1> HIDE DEF row
<1>7. r \in Served /\ r.pc = "save" /\ r.data = row /\ r.id = i
  BY <1>3, <1>5, IdleFields DEF Served
<1> HIDE DEF r
<1>8. Checked(r)
  BY <1>6, <1>7 DEF Checked
<1>9. req[w].pc = "idle" /\ serial' = (serial /\ Alone(w)) /\ UNCHANGED <<ads, reviews, minted>>
  BY DEF AdminCheck
<1>10. Checks(w, r)
  BY <1>3, <1>5, <1>6, <1>7, <1>8, <1>9 DEF Checks
<1> QED BY <1>7, <1>10

LEMMA EndIdle ==
  ASSUME TypeOK, NEW w \in Workers, Become(w, Idle)
  PROVE  Ends(w)
<1>1. Idle.id \in 0..minted
  BY IdleFields, Values DEF TypeOK
<1> QED BY <1>1, IdleFields DEF Ends

LEMMA InsertEffect ==
  ASSUME TypeOK, NEW w \in Workers, Insert(w)
  PROVE  /\ Ends(w) /\ Become(w, Idle) /\ req[w].pc = "insert" /\ UNCHANGED <<ads, serial>>
         /\ \/ UNCHANGED <<reviews, minted>>
            \/ /\ RefsExist(req[w].data) /\ minted' = minted + 1
               /\ reviews' = [reviews EXCEPT ![minted + 1] = req[w].data]
  BY EndIdle DEF Insert

LEMMA UpdateEffect ==
  ASSUME TypeOK, NEW w \in Workers, Update(w)
  PROVE  /\ Ends(w) /\ req[w].pc = "update" /\ UNCHANGED <<ads, minted, serial>>
         /\ \/ UNCHANGED reviews
            \/ \E row \in ReviewRow :
                  /\ reviews[req[w].id].exists /\ row = Merged(reviews[req[w].id], req[w])
                  /\ row.exists /\ RefsExist(row)
                  /\ reviews' = [reviews EXCEPT ![req[w].id] = row]
<1> DEFINE r == req[w]
           row == Written(r)
           next == [r EXCEPT !.pc = "reload", !.data = UrlOnly(@.ad), !.fields = {}]
<1>1. req[w].pc = "update" /\ UNCHANGED <<ads, minted, serial>>
  BY DEF Update
<1>2. r \in Served /\ r.id \in Ids /\ r.id \in 0..minted /\ r.id # None
  <2>1. r \in Served /\ r.id \in 0..minted /\ r.id # None
    BY <1>1 DEF TypeOK, Phases
  <2> QED BY <2>1, ServedFields
<1>3. CASE row.exists /\ RefsExist(row)
  <2>1. reviews' = [reviews EXCEPT ![r.id] = row] /\ Become(w, next)
    BY <1>3 DEF Update
  <2>2. reviews[r.id] \in ReviewRow
    BY <1>2 DEF TypeOK
  <2>3. r.data.ad \in Ads
    BY <1>2, ServedFields, RowFields
  <2>4. UrlOnly(r.data.ad) \in ReviewRow
    BY <2>3, Values
  <2>5. next \in Served /\ next.pc = "reload" /\ next.id = r.id
    BY <1>2, <2>4 DEF Served
  <2>6. Ends(w)
    BY <1>2, <2>1, <2>5 DEF Ends
  <2>7. reviews[r.id].exists /\ row = Merged(reviews[r.id], r)
    BY <1>3, Values DEF Written
  <2>8. row \in ReviewRow
    BY <1>2, <2>2, <2>7, MergedFields
  <2> QED BY <1>1, <1>3, <2>1, <2>6, <2>7, <2>8
<1>4. CASE ~ (row.exists /\ RefsExist(row))
  <2>1. UNCHANGED reviews /\ Become(w, Idle)
    BY <1>4 DEF Update
  <2> QED BY <1>1, <2>1, EndIdle
<1> QED BY <1>3, <1>4

LEMMA AdminSaveEffect ==
  ASSUME TypeOK, NEW w \in Workers, AdminSave(w)
  PROVE  /\ Ends(w) /\ req[w].pc = "save" /\ UNCHANGED <<ads, minted, serial>>
         /\ \/ UNCHANGED reviews
            \/ /\ RefsExist(req[w].data)
               /\ reviews' = [reviews EXCEPT ![req[w].id] = req[w].data]
  BY EndIdle DEF AdminSave

\* A request leaves without a write.
Leaves(w) == Reload(w) \/ Drop(w)

LEMMA LeavesEffect ==
  ASSUME TypeOK, NEW w \in Workers, Leaves(w)
  PROVE  /\ Ends(w) /\ Become(w, Idle) /\ req[w].pc # "idle"
         /\ UNCHANGED <<ads, reviews, minted, serial>>
  BY EndIdle DEF Leaves, Reload, Drop

\* Records, and perhaps an advertisement, are deleted or hidden: whatever set a
\* deletion begins with, the answers go with it.
Removes ==
    \E set \in SUBSET Existing :
        /\ Vanish(set)
        /\ ads' \in [Ads -> {"published", "hidden", "gone"}]
        /\ \A i \in Existing \ set : ads'[reviews[i].ad] # "gone"

LEMMA ThreadIsClosed ==
  ASSUME NEW set \in SUBSET Existing
  PROVE  /\ set \subseteq Thread(set) /\ Thread(set) \subseteq Existing
         /\ \A k \in Thread(set) : Answers(k) \subseteq Thread(set)
<1>1. set \subseteq Thread(set) /\ Thread(set) \subseteq Existing
  BY DEF Thread
<1>2. ASSUME NEW k \in Thread(set), NEW j \in Answers(k) PROVE j \in Thread(set)
  <2>1. j \in Existing
    BY DEF Answers
  <2>2. ASSUME NEW ids \in SUBSET Existing, set \subseteq ids, \A i \in ids : Answers(i) \subseteq ids
        PROVE  j \in ids
    <3>1. k \in ids
      BY <2>2 DEF Thread
    <3> QED BY <2>2, <3>1
  <2> QED BY <2>1, <2>2 DEF Thread
<1> QED BY <1>1, <1>2

LEMMA DeleteEffect ==
  ASSUME TypeOK, NEW i \in Ids, Delete(i)
  PROVE  Removes
<1>1. {i} \in SUBSET Existing /\ Vanish({i}) /\ ads' = ads
  BY DEF Delete
<1>2. \A j \in Existing : ads[reviews[j].ad] # "gone"
  BY DEF TypeOK, RefsExist
<1>3. ads \in [Ads -> {"published", "hidden", "gone"}]
  BY DEF TypeOK
<1> QED BY <1>1, <1>2, <1>3 DEF Removes

LEMMA ChangeStatusEffect ==
  ASSUME TypeOK, NEW a \in Changing, ChangeStatus(a)
  PROVE  Removes
<1>1. a \in Ads /\ {} \in SUBSET Existing /\ Vanish({})
  BY DiscussionsAssumption DEF ChangeStatus, DiscussionsAssumption
<1>2. ads \in [Ads -> {"published", "hidden", "gone"}]
  BY DEF TypeOK
<1>3. /\ ads' \in [Ads -> {"published", "hidden", "gone"}]
      /\ \A b \in Ads : ads[b] # "gone" => ads'[b] # "gone"
  BY <1>1, <1>2 DEF ChangeStatus
<1>4. \A j \in Existing : ads[reviews[j].ad] # "gone" /\ reviews[j].ad \in Ads
  BY ExistingIds, RowFields DEF TypeOK, RefsExist
<1>5. \A j \in Existing \ {} : ads'[reviews[j].ad] # "gone"
  BY <1>3, <1>4
<1> QED BY <1>1, <1>3, <1>5 DEF Removes

LEMMA DeleteAdEffect ==
  ASSUME TypeOK, NEW a \in Changing, DeleteAd(a)
  PROVE  Removes
<1> DEFINE set == {i \in Existing : reviews[i].ad = a}
<1>1. a \in Ads /\ set \in SUBSET Existing /\ Vanish(set)
  BY DiscussionsAssumption DEF DeleteAd, DiscussionsAssumption
<1>2. ads \in [Ads -> {"published", "hidden", "gone"}]
  BY DEF TypeOK
<1>3. /\ ads' \in [Ads -> {"published", "hidden", "gone"}]
      /\ \A b \in Ads \ {a} : ads'[b] = ads[b]
  BY <1>1, <1>2 DEF DeleteAd
<1>4. \A j \in Existing : ads[reviews[j].ad] # "gone" /\ reviews[j].ad \in Ads
  BY ExistingIds, RowFields DEF TypeOK, RefsExist
<1>5. \A j \in Existing \ set : ads'[reviews[j].ad] # "gone"
  BY <1>3, <1>4
<1> QED BY <1>1, <1>3, <1>5 DEF Removes

\* Every step is of one of these sorts.
LEMMA Steps ==
  ASSUME TypeOK, [Next]_vars
  PROVE  \/ \E w \in Workers :
               \/ \E r \in Served :
                     Checks(w, r) /\ (r.pc = "insert" => minted + Cardinality(Inserting) < MaxReviews)
               \/ Insert(w) \/ Update(w) \/ AdminSave(w) \/ Leaves(w)
         \/ Removes
         \/ UNCHANGED vars
<1>1. ASSUME NEW w \in Workers, CreateCheck(w) \/ EditCheck(w) \/ AdminCheck(w)
      PROVE  \E r \in Served :
                Checks(w, r) /\ (r.pc = "insert" => minted + Cardinality(Inserting) < MaxReviews)
  <2>1. CASE CreateCheck(w)
    BY <2>1, CreateCheckEffect
  <2>2. CASE EditCheck(w)
    <3>1. PICK r \in Served : Checks(w, r) /\ r.pc = "update"
      BY <2>2, EditCheckEffect
    <3> QED BY <3>1
  <2>3. CASE AdminCheck(w)
    <3>1. PICK r \in Served : Checks(w, r) /\ r.pc = "save"
      BY <2>3, AdminCheckEffect
    <3> QED BY <3>1
  <2> QED BY <1>1, <2>1, <2>2, <2>3
<1>2. (\E i \in Ids : Delete(i)) \/ (\E a \in Changing : ChangeStatus(a) \/ DeleteAd(a)) => Removes
  BY DeleteEffect, ChangeStatusEffect, DeleteAdEffect
<1>3. CASE UNCHANGED vars
  BY <1>3
<1>4. CASE Next
  BY <1>1, <1>2, <1>4 DEF Next, Leaves
<1> QED BY <1>3, <1>4

(***************************************************************************)
(* The type invariant.                                                     *)
(***************************************************************************)
RowsOK ==
    /\ reviews \in [Ids -> ReviewRow]
    /\ Existing \subseteq 1..minted
    /\ \A i \in Existing : RefsExist(reviews[i])

LEMMA WriteTyped ==
  ASSUME TypeOK, NEW i \in Ids, NEW row \in ReviewRow, row.exists, RefsExist(row),
         reviews' = [reviews EXCEPT ![i] = row], ads' = ads,
         minted' \in Nat, minted <= minted', i <= minted'
  PROVE  RowsOK'
<1>1. reviews \in [Ids -> ReviewRow] /\ minted \in Nat /\ Existing \subseteq 1..minted
  BY DEF TypeOK
<1>2. reviews' \in [Ids -> ReviewRow] /\ Existing' = Existing \cup {i}
  BY <1>1 DEF Existing
<1>3. i \in 1..minted'
  BY DEF Ids
<1>4. 1..minted \subseteq 1..minted'
  BY <1>1
<1>5. ASSUME NEW j \in Existing' PROVE RefsExist(reviews[j])'
  <2>1. CASE j = i
    <3>1. reviews'[j] = row
      BY <1>1, <2>1
    <3> QED BY <1>2, <3>1 DEF RefsExist
  <2>2. CASE j # i
    <3>1. j \in Existing /\ reviews'[j] = reviews[j] /\ j \in Ids
      BY <1>1, <1>2, <2>2 DEF Existing
    <3>2. RefsExist(reviews[j])
      BY <3>1 DEF TypeOK
    <3> QED BY <1>2, <3>1, <3>2 DEF RefsExist
  <2> QED BY <2>1, <2>2
<1> QED BY <1>1, <1>2, <1>3, <1>4, <1>5 DEF RowsOK

LEMMA RemovesTyped ==
  ASSUME TypeOK, Removes
  PROVE  /\ RowsOK' /\ ads' \in [Ads -> {"published", "hidden", "gone"}]
         /\ UNCHANGED <<minted, req>>
         /\ serial' = (serial /\ \A w \in Workers : req[w].pc = "idle")
         /\ \A i \in Existing' : i \in Existing /\ reviews'[i] = reviews[i]
<1>1. PICK set \in SUBSET Existing :
        /\ Vanish(set)
        /\ ads' \in [Ads -> {"published", "hidden", "gone"}]
        /\ \A i \in Existing \ set : ads'[reviews[i].ad] # "gone"
  BY DEF Removes
<1>2. /\ reviews' = [j \in Ids |-> IF j \in Thread(set) THEN NoReview ELSE reviews[j]]
      /\ UNCHANGED <<minted, req>> /\ serial' = (serial /\ \A w \in Workers : req[w].pc = "idle")
  BY <1>1 DEF Vanish
<1>3. reviews \in [Ids -> ReviewRow] /\ Existing \subseteq 1..minted
  BY DEF TypeOK
<1>4. reviews' \in [Ids -> ReviewRow]
  BY <1>2, <1>3, Values
<1>5. \A i \in Existing' : i \in Existing /\ i \notin Thread(set) /\ reviews'[i] = reviews[i]
  BY <1>2, Values DEF Existing
<1>6. \A i \in Existing : i \notin Thread(set) => i \in Existing'
  BY <1>2, Values DEF Existing
<1>7. ASSUME NEW i \in Existing' PROVE RefsExist(reviews[i])'
  <2>1. i \in Existing /\ i \notin Thread(set) /\ reviews'[i] = reviews[i]
    BY <1>5
  <2>2. i \notin set
    BY <2>1, ThreadIsClosed
  <2>3. ads'[reviews[i].ad] # "gone"
    BY <1>1, <2>1, <2>2
  <2>4. reviews[i].parent = None \/ reviews[i].parent \in Existing
    BY <2>1 DEF TypeOK, RefsExist
  <2>5. reviews[i].parent \notin Thread(set)
    BY <2>1, ThreadIsClosed DEF Answers
  <2> QED BY <1>6, <2>1, <2>3, <2>4, <2>5 DEF RefsExist
<1> QED BY <1>1, <1>2, <1>3, <1>4, <1>5, <1>7 DEF RowsOK

LEMMA EndsTyped ==
  ASSUME TypeOK, NEW w \in Workers, Ends(w), minted' \in Nat, minted <= minted'
  PROVE  /\ req' \in [Workers -> Served] /\ Phases' /\ req'[w].pc \in {"idle", "reload"}
         /\ \A v \in Workers \ {w} : req'[v] = req[v]
         /\ Cardinality(Inserting') \in Nat
         /\ Cardinality(Inserting') <= Cardinality(Inserting)
         /\ req[w].pc = "insert" => Cardinality(Inserting') + 1 = Cardinality(Inserting)
<1>1. PICK r \in Served :
        /\ Become(w, r) /\ r.pc \in {"idle", "reload"} /\ r.id \in 0..minted
        /\ r.pc = "reload" => r.id # None
  BY DEF Ends
<1>2. /\ req' \in [Workers -> Served] /\ req'[w] = r
      /\ \A v \in Workers \ {w} : req'[v] = req[v]
      /\ Cardinality(Inserting') \in Nat
      /\ Cardinality(Inserting') <= Cardinality(Inserting)
      /\ req[w].pc = "insert" => Cardinality(Inserting') + 1 = Cardinality(Inserting)
  BY <1>1, Goes
<1>3. minted \in Nat
  BY DEF TypeOK
<1>4. ASSUME NEW v \in Workers
      PROVE  /\ req'[v].id \in 0..minted
             /\ req'[v].pc \in {"update", "reload", "save"} => req'[v].id # None
             /\ req'[v].pc \in {"insert", "save"} => req'[v].data.exists
  <2>1. CASE v = w
    BY <1>1, <1>2, <2>1
  <2>2. CASE v # w
    BY <1>2, <2>2 DEF TypeOK, Phases
  <2> QED BY <2>1, <2>2
<1>5. 0..minted \subseteq 0..minted'
  BY <1>3
<1> QED BY <1>1, <1>2, <1>4, <1>5 DEF Phases

LEMMA InitTypes == Init => TypeOK
<1> SUFFICES ASSUME Init PROVE TypeOK
  OBVIOUS
<1>1. Existing = {} /\ reviews \in [Ids -> ReviewRow]
  BY Values DEF Init, Existing
<1>2. req \in [Workers -> Served] /\ \A w \in Workers : req[w] = Idle
  BY IdleFields DEF Init
<1>3. Inserting = {}
  BY <1>2, IdleFields DEF Inserting
<1>4. Cardinality(Inserting) = 0
  BY <1>3, FS_EmptySet
<1>5. minted = 0 /\ minted \in 0..MaxReviews /\ minted + Cardinality(Inserting) <= MaxReviews
  BY <1>4, Values DEF Init
<1>6. Phases
  BY <1>2, <1>5, IdleFields, Values DEF Phases
<1> QED BY <1>1, <1>2, <1>5, <1>6 DEF Init, TypeOK

LEMMA ChecksTyped ==
  ASSUME TypeOK, NEW w \in Workers, NEW r \in Served, Checks(w, r),
         r.pc = "insert" => minted + Cardinality(Inserting) < MaxReviews
  PROVE  TypeOK'
<1>1. /\ UNCHANGED <<ads, reviews, minted>> /\ serial' \in BOOLEAN /\ Become(w, r)
      /\ r.id \in 0..minted
      /\ r.pc \in {"update", "reload", "save"} => r.id # None
      /\ r.pc \in {"insert", "save"} => r.data.exists
  BY DEF Checks, TypeOK
<1>2. /\ req' \in [Workers -> Served] /\ req'[w] = r
      /\ \A v \in Workers \ {w} : req'[v] = req[v]
      /\ Cardinality(Inserting') \in Nat
      /\ Cardinality(Inserting') <= Cardinality(Inserting) + 1
      /\ r.pc # "insert" => Cardinality(Inserting') <= Cardinality(Inserting)
  BY <1>1, Goes
<1>3. /\ minted \in Nat /\ MaxReviews \in Nat /\ Cardinality(Inserting) \in Nat
      /\ minted + Cardinality(Inserting) <= MaxReviews
  BY Values, Inserters DEF TypeOK
<1>4. minted + Cardinality(Inserting') <= MaxReviews
  BY <1>2, <1>3
<1>5. Phases'
  <2>1. ASSUME NEW v \in Workers
        PROVE  /\ req'[v].id \in 0..minted
               /\ req'[v].pc \in {"update", "reload", "save"} => req'[v].id # None
               /\ req'[v].pc \in {"insert", "save"} => req'[v].data.exists
    <3>1. CASE v = w
      BY <1>1, <1>2, <3>1
    <3>2. CASE v # w
      BY <1>2, <3>2 DEF TypeOK, Phases
    <3> QED BY <3>1, <3>2
  <2> QED BY <1>1, <2>1 DEF Phases
<1>6. Existing' = Existing /\ \A i \in Existing : RefsExist(reviews[i])'
  BY <1>1 DEF TypeOK, Existing, RefsExist
<1> QED BY <1>1, <1>2, <1>4, <1>5, <1>6 DEF TypeOK

LEMMA InsertTyped ==
  ASSUME TypeOK, NEW w \in Workers, Insert(w)
  PROVE  /\ TypeOK' /\ (UNCHANGED <<reviews, minted>> \/ minted + 1 \in Ids)
<1>1. /\ Ends(w) /\ req[w].pc = "insert" /\ UNCHANGED <<ads, serial>>
      /\ \/ UNCHANGED <<reviews, minted>>
         \/ /\ RefsExist(req[w].data) /\ minted' = minted + 1
            /\ reviews' = [reviews EXCEPT ![minted + 1] = req[w].data]
  BY InsertEffect
<1>2. /\ minted \in Nat /\ MaxReviews \in Nat /\ minted + Cardinality(Inserting) <= MaxReviews
      /\ Cardinality(Inserting) \in Nat
  BY Values, Inserters DEF TypeOK
<1>3. minted' \in Nat /\ minted <= minted'
  BY <1>1, <1>2
<1>4. /\ req' \in [Workers -> Served] /\ Phases' /\ Cardinality(Inserting') \in Nat
      /\ Cardinality(Inserting') + 1 = Cardinality(Inserting)
  BY <1>1, <1>3, EndsTyped
<1>5. minted + 1 <= MaxReviews /\ minted + 1 \in Ids
  BY <1>2, <1>4 DEF Ids
<1>6. minted' \in 0..MaxReviews /\ minted' + Cardinality(Inserting') <= MaxReviews
  BY <1>1, <1>2, <1>4, <1>5
<1>7. req[w] \in Served /\ req[w].data.exists
  BY <1>1 DEF TypeOK, Phases
<1>8. req[w].data \in ReviewRow
  BY <1>7, ServedFields
<1>9. RowsOK'
  <2>1. CASE UNCHANGED <<reviews, minted>>
    <3>1. Existing' = Existing
      BY <2>1 DEF Existing
    <3> QED BY <1>1, <2>1, <3>1 DEF TypeOK, RowsOK, RefsExist
  <2>2. CASE /\ RefsExist(req[w].data) /\ minted' = minted + 1
             /\ reviews' = [reviews EXCEPT ![minted + 1] = req[w].data]
    <3>1. minted + 1 <= minted' /\ ads' = ads
      BY <1>1, <1>2, <2>2
    <3> QED BY <1>3, <1>5, <1>7, <1>8, <2>2, <3>1, WriteTyped
  <2> QED BY <1>1, <2>1, <2>2
<1>10. ads' \in [Ads -> {"published", "hidden", "gone"}] /\ serial' \in BOOLEAN
  BY <1>1 DEF TypeOK
<1> QED BY <1>4, <1>5, <1>6, <1>9, <1>10 DEF TypeOK, RowsOK

\* The two writes to a record that was there, by the API and by the admin page.
Rewrites(w) == Update(w) \/ AdminSave(w)

LEMMA RewritesEffect ==
  ASSUME TypeOK, NEW w \in Workers, Rewrites(w)
  PROVE  /\ Ends(w) /\ req[w].pc # "idle" /\ UNCHANGED <<ads, minted, serial>>
         /\ req[w].id \in Ids /\ req[w].id <= minted
         /\ \/ UNCHANGED reviews
            \/ \E row \in ReviewRow :
                  /\ row.exists /\ RefsExist(row) /\ reviews' = [reviews EXCEPT ![req[w].id] = row]
                  /\ Checked(req[w]) => Valid(req[w].id, row)
<1>1. CASE Update(w)
  <2>1. /\ Ends(w) /\ req[w].pc = "update" /\ UNCHANGED <<ads, minted, serial>>
        /\ \/ UNCHANGED reviews
           \/ \E row \in ReviewRow :
                 /\ reviews[req[w].id].exists /\ row = Merged(reviews[req[w].id], req[w])
                 /\ row.exists /\ RefsExist(row)
                 /\ reviews' = [reviews EXCEPT ![req[w].id] = row]
    BY <1>1, UpdateEffect
  <2>2. req[w].id \in 0..minted /\ req[w].id # None /\ req[w] \in Served
    BY <2>1 DEF TypeOK, Phases
  <2>3. req[w].id \in Ids /\ req[w].id <= minted
    BY <2>2, ServedFields DEF TypeOK
  <2> QED BY <2>1, <2>3 DEF Checked
<1>2. CASE AdminSave(w)
  <2>1. /\ Ends(w) /\ req[w].pc = "save" /\ UNCHANGED <<ads, minted, serial>>
        /\ \/ UNCHANGED reviews
           \/ /\ RefsExist(req[w].data)
              /\ reviews' = [reviews EXCEPT ![req[w].id] = req[w].data]
    BY <1>2, AdminSaveEffect
  <2>2. req[w].id \in 0..minted /\ req[w].id # None /\ req[w] \in Served /\ req[w].data.exists
    BY <2>1 DEF TypeOK, Phases
  <2>3. req[w].id \in Ids /\ req[w].id <= minted /\ req[w].data \in ReviewRow
    BY <2>2, ServedFields DEF TypeOK
  <2> QED BY <2>1, <2>2, <2>3 DEF Checked
<1> QED BY <1>1, <1>2 DEF Rewrites

LEMMA RewritesTyped ==
  ASSUME TypeOK, NEW w \in Workers, Rewrites(w)
  PROVE  TypeOK'
<1>1. /\ Ends(w) /\ UNCHANGED <<ads, minted, serial>> /\ req[w].id \in Ids /\ req[w].id <= minted
      /\ \/ UNCHANGED reviews
         \/ \E row \in ReviewRow :
               row.exists /\ RefsExist(row) /\ reviews' = [reviews EXCEPT ![req[w].id] = row]
  BY RewritesEffect
<1>2. /\ minted \in Nat /\ MaxReviews \in Nat /\ minted + Cardinality(Inserting) <= MaxReviews
      /\ Cardinality(Inserting) \in Nat /\ minted \in 0..MaxReviews
  BY Values, Inserters DEF TypeOK
<1>3. minted' \in Nat /\ minted <= minted'
  BY <1>1, <1>2
<1>4. /\ req' \in [Workers -> Served] /\ Phases' /\ Cardinality(Inserting') \in Nat
      /\ Cardinality(Inserting') <= Cardinality(Inserting)
  BY <1>1, <1>3, EndsTyped
<1>5. minted' \in 0..MaxReviews /\ minted' + Cardinality(Inserting') <= MaxReviews
  BY <1>1, <1>2, <1>4
<1>6. RowsOK'
  <2>1. CASE UNCHANGED reviews
    <3>1. Existing' = Existing
      BY <2>1 DEF Existing
    <3> QED BY <1>1, <2>1, <3>1 DEF TypeOK, RowsOK, RefsExist
  <2>2. ASSUME NEW row \in ReviewRow, row.exists, RefsExist(row),
               reviews' = [reviews EXCEPT ![req[w].id] = row]
        PROVE  RowsOK'
    <3>1. req[w].id <= minted' /\ ads' = ads
      BY <1>1
    <3> QED BY <1>1, <1>3, <2>2, <3>1, WriteTyped
  <2> QED BY <1>1, <2>1, <2>2
<1>7. ads' \in [Ads -> {"published", "hidden", "gone"}] /\ serial' \in BOOLEAN
  BY <1>1 DEF TypeOK
<1> QED BY <1>4, <1>5, <1>6, <1>7 DEF TypeOK, RowsOK

LEMMA LeavesTyped ==
  ASSUME TypeOK, NEW w \in Workers, Leaves(w)
  PROVE  TypeOK'
<1>1. Ends(w) /\ UNCHANGED <<ads, reviews, minted, serial>>
  BY LeavesEffect
<1>2. /\ minted \in Nat /\ MaxReviews \in Nat /\ minted + Cardinality(Inserting) <= MaxReviews
      /\ Cardinality(Inserting) \in Nat
  BY Values, Inserters DEF TypeOK
<1>3. minted' \in Nat /\ minted <= minted'
  BY <1>1, <1>2
<1>4. /\ req' \in [Workers -> Served] /\ Phases' /\ Cardinality(Inserting') \in Nat
      /\ Cardinality(Inserting') <= Cardinality(Inserting)
  BY <1>1, <1>3, EndsTyped
<1>5. minted' + Cardinality(Inserting') <= MaxReviews
  BY <1>1, <1>2, <1>4
<1>6. Existing' = Existing /\ \A i \in Existing : RefsExist(reviews[i])'
  BY <1>1 DEF TypeOK, Existing, RefsExist
<1> QED BY <1>1, <1>4, <1>5, <1>6 DEF TypeOK

LEMMA NextTypes == TypeOK /\ [Next]_vars => TypeOK'
<1> SUFFICES ASSUME TypeOK, [Next]_vars PROVE TypeOK'
  OBVIOUS
<1>1. ASSUME NEW w \in Workers, NEW r \in Served, Checks(w, r),
             r.pc = "insert" => minted + Cardinality(Inserting) < MaxReviews
      PROVE  TypeOK'
  BY <1>1, ChecksTyped
<1>2. ASSUME NEW w \in Workers, Insert(w) \/ Update(w) \/ AdminSave(w) \/ Leaves(w) PROVE TypeOK'
  BY <1>2, InsertTyped, RewritesTyped, LeavesTyped DEF Rewrites
<1>3. CASE Removes
  <2>1. /\ RowsOK' /\ ads' \in [Ads -> {"published", "hidden", "gone"}]
        /\ UNCHANGED <<minted, req>> /\ serial' \in BOOLEAN
    BY <1>3, RemovesTyped
  <2>2. Inserting' = Inserting
    BY <2>1 DEF Inserting
  <2>3. Phases'
    BY <2>1 DEF TypeOK, Phases
  <2> QED BY <2>1, <2>2, <2>3 DEF TypeOK, RowsOK
<1>4. CASE UNCHANGED vars
  <2>1. Inserting' = Inserting /\ Existing' = Existing /\ \A i \in Existing : RefsExist(reviews[i])'
    BY <1>4 DEF TypeOK, vars, Inserting, Existing, RefsExist
  <2>2. Phases'
    BY <1>4 DEF TypeOK, vars, Phases
  <2> QED BY <1>4, <2>1, <2>2 DEF TypeOK, vars
<1> QED BY <1>1, <1>2, <1>3, <1>4, Steps

\* The variables keep their types, and no record outlives what it answers or the
\* advertisement it is about, however requests, deletions and hidings overlap.
THEOREM TypeCorrect == Spec => []TypeOK
  BY InitTypes, NextTypes, PTL DEF Spec

(***************************************************************************)
(* One request after another, the rules are enough.                        *)
(***************************************************************************)
\* A record is written as validate_discussion wants it: every answer is still under
\* a question.
LEMMA WriteKeeps ==
  ASSUME TypeOK, QuestionsKeepTheirAnswers, NEW i \in Ids, NEW row \in ReviewRow, row.exists,
         reviews' = [reviews EXCEPT ![i] = row],
         row.parent # None => IsQuestionOf(row.parent, row.ad) /\ row.parent # i,
         Answers(i) # {} => row.kind = "question" /\ row.parent = None
  PROVE  QuestionsKeepTheirAnswers'
<1> SUFFICES ASSUME NEW j \in Existing', NEW k \in Answers(j)'
             PROVE  reviews'[j].kind = "question" /\ reviews'[j].parent = None
  BY DEF QuestionsKeepTheirAnswers
<1>1. reviews \in [Ids -> ReviewRow]
  BY DEF TypeOK
<1>2. Existing' = Existing \cup {i} /\ reviews'[i] = row /\ \A h \in Ids \ {i} : reviews'[h] = reviews[h]
  BY <1>1 DEF Existing
<1>3. k \in Existing' /\ reviews'[k].parent = j /\ j \in Ids /\ j # None
  BY Values DEF Answers, Existing
<1>4. CASE k = i
  <2>1. IsQuestionOf(j, row.ad) /\ j # i
    BY <1>2, <1>3, <1>4
  <2>2. reviews[j].kind = "question" /\ reviews[j].parent = None
    BY <2>1 DEF IsQuestionOf
  <2> QED BY <1>2, <1>3, <2>1, <2>2
<1>5. CASE k # i
  <2>1. k \in Existing /\ reviews[k].parent = j
    BY <1>2, <1>3, <1>5 DEF Existing
  <2>2. k \in Answers(j)
    BY <2>1 DEF Answers
  <2>3. CASE j = i
    BY <1>2, <2>2, <2>3
  <2>4. CASE j # i
    <3>1. j \in Existing
      BY <1>2, <2>4
    <3>2. reviews[j].kind = "question" /\ reviews[j].parent = None
      BY <2>2, <3>1 DEF QuestionsKeepTheirAnswers
    <3> QED BY <1>2, <1>3, <2>4, <3>2
  <2> QED BY <2>3, <2>4
<1> QED BY <1>4, <1>5

\* No record is an answer to the next one.
LEMMA NewIsUnanswered ==
  ASSUME TypeOK
  PROVE  Answers(minted + 1) = {} /\ minted + 1 \notin Existing
<1>1. minted + 1 \notin Existing
  BY DEF TypeOK
<1>2. ASSUME NEW j \in Existing PROVE reviews[j].parent # minted + 1
  <2>1. reviews[j].parent = None \/ reviews[j].parent \in Existing
    BY DEF TypeOK, RefsExist
  <2>2. minted + 1 # None
    BY DEF TypeOK, None
  <2> QED BY <1>1, <2>1, <2>2
<1> QED BY <1>1, <1>2 DEF Answers

\* The part of Inductive that is about the past of one request at a time.
InTurn ==
    /\ QuestionsKeepTheirAnswers
    /\ \A v, w \in Workers : v = w \/ req[v].pc = "idle" \/ req[w].pc = "idle"
    /\ \A w \in Workers : Checked(req[w])

LEMMA EndsInTurn ==
  ASSUME TypeOK, NEW w \in Workers, Ends(w), minted' \in Nat, minted <= minted',
         req[w].pc # "idle", InTurn, QuestionsKeepTheirAnswers'
  PROVE  InTurn'
<1>1. req'[w].pc \in {"idle", "reload"} /\ \A v \in Workers \ {w} : req'[v] = req[v]
  BY EndsTyped
<1>2. \A v \in Workers \ {w} : req'[v].pc = "idle"
  BY <1>1 DEF InTurn
<1>3. \A v \in Workers : Checked(req[v])'
  BY <1>1, <1>2 DEF Checked
<1> QED BY <1>2, <1>3 DEF InTurn

LEMMA NextInTurn ==
  ASSUME TypeOK, serial => InTurn, [Next]_vars, serial'
  PROVE  InTurn'
<1>1. ASSUME NEW w \in Workers, NEW r \in Served, Checks(w, r) PROVE InTurn'
  <2>1. /\ Checked(r) /\ UNCHANGED <<ads, reviews, minted>> /\ Become(w, r)
        /\ serial /\ Alone(w)
    BY <1>1 DEF Checks
  <2>2. req'[w] = r /\ \A v \in Workers \ {w} : req'[v] = req[v]
    BY <2>1, Goes
  <2>3. \A v \in Workers \ {w} : req'[v].pc = "idle"
    BY <2>1, <2>2 DEF Alone
  <2>4. QuestionsKeepTheirAnswers'
    BY <2>1 DEF InTurn, QuestionsKeepTheirAnswers, Existing, Answers
  <2>5. ASSUME NEW v \in Workers PROVE Checked(req[v])'
    <3>1. CASE v = w
      <4>1. Checked(r)'
        BY <2>1 DEF Checked, Valid, IsQuestionOf, Answers, Existing
      <4> QED BY <2>2, <3>1, <4>1 DEF Checked
    <3>2. CASE v # w
      BY <2>3, <3>2 DEF Checked
    <3> QED BY <3>1, <3>2
  <2> QED BY <2>3, <2>4, <2>5 DEF InTurn
<1>2. ASSUME NEW w \in Workers, Insert(w) PROVE InTurn'
  <2>1. /\ Ends(w) /\ req[w].pc = "insert" /\ UNCHANGED <<ads, serial>>
        /\ \/ UNCHANGED <<reviews, minted>>
           \/ /\ RefsExist(req[w].data) /\ minted' = minted + 1
              /\ reviews' = [reviews EXCEPT ![minted + 1] = req[w].data]
    BY <1>2, InsertEffect
  <2>2. InTurn /\ minted \in Nat
    BY <2>1 DEF TypeOK
  <2>3. minted' \in Nat /\ minted <= minted'
    BY <2>1, <2>2
  <2>4. QuestionsKeepTheirAnswers'
    <3>1. CASE UNCHANGED <<reviews, minted>>
      BY <2>2, <3>1 DEF InTurn, QuestionsKeepTheirAnswers, Existing, Answers
    <3>2. CASE /\ RefsExist(req[w].data) /\ minted' = minted + 1
               /\ reviews' = [reviews EXCEPT ![minted + 1] = req[w].data]
      <4>1. minted + 1 \in Ids
        BY <1>2, <2>2, <3>2, InsertTyped
      <4>2. req[w].data.exists /\ req[w] \in Served
        BY <2>1 DEF TypeOK, Phases
      <4>3. req[w].data \in ReviewRow
        BY <4>2, ServedFields
      <4>4. Valid(None, req[w].data)
        BY <2>1, <2>2 DEF InTurn, Checked
      <4>5. req[w].data.parent # None =>
              IsQuestionOf(req[w].data.parent, req[w].data.ad) /\ req[w].data.parent # minted + 1
        BY <4>4, NewIsUnanswered DEF Valid, IsQuestionOf
      <4>6. Answers(minted + 1) # {} => req[w].data.kind = "question" /\ req[w].data.parent = None
        BY NewIsUnanswered
      <4>7. QuestionsKeepTheirAnswers
        BY <2>2 DEF InTurn
      <4> QED BY <3>2, <4>1, <4>2, <4>3, <4>5, <4>6, <4>7, WriteKeeps
    <3> QED BY <2>1, <3>1, <3>2
  <2> QED BY <2>1, <2>2, <2>3, <2>4, EndsInTurn
<1>3. ASSUME NEW w \in Workers, Rewrites(w) PROVE InTurn'
  <2>1. /\ Ends(w) /\ req[w].pc # "idle" /\ UNCHANGED <<ads, minted, serial>> /\ req[w].id \in Ids
        /\ \/ UNCHANGED reviews
           \/ \E row \in ReviewRow :
                 /\ row.exists /\ RefsExist(row) /\ reviews' = [reviews EXCEPT ![req[w].id] = row]
                 /\ Checked(req[w]) => Valid(req[w].id, row)
    BY <1>3, RewritesEffect
  <2>2. InTurn /\ minted' \in Nat /\ minted <= minted'
    BY <2>1 DEF TypeOK
  <2>3. Checked(req[w]) /\ QuestionsKeepTheirAnswers
    BY <2>2 DEF InTurn
  <2>4. QuestionsKeepTheirAnswers'
    <3>1. CASE UNCHANGED reviews
      BY <2>3, <3>1 DEF QuestionsKeepTheirAnswers, Existing, Answers
    <3>2. ASSUME NEW row \in ReviewRow, row.exists, Valid(req[w].id, row),
                 reviews' = [reviews EXCEPT ![req[w].id] = row]
          PROVE  QuestionsKeepTheirAnswers'
      <4>1. /\ row.parent # None => IsQuestionOf(row.parent, row.ad) /\ row.parent # req[w].id
            /\ Answers(req[w].id) # {} => row.kind = "question" /\ row.parent = None
        BY <2>1, <3>2, Values DEF Valid
      <4> QED BY <2>1, <2>3, <3>2, <4>1, WriteKeeps
    <3> QED BY <2>1, <2>3, <3>1, <3>2
  <2> QED BY <2>1, <2>2, <2>4, EndsInTurn
<1>4. ASSUME NEW w \in Workers, Leaves(w) PROVE InTurn'
  <2>1. Ends(w) /\ req[w].pc # "idle" /\ UNCHANGED <<ads, reviews, minted, serial>>
    BY <1>4, LeavesEffect
  <2>2. InTurn /\ minted' \in Nat /\ minted <= minted'
    BY <2>1 DEF TypeOK
  <2>3. QuestionsKeepTheirAnswers'
    BY <2>1, <2>2 DEF InTurn, QuestionsKeepTheirAnswers, Existing, Answers
  <2> QED BY <2>1, <2>2, <2>3, EndsInTurn
<1>5. CASE Removes
  <2>1. /\ UNCHANGED req /\ serial /\ \A w \in Workers : req[w].pc = "idle"
        /\ \A i \in Existing' : i \in Existing /\ reviews'[i] = reviews[i]
    BY <1>5, RemovesTyped
  <2>2. \A w \in Workers : Checked(req[w])'
    BY <2>1 DEF Checked
  <2>3. ASSUME NEW i \in Existing', NEW k \in Answers(i)'
        PROVE  reviews'[i].kind = "question" /\ reviews'[i].parent = None
    <3>1. i \in Existing /\ k \in Existing' /\ reviews'[k].parent = i
      BY <2>1, <2>3 DEF Answers
    <3>2. k \in Answers(i)
      BY <2>1, <3>1 DEF Answers
    <3> QED BY <2>1, <3>1, <3>2 DEF InTurn, QuestionsKeepTheirAnswers
  <2>4. QuestionsKeepTheirAnswers'
    BY <2>3 DEF QuestionsKeepTheirAnswers
  <2> QED BY <2>1, <2>2, <2>4 DEF InTurn
<1>6. CASE UNCHANGED vars
  BY <1>6 DEF vars, InTurn, QuestionsKeepTheirAnswers, Existing, Answers, Checked, Valid,
              IsQuestionOf, Merged
<1> QED BY <1>1, <1>2, <1>3, <1>4, <1>5, <1>6, Steps DEF Rewrites

\* Types; and while no two requests have overlapped, what a request was checked for
\* still holds when it writes.
THEOREM AlwaysInductive == Spec => []Inductive
<1>1. Init => Inductive
  <2> SUFFICES ASSUME Init PROVE Inductive
    OBVIOUS
  <2>1. Existing = {} /\ \A w \in Workers : req[w] = Idle
    BY Values DEF Init, Existing
  <2>2. TypeOK
    BY InitTypes
  <2> QED BY <2>1, <2>2, IdleFields DEF Inductive, Checked, QuestionsKeepTheirAnswers
<1>2. Inductive /\ [Next]_vars => Inductive'
  <2> SUFFICES ASSUME Inductive, [Next]_vars PROVE Inductive'
    OBVIOUS
  <2>1. TypeOK /\ (serial => InTurn)
    BY DEF Inductive, InTurn
  <2>2. TypeOK'
    BY <2>1, NextTypes
  <2>3. serial' => InTurn'
    BY <2>1, NextInTurn
  <2> QED BY <2>2, <2>3 DEF Inductive, InTurn
<1> QED BY <1>1, <1>2, PTL DEF Spec

\* One request after another, by every path of the site, the API and the admin pages,
\* the rules of validate_discussion keep every answer under a question.
THEOREM RulesSuffice == Spec => []RulesSufficeSerially
<1>1. Inductive => RulesSufficeSerially
  BY DEF Inductive, RulesSufficeSerially
<1> QED BY <1>1, AlwaysInductive, PTL

(***************************************************************************)
(* An edit writes what it was sent and shows what its user may see.        *)
(***************************************************************************)
LEMMA EditsAreNarrow ==
  ASSUME TypeOK, [Next]_vars, NEW w \in Workers
  PROVE  WritesOnlyWhatWasSent(w)
<1> SUFFICES ASSUME req[w].pc = "update", req'[w].pc # "update"
             PROVE  LET old == reviews[req[w].id]
                        new == reviews'[req[w].id]
                    IN  /\ new.exists = old.exists /\ new.ad = old.ad /\ new.author = old.author
                        /\ new.kind # old.kind => "kind" \in req[w].fields
                        /\ new.parent # old.parent => "parent" \in req[w].fields
  BY DEF WritesOnlyWhatWasSent
<1>1. req[w] \in Served /\ req[w].id \in Ids /\ reviews \in [Ids -> ReviewRow]
  BY ServedFields DEF TypeOK, Phases
<1>2. reviews' = reviews \/ Update(w)
  <2>1. ASSUME NEW v \in Workers, NEW r \in Served, Become(v, r) PROVE v = w
    BY <2>1 DEF Become
  <2>2. ASSUME NEW v \in Workers, NEW r \in Served, Checks(v, r) PROVE reviews' = reviews
    BY <2>2 DEF Checks
  <2>3. ASSUME NEW v \in Workers, Insert(v) PROVE FALSE
    BY <2>1, <2>3, InsertEffect, IdleFields
  <2>4. ASSUME NEW v \in Workers, Update(v) PROVE v = w
    <3>1. Ends(v)
      BY <2>4, UpdateEffect
    <3> QED BY <2>1, <3>1 DEF Ends
  <2>5. ASSUME NEW v \in Workers, AdminSave(v) PROVE FALSE
    <3>1. Ends(v) /\ req[v].pc = "save"
      BY <2>5, AdminSaveEffect
    <3> QED BY <2>1, <3>1 DEF Ends
  <2>6. ASSUME NEW v \in Workers, Leaves(v) PROVE reviews' = reviews
    BY <2>6, LeavesEffect
  <2>7. CASE Removes
    BY <2>7, RemovesTyped
  <2> QED BY <2>2, <2>3, <2>4, <2>5, <2>6, <2>7, Steps DEF vars
<1>3. CASE Update(w)
  <2>1. \/ UNCHANGED reviews
        \/ reviews' = [reviews EXCEPT ![req[w].id] = Merged(reviews[req[w].id], req[w])]
    BY <1>3, UpdateEffect
  <2>2. \/ reviews'[req[w].id] = reviews[req[w].id]
        \/ reviews'[req[w].id] = Merged(reviews[req[w].id], req[w])
    BY <1>1, <2>1
  <2> QED BY <1>1, <2>2, MergedFields
<1> QED BY <1>2, <1>3

LEMMA RepliesAreFitting ==
  ASSUME TypeOK, NEW w \in Workers
  PROVE  RepliesHideForeignRecords(w)
  BY DEF RepliesHideForeignRecords, Reply, AccessibleTo

\* Whatever others change, move, hide and delete meanwhile, an edit through the API
\* writes no field it was not sent and shows no record its user may not see.
THEOREM EditsInBounds == Spec => EditsKeepWithinBounds
<1>1. TypeOK /\ [Next]_vars =>
        [\A w \in Workers : WritesOnlyWhatWasSent(w) /\ RepliesHideForeignRecords(w)]_vars
  BY EditsAreNarrow, RepliesAreFitting
<1> QED BY <1>1, TypeCorrect, PTL DEF Spec, EditsKeepWithinBounds

=============================================================================
