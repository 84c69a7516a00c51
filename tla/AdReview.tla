------------------------------ MODULE AdReview ------------------------------
(***************************************************************************)
(* What ads/workflow.py promises of one advertisement, with no locks and   *)
(* no copies in it: whatever a request does to the advertisement it does   *)
(* at once, by the rules, on the advertisement as it is at that instant,   *)
(* and the worker that publishes it owes its author one letter.            *)
(***************************************************************************)
CONSTANTS Workers, Keep, Nobody, Blank

VARIABLES
    ad,     \* the advertisement
    asked,  \* worker -> what it has been asked for and not yet done
    owed    \* the workers with a letter to send

vars == <<ad, asked, owed>>

----------------------------------------------------------------------------
Ad(life, status, author, content) ==
    [life |-> life, status |-> status, author |-> author, content |-> content]

Absent(life) == Ad(life, "draft", Nobody, Blank)

Order(kind, actor, admin, status, author, content) ==
    [kind |-> kind, actor |-> actor, admin |-> admin, status |-> status, author |-> author,
     content |-> content]

Nothing == Order("none", Nobody, FALSE, Keep, Keep, Keep)

\* A change of the status alone.
Click(o) == o.author = Keep /\ o.content = Keep

Wish(value, old) == IF value = Keep THEN old ELSE value

Init ==
    /\ ad = Absent("unborn")
    /\ asked = [w \in Workers |-> Nothing]
    /\ owed = {}

\* Nobody's letter is owed for an advertisement that is born published.
Post ==
    /\ ad.life = "unborn" /\ ad'.life = "live"
    /\ UNCHANGED <<asked, owed>>

\* Whoever may change the advertisement at this moment may ask.
Ask(w) ==
    /\ ad.life = "live" /\ asked[w] = Nothing /\ w \notin owed
    /\ asked'[w].kind \in {"change", "delete"}
    /\ asked'[w].admin \/ asked'[w].actor = ad.author
    /\ asked' = [asked EXCEPT ![w] = asked'[w]]
    /\ UNCHANGED <<ad, owed>>

Finished(w) == asked' = [asked EXCEPT ![w] = Nothing]

\* Refused, or killed.
Drop(w) ==
    /\ asked[w] # Nothing
    /\ Finished(w)
    /\ UNCHANGED <<ad, owed>>

\* The administrator's word is the status.  The author as of now may take a published
\* advertisement out of the catalogue; his edits go back to the reviewers.
Ruled(o, status) ==
    IF o.admin THEN status = Wish(o.status, ad.status)
    ELSE /\ o.actor = ad.author
         /\ IF Click(o)
            THEN ad.status = "published" /\ o.status = "archived" /\ status = "archived"
            ELSE o.status \in {Keep, ad.status, "archived"} /\ status = "draft"

Change(w) ==
    /\ asked[w].kind = "change"
    /\ ad.life = "live"
    /\ Ruled(asked[w], ad'.status)
    /\ ad' = Ad("live", ad'.status, Wish(asked[w].author, ad.author), Wish(asked[w].content, ad.content))
    /\ owed' = IF ad.status # "published" /\ ad'.status = "published" THEN owed \cup {w} ELSE owed
    /\ Finished(w)

\* Whoever the author is by now.
Delete(w) ==
    /\ asked[w].kind = "delete"
    /\ ad' = Absent("gone")
    /\ Finished(w)
    /\ UNCHANGED owed

\* The letter is sent, or lost.
Announce(w) ==
    /\ w \in owed
    /\ owed' = owed \ {w}
    /\ UNCHANGED <<ad, asked>>

Next ==
    \/ Post
    \/ \E w \in Workers : Ask(w) \/ Drop(w) \/ Change(w) \/ Delete(w) \/ Announce(w)

Spec == Init /\ [][Next]_vars
=============================================================================
