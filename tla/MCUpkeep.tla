------------------------------ MODULE MCUpkeep ------------------------------
(***************************************************************************)
(* Four parts that share no state in one run: turn names the one that      *)
(* moves, the others stay in a fixed state of theirs, so that the state    *)
(* space is the sum of the four and not their product.                     *)
(***************************************************************************)
EXTENDS MediaCleanup, DemoData, Accounts, Catalogue, TLC

CONSTANTS photo, PHOTO, mail, MAIL, other

SpellingKey == [n \in {photo, PHOTO} |-> photo]
LowerCase == [e \in {mail, MAIL, other} |-> IF e = MAIL THEN mail ELSE e]
TwoOfADate == [i \in Entries |-> IF i = 1 THEN 1 ELSE 2]
Symmetry == Permutations(AccountIds) \cup Permutations(Writers)

VARIABLE turn

Init ==
    /\ turn \in {"media", "demo", "accounts", "catalogue"}
    /\ MediaInit
    /\ turn # "media" => files = [n \in Names |-> NoFile] /\ image = [r \in Rows |-> NoImage]
    /\ DemoInit
    /\ AccountsInit
    /\ turn # "accounts" => account = [i \in AccountIds |-> Unborn]
    /\ CatalogueInit
    /\ turn # "catalogue" => entry = [i \in Entries |-> Absent]

Next ==
    /\ UNCHANGED turn
    /\ \/ turn = "media" /\ MediaNext /\ UNCHANGED <<demoVars, accountsVars, catalogueVars>>
       \/ turn = "demo" /\ DemoNext /\ UNCHANGED <<mediaVars, accountsVars, catalogueVars>>
       \/ turn = "accounts" /\ AccountsNext /\ UNCHANGED <<mediaVars, demoVars, catalogueVars>>
       \/ turn = "catalogue" /\ CatalogueNext /\ UNCHANGED <<mediaVars, demoVars, accountsVars>>

Spec == Init /\ [][Next]_<<turn, mediaVars, demoVars, accountsVars, catalogueVars>>

\* The inductive invariants of the four parts.
PartsTypeOK == MediaInductive /\ DemoInductive /\ AccountsInductive /\ CatalogueInductive
=============================================================================
