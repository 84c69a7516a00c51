------------------------------ MODULE Accounts ------------------------------
(***************************************************************************)
(* The rows of users_user and their writers (users/models.py, managers.py, *)
(* admin.py, serializers.py): creation, the owner's profile, the admin's   *)
(* form and the admin's password form.  Each writer reads the row first    *)
(* and saves later, without a lock; save() writes only the fields named in *)
(* update_fields.  How passwords are proved and revoked is in Credentials. *)
(***************************************************************************)
EXTENDS Integers

CONSTANTS
    AccountIds, NoAccount,
    Addresses,      \* spellings of e-mail addresses
    Normal,         \* address -> normalize_email: one for all spellings
    NoAddress,
    MaxRequests,    \* bound: how many requests come
    Writers         \* requests that may write at the same time

ASSUME AccountsAssumption ==
    /\ Normal \in [Addresses -> Addresses]
    /\ \A e \in Addresses : Normal[Normal[e]] = Normal[e]
    /\ MaxRequests \in Nat
    /\ NoAddress \notin Addresses /\ NoAccount \notin AccountIds

VARIABLES
    account,    \* id -> its row
    write,      \* writer -> the request it serves
    requests    \* how many have come

accountsVars == <<account, write, requests>>

----------------------------------------------------------------------------
\* name: what the owner may edit (names, telephone, picture); rights: is_active, and
\* with it role, is_staff and is_superuser, which the same writer sets.
Fields == {"email", "name", "rights", "password"}

Rights == {"active", "inactive"}

Unborn == [life |-> "unborn", email |-> NoAddress, name |-> 0, rights |-> "active", password |-> 0]

\* instance: the object in memory, with what was sent already set; fields: its
\* update_fields.  create inserts, and its fields are all.
NoWrite == [pc |-> "idle", op |-> "none", id |-> NoAccount, instance |-> Unborn, fields |-> {}]

Living == {i \in AccountIds : account[i].life = "live"}

\* Rows of an early release may differ in case only; the column is unique as it is.
AccountsInit ==
    /\ account \in [AccountIds -> {Unborn} \cup {[Unborn EXCEPT !.life = "live", !.email = e] : e \in Addresses}]
    /\ \A i, j \in Living : account[i].email = account[j].email => i = j
    /\ write = [w \in Writers |-> NoWrite]
    /\ requests = 0

\* get_by_natural_key: these are the accounts an address signs in to; of two, neither.
Owners(e) == {i \in Living : Normal[account[i].email] = Normal[e]}

Idles(w) == write[w].pc = "idle" /\ requests < MaxRequests

Done(w) ==
    /\ write' = [write EXCEPT ![w] = NoWrite]
    /\ UNCHANGED <<account, requests>>

Loaded(w, op, next, id, instance, fields) ==
    /\ write' = [write EXCEPT ![w] = [pc |-> next, op |-> op, id |-> id, instance |-> instance, fields |-> fields]]
    /\ requests' = requests + 1
    /\ UNCHANGED account

(***************************************************************************)
(* Reading.                                                                *)
(***************************************************************************)
\* ProfileView PATCH: the row was read by the authentication,
\* which lets no inactive account in.  Without data nothing is saved.
ProfileLoad(w) ==
    /\ Idles(w)
    /\ \E i \in Living, name \in {0, 1} :
           /\ account[i].rights = "active"
           /\ Loaded(w, "profile", "write", i, [account[i] EXCEPT !.name = name], {"name"})

\* The change form: what was typed on a page that may be old, against the row now.
\* changed_data decides; the password is not a field of this form.
AdminLoad(w) ==
    /\ Idles(w)
    /\ \E i \in Living, e \in Addresses, name \in {0, 1}, rights \in Rights :
           LET form == [account[i] EXCEPT !.email = e, !.name = name, !.rights = rights]
               changed == {f \in Fields : form[f] # account[i][f]}
           IN  /\ changed # {}
               /\ Loaded(w, "admin", "check", i, form, changed)

\* UserAdminPasswordChangeForm, and the owner's change of Credentials.
PasswordLoad(w) ==
    /\ Idles(w)
    /\ \E i \in Living :
           Loaded(w, "password", "write", i, [account[i] EXCEPT !.password = 1], {"password"})

\* create_user, create_superuser, the add form, a confirmed signup.
CreateLoad(w) ==
    /\ Idles(w)
    /\ \E i \in AccountIds, e \in Addresses :
           /\ account[i].life = "unborn" /\ \A v \in Writers : write[v].op = "create" => write[v].id # i
           /\ Loaded(w, "create", "check", i, [Unborn EXCEPT !.life = "live", !.email = e], Fields)

(***************************************************************************)
(* Saving.                                                                 *)
(***************************************************************************)
\* Mutant of Normalized: the address is stored as it was typed.
AsTyped(e) == e

Normalized(e) == Normal[e]

\* validate_unique of the form and the check inside save(): by address in any case,
\* and only for the fields it was given; the row itself does not count.
CheckAddress(w) ==
    /\ write[w].pc = "check"
    /\ LET r == write[w]
       IN  IF Owners(r.instance.email) \ {r.id} # {} THEN Done(w)
           ELSE /\ write' = [write EXCEPT ![w].pc = "write", ![w].instance.email =
                                                IF "email" \in r.fields THEN Normalized(@) ELSE @]
                /\ UNCHANGED <<account, requests>>

\* Mutant of Written: the whole object is saved.
WholeObject(r, row) == r.instance

\* UPDATE ... SET the update_fields.
Written(r, row) ==
    [row EXCEPT !.email = IF "email" \in r.fields THEN r.instance.email ELSE @,
                !.name = IF "name" \in r.fields THEN r.instance.name ELSE @,
                !.rights = IF "rights" \in r.fields THEN r.instance.rights ELSE @,
                !.password = IF "password" \in r.fields THEN r.instance.password ELSE @]

\* The unique column, compared letter by letter.
Taken(r) == "email" \in r.fields /\ \E j \in Living \ {r.id} : account[j].email = r.instance.email

\* A row that has gone is not updated: NotUpdated, which the profile answers with 401.
Save(w) ==
    /\ write[w].pc = "write"
    /\ LET r == write[w]
       IN  \/ /\ ~ Taken(r)
              /\ r.op = "create" \/ r.id \in Living
              /\ account' = [account EXCEPT ![r.id] = IF r.op = "create" THEN r.instance ELSE Written(r, @)]
              /\ write' = [write EXCEPT ![w] = NoWrite]
              /\ UNCHANGED requests
           \/ /\ Taken(r) \/ (r.op # "create" /\ r.id \notin Living)
              /\ Done(w)

\* Ids are not used again.
DeleteAccount ==
    /\ \E i \in Living : account' = [account EXCEPT ![i] = [Unborn EXCEPT !.life = "gone"]]
    /\ UNCHANGED <<write, requests>>

AccountsNext ==
    \/ \E w \in Writers :
           \/ ProfileLoad(w) \/ AdminLoad(w) \/ PasswordLoad(w) \/ CreateLoad(w)
           \/ CheckAddress(w) \/ Save(w)
    \/ DeleteAccount

AccountsSpec == AccountsInit /\ [][AccountsNext]_accountsVars

----------------------------------------------------------------------------
(* Properties.                                                             *)

Row == [ life : {"unborn", "live", "gone"}, email : Addresses \cup {NoAddress},
         name : {0, 1}, rights : Rights, password : {0, 1} ]

Request == [ pc : {"idle", "check", "write"}, op : {"none", "profile", "admin", "password", "create"},
             id : AccountIds \cup {NoAccount}, instance : Row, fields : SUBSET Fields ]

\* The variables keep their types, and no two rows have the same address.
AccountsTypeOK ==
    /\ account \in [AccountIds -> Row]
    /\ write \in [Writers -> Request]
    /\ requests \in 0..MaxRequests
    /\ \A i, j \in Living : account[i].email = account[j].email => i = j

\* The check before the save and the save are apart and the column is unique only
\* letter by letter, yet no address comes to stand for two accounts: who shares one
\* with another has shared it since the early release.
AddressesStayUnique ==
    [][account' # account => \A e \in Addresses : \A i, j \in Owners(e)' :
           i # j => {i, j} \subseteq Owners(e)]_accountsVars

\* However late a request saves the object it has read, the row keeps every field
\* the request did not name as other requests have left it (the owner's edit neither
\* restores rights nor an old password), and a deleted account does not come back.
SavesTouchOnlyTheirFields ==
    [][account' # account => \A i \in AccountIds :
           /\ account[i].life = "gone" => account'[i] = account[i]
           /\ i \in Living /\ account'[i].life = "live" =>
                  \A f \in Fields : account'[i][f] # account[i][f] =>
                      \E w \in Writers : /\ write[w].pc = "write" /\ write'[w].pc = "idle"
                                         /\ write[w].id = i /\ f \in write[w].fields]_accountsVars

----------------------------------------------------------------------------
(* The inductive invariant behind the two action properties.               *)

LivingOK == \A i \in Living : account[i].email \in Addresses

\* What a request relies on until it writes: a new row has an id of its own, and an
\* address that passed the check is shared with none but rows that spell it alike.
RequestOK(w) ==
    LET r == write[w]
    IN  /\ r.pc = "idle" => r = NoWrite
        /\ r.pc # "idle" => r.id \in AccountIds
        /\ r.op = "create" => /\ account[r.id].life = "unborn"
                              /\ r.instance.life = "live" /\ r.fields = Fields
                              /\ \A v \in Writers \ {w} : write[v].op = "create" => write[v].id # r.id
        /\ "email" \in r.fields => r.instance.email \in Addresses
        /\ "email" \in r.fields /\ r.pc = "write" =>
               /\ Normal[r.instance.email] = r.instance.email
               /\ \A j \in Owners(r.instance.email) \ {r.id} : account[j].email = r.instance.email

RequestsOK == \A w \in Writers : RequestOK(w)

AccountsInductive == AccountsTypeOK /\ LivingOK /\ RequestsOK
=============================================================================
