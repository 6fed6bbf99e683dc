------------------------------ MODULE Accounts ------------------------------
(***************************************************************************)
(* The users of the admin realm, with the roles they hold and the          *)
(* commissions in their staff profile: users_controller.py.  The realm has *)
(* no unique key on the e-mail and a deleted user keeps its row.  Names,   *)
(* phones and the status are columns that no check here reads.             *)
(***************************************************************************)
EXTENDS Requests

CONSTANTS
    User,     \* rows that the table users may hold
    Email,    \* e-mails
    Role,     \* roles of the admin guard
    Vendor    \* the roles vendedor_*, which need commissions

ASSUME VendorAssumption == Vendor \subseteq Role

VARIABLES
    accounts,   \* users: e-mail and whether deleted, or NoAccount
    staff,      \* staff_profiles: "none", or whether it is "with" or "without" commissions
    held        \* model_has_roles: the roles of each user

accountVars == <<accounts, staff, held>>

NoAccount == [email |-> "none"]
Account   == [email : Email, deleted : BOOLEAN]

-----------------------------------------------------------------------------
Accounts    == {u \in User : accounts[u] # NoAccount}
Live        == {u \in Accounts : ~accounts[u].deleted}
FindUser(e) == {u \in Live : accounts[u].email = e}

\* _validate_vendor_commissions.
Agreed(roles, commissions) == roles \cap Vendor # {} => commissions

StoreAccount(p, email, roles, commissions) ==
    /\ Free(p)
    /\ FindUser(email) = {}
    /\ Agreed(roles, commissions)
    /\ Go(p, Insert("accounts", [email |-> email, roles |-> roles,
                                 commissions |-> commissions]))
    /\ UNCHANGED <<raced, accountVars>>

\* sent holds the set of roles in the body, or nothing when the body has none:
\* the commissions are then written unchecked.  _sync_roles adds and removes
\* what the user lacks and has too much.
Edit(p, u, account, profile, sent) ==
    LET roles == IF sent = {} THEN held[u] ELSE UNION sent IN
    Go(p, Update("accounts", u,
                 [account |-> Changes(accounts[u], account),
                  profile |-> Changes([value |-> staff[u]], [value |-> profile]),
                  insert  |-> profile # "none" /\ staff[u] = "none",
                  sent    |-> sent,
                  add     |-> roles \ held[u],
                  remove  |-> held[u] \ roles]))

UpdateAccountMutant(p, u, email, sent, commissions) ==
    /\ Free(p)
    /\ u \in Live
    /\ sent # {} => Agreed(UNION sent, commissions)
    /\ Edit(p, u, [accounts[u] EXCEPT !.email = email],
            IF commissions THEN "with" ELSE "without", sent)
    /\ UNCHANGED <<raced, accountVars>>

UpdateAccount(p, u, email, sent, commissions) ==
    /\ Free(p)
    /\ u \in Live
    /\ FindUser(email) \subseteq {u}
    /\ sent # {} => Agreed(UNION sent, commissions)
    /\ Edit(p, u, [accounts[u] EXCEPT !.email = email],
            IF commissions THEN "with" ELSE "without", sent)
    /\ UNCHANGED <<raced, accountVars>>

DestroyAccount(p, u) ==
    /\ Free(p)
    /\ u \in Live
    /\ Edit(p, u, [accounts[u] EXCEPT !.deleted = TRUE], staff[u], {})
    /\ UNCHANGED <<raced, accountVars>>

\* Nobody looks whether the e-mail is in use by now.
RestoreAccount(p, u) ==
    /\ Free(p)
    /\ u \in Accounts \ Live
    /\ Edit(p, u, [accounts[u] EXCEPT !.deleted = FALSE], staff[u], {})
    /\ UNCHANGED <<raced, accountVars>>

-----------------------------------------------------------------------------
CommitInsert(row) ==
    \E u \in User \ Accounts :
        /\ accounts' = [accounts EXCEPT ![u] = [email |-> row.email, deleted |-> FALSE]]
        /\ held' = [held EXCEPT ![u] = row.roles]
        /\ \E profile \in IF row.commissions THEN {"with"} ELSE {"none", "without"} :
             staff' = [staff EXCEPT ![u] = profile]

CommitEditMutant(u, write) ==
    IF write.insert /\ staff[u] # "none" THEN UNCHANGED accountVars
    ELSE /\ accounts' = [accounts EXCEPT ![u] = Merge(write.account, @)]
         /\ staff' = [staff EXCEPT ![u] = Merge(write.profile, [value |-> @]).value]
         /\ held' = [held EXCEPT ![u] = @ \cup write.add]

\* A second first profile of the user breaks the primary key and takes the
\* request down.
CommitEdit(u, write) ==
    IF write.insert /\ staff[u] # "none" THEN UNCHANGED accountVars
    ELSE /\ accounts' = [accounts EXCEPT ![u] = Merge(write.account, @)]
         /\ staff' = [staff EXCEPT ![u] = Merge(write.profile, [value |-> @]).value]
         /\ held' = [held EXCEPT ![u] = (@ \ write.remove) \cup write.add]

CommitAccount(p) ==
    /\ Pending(p, "accounts")
    /\ IF request[p].op = "insert" THEN CommitInsert(request[p].row)
                                   ELSE CommitEdit(request[p].id, request[p].write)
    /\ Commit(p, "accounts")

-----------------------------------------------------------------------------
AccountsInit ==
    /\ accounts = [u \in User |-> NoAccount]
    /\ staff = [u \in User |-> "none"]
    /\ held = [u \in User |-> {}]

Sent == {{}} \cup {{roles} : roles \in SUBSET Role}

\* The checks on e-mails read neither roles nor profiles and the other way
\* round: a behaviour exercises the one or the other, and for roles one user
\* is enough.
EmailsNext(p) ==
    \/ \E email \in Email : StoreAccount(p, email, {}, FALSE)
    \/ \E u \in Live, email \in Email : UpdateAccount(p, u, email, {}, FALSE)
    \/ \E u \in User : DestroyAccount(p, u) \/ RestoreAccount(p, u)
    \/ CommitAccount(p)

RolesNext(p) ==
    \/ /\ Accounts = {}
       /\ \E email \in Email, roles \in SUBSET Role, commissions \in BOOLEAN :
            StoreAccount(p, email, roles, commissions)
    \/ \E u \in Live, sent \in Sent, commissions \in BOOLEAN :
         UpdateAccount(p, u, accounts[u].email, sent, commissions)
    \/ CommitAccount(p)

-----------------------------------------------------------------------------
(***************************************************************************)
(* Properties.                                                             *)
(***************************************************************************)
AccountsTypeOK ==
    /\ accounts \in [User -> Account \cup {NoAccount}]
    /\ staff \in [User -> {"none", "with", "without"}]
    /\ held \in [User -> SUBSET Role]
    /\ \A u \in User \ Accounts : staff[u] = "none" /\ held[u] = {}

Landing(p) == Pending(p, "accounts") /\ request'[p] = Idle

Clashes == {pair \in Live \X Live : /\ pair[1] # pair[2]
                                    /\ accounts[pair[1]].email = accounts[pair[2]].email}

(***************************************************************************)
(* Two live users come to share an e-mail, after which neither can log in  *)
(* (the query expects one row), only by a write that was overtaken or by   *)
(* restoring a deleted user.                                               *)
(***************************************************************************)
Restores(write) == write.account = {<<"deleted", FALSE>>}

EmailClashHasACause ==
    [][~(Clashes' \subseteq Clashes) =>
         \E p \in Proc : /\ Landing(p)
                         /\ \/ ~request[p].fresh
                            \/ request[p].op = "update" /\ Restores(request[p].write)]_<<accountVars, request>>

(***************************************************************************)
(* A user with a vendor role loses its commissions, or gets the role       *)
(* without them, only by a write that was overtaken or by an update whose  *)
(* body has no roles, which is not validated.                              *)
(***************************************************************************)
Unpaid == {u \in Accounts : held[u] \cap Vendor # {} /\ staff[u] # "with"}

UnpaidVendorHasACause ==
    [][~(Unpaid' \subseteq Unpaid) =>
         \E p \in Proc : /\ Landing(p)
                         /\ \/ ~request[p].fresh
                            \/ request[p].op = "update" /\ request[p].write.sent = {}]_<<accountVars, request>>

(***************************************************************************)
(* The roles of a user change to a set that somebody sent, unless two      *)
(* updates overlap: each adds and removes what it saw, and the outcome is  *)
(* a set nobody chose.                                                     *)
(***************************************************************************)
RolesAreSomebodysChoice ==
    [][\A u \in Accounts : held'[u] # held[u] =>
         \E p \in Proc : /\ Landing(p)
                         /\ \/ ~request[p].fresh
                            \/ request[p].op = "update" /\ held'[u] \in request[p].write.sent]_<<accountVars, request>>
=============================================================================
