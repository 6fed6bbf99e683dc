------------------------ MODULE AdministrationProofs ------------------------
(***************************************************************************)
(* The properties of the administration, for any number of users, roles,   *)
(* passwords, companies and overlapping requests.                          *)
(*                                                                         *)
(* The parts share only the requests and the marks of races, so each has   *)
(* an invariant of its own, on its tables and on the requests that will    *)
(* write them, which a step of another part cannot disturb (Elsewhere).    *)
(* What a request decided is part of the invariant as long as it is fresh: *)
(* then no write to the table has landed since, and what the checks found  *)
(* is still true when the request writes.                                  *)
(***************************************************************************)
EXTENDS Administration, WellFoundedInduction, SequenceTheorems, TLAPS

-----------------------------------------------------------------------------
(***************************************************************************)
(* Requests.                                                               *)
(***************************************************************************)
Table == {"accounts", "passwords", "roles", "permissions", "role_has_permissions",
          "companies", "company_commission_users"}

RequestsOK ==
    /\ DOMAIN request = Proc
    /\ \A p \in Proc : /\ "table" \in DOMAIN request[p]
                       /\ Free(p) \/ request[p].table \in Table

\* A step that leaves the tables of T and the requests that write them alone.
Elsewhere(T) ==
    /\ DOMAIN request' = Proc
    /\ \A q \in Proc : request'[q].table \in T => request'[q] = request[q]
    /\ raced \cap T \subseteq raced'

LEMMA Begun ==
    ASSUME RequestsOK, NEW p \in Proc, NEW r, Go(p, r), UNCHANGED raced,
           "table" \in DOMAIN r, r = Idle \/ r.table \in Table
    PROVE  /\ RequestsOK'
           /\ request'[p] = r
           /\ \A q \in Proc : q # p => request'[q] = request[q]
           /\ \A T \in SUBSET Table : r.table \notin T => Elsewhere(T)
<1>1. /\ request'[p] = r /\ DOMAIN request' = Proc
      /\ \A q \in Proc : q # p => request'[q] = request[q]
  BY DEF RequestsOK, Go
<1> QED
  BY <1>1 DEF RequestsOK, Elsewhere, Free

LEMMA Landed ==
    ASSUME RequestsOK, NEW p \in Proc, NEW t \in Table, Pending(p, t), Commit(p, t)
    PROVE  /\ RequestsOK'
           /\ request'[p] = Idle
           /\ \A q \in Proc : request'[q].table = t =>
                /\ request[q].table = t
                /\ request'[q] = [request[q] EXCEPT !.fresh = FALSE]
           /\ raced' = IF request[p].fresh THEN raced ELSE raced \cup {t}
           /\ \A T \in SUBSET Table : t \notin T => Elsewhere(T)
<1>1. /\ request'[p] = Idle /\ DOMAIN request' = Proc
      /\ \A q \in Proc : q # p /\ request[q].table = t =>
           request'[q] = [request[q] EXCEPT !.fresh = FALSE]
      /\ \A q \in Proc : q # p /\ request[q].table # t => request'[q] = request[q]
  BY DEF RequestsOK, Commit
<1>2. \A q \in Proc : q # p /\ request[q].table = t =>
        /\ DOMAIN request'[q] = DOMAIN request[q]
        /\ request'[q].table = t
  BY <1>1 DEF RequestsOK
<1>3. Idle.table = "none" /\ "table" \in DOMAIN Idle /\ "none" \notin Table
  BY DEF Idle, Table
<1>4. RequestsOK'
  BY <1>1, <1>2, <1>3 DEF RequestsOK, Free
<1>5. raced' = IF request[p].fresh THEN raced ELSE raced \cup {t}
  BY DEF Commit
<1>6. \A q \in Proc : request'[q].table = t =>
        /\ request[q].table = t
        /\ request'[q] = [request[q] EXCEPT !.fresh = FALSE]
  BY <1>1, <1>3
<1>7. ASSUME NEW T \in SUBSET Table, t \notin T PROVE Elsewhere(T)
  <2>1. ASSUME NEW q \in Proc, request'[q].table \in T PROVE request'[q] = request[q]
    BY <1>1, <1>2, <1>3, <1>7, <2>1
  <2> QED
    BY <1>1, <1>5, <1>7, <2>1 DEF Elsewhere
<1> QED
  BY <1>1, <1>4, <1>5, <1>6, <1>7

LEMMA Dropped ==
    ASSUME RequestsOK, NEW p \in Proc, Drop(p)
    PROVE  RequestsOK' /\ \A T \in SUBSET Table : Elsewhere(T)
<1>1. Idle.table = "none" /\ "table" \in DOMAIN Idle /\ "none" \notin Table
  BY DEF Idle, Table
<1> QED
  BY <1>1, Begun DEF Drop

-----------------------------------------------------------------------------
(***************************************************************************)
(* What the ORM writes.                                                    *)
(***************************************************************************)
\* The value of a written column is one of those in the write.
LEMMA MergeColumn ==
    ASSUME NEW write, NEW row, NEW f \in DOMAIN row,
           \A w \in write : w = <<w[1], w[2]>>
    PROVE  /\ DOMAIN Merge(write, row) = DOMAIN row
           /\ Merge(write, row)[f] = row[f] \/ <<f, Merge(write, row)[f]>> \in write
<1>1. DOMAIN Merge(write, row) = DOMAIN row
  BY DEF Merge
<1>2. CASE Written(write, f) = {}
  BY <1>1, <1>2 DEF Merge
<1>3. CASE Written(write, f) # {}
  <2>1. Merge(write, row)[f] \in Written(write, f)
    BY <1>3 DEF Merge
  <2> QED
    BY <1>1, <2>1 DEF Written
<1> QED
  BY <1>2, <1>3

\* What was loaded and is still there becomes what the request decided.
LEMMA MergeChanges ==
    ASSUME NEW D, NEW row, NEW new,
           row = [f \in D |-> row[f]], new = [f \in D |-> new[f]]
    PROVE  Merge(Changes(row, new), row) = new
<1>1. DOMAIN row = D /\ DOMAIN new = D
  OBVIOUS
<1>2. ASSUME NEW f \in D PROVE Merge(Changes(row, new), row)[f] = new[f]
  <2>1. \A w \in Changes(row, new) : w[1] = f => new[f] # row[f] /\ w[2] = new[f]
    BY <1>1 DEF Changes
  <2>2. new[f] # row[f] => <<f, new[f]>> \in Changes(row, new)
    BY <1>1 DEF Changes
  <2>3. Written(Changes(row, new), f) = IF new[f] # row[f] THEN {new[f]} ELSE {}
    BY <2>1, <2>2 DEF Written
  <2> QED
    BY <1>1, <2>3 DEF Merge
<1>3. Merge(Changes(row, new), row) = [f \in D |-> Merge(Changes(row, new), row)[f]]
  BY <1>1 DEF Merge
<1> QED
  BY <1>2, <1>3

-----------------------------------------------------------------------------
(***************************************************************************)
(* Accounts.                                                               *)
(***************************************************************************)
AccountColumn == ({"email"} \X Email) \cup ({"deleted"} \X BOOLEAN)
ProfileColumn == {"value"} \X {"none", "with", "without"}

AccountWrite  == [account : SUBSET AccountColumn, profile : SUBSET ProfileColumn,
                  insert : BOOLEAN, sent : SUBSET SUBSET Role,
                  add : SUBSET Role, remove : SUBSET Role]

NewAccount    == [table : {"accounts"}, op : {"insert"}, fresh : BOOLEAN,
                  row : [email : Email, roles : SUBSET Role, commissions : BOOLEAN]]
AccountEdit   == [table : {"accounts"}, op : {"update"}, fresh : BOOLEAN,
                  id : User, write : AccountWrite]

\* The columns as a request leaves them that nobody has overtaken.
AccountAfter(r) == Merge(r.write.account, accounts[r.id])
ProfileAfter(r) == Merge(r.write.profile, [value |-> staff[r.id]]).value
RolesAfter(r)   == (held[r.id] \ r.write.remove) \cup r.write.add

NewAccountJudged(row) == FindUser(row.email) = {} /\ Agreed(row.roles, row.commissions)

AccountEditJudged(r) ==
    /\ r.write.insert => staff[r.id] = "none"
    /\ \/ Restores(r.write) \/ AccountAfter(r).deleted
       \/ FindUser(AccountAfter(r).email) \subseteq {r.id}
    /\ IF r.write.sent = {} THEN RolesAfter(r) = held[r.id]
       ELSE /\ RolesAfter(r) \in r.write.sent
            /\ RolesAfter(r) \cap Vendor # {} => ProfileAfter(r) = "with"

AccountRequest(r) ==
    \/ r \in NewAccount /\ (r.fresh => NewAccountJudged(r.row))
    \/ /\ r \in AccountEdit /\ r.id \in Accounts
       /\ r.fresh => AccountEditJudged(r)

AccountsInv ==
    /\ AccountsTypeOK
    /\ \A p \in Proc : Pending(p, "accounts") => AccountRequest(request[p])

LEMMA AccountsElsewhere ==
    ASSUME AccountsInv, Elsewhere({"accounts"}), UNCHANGED accountVars
    PROVE  AccountsInv'
<1>1. \A r : AccountRequest(r) => AccountRequest(r)'
  BY DEF accountVars, AccountRequest, NewAccountJudged, AccountEditJudged, AccountAfter,
         ProfileAfter, RolesAfter, FindUser, Live, Accounts
<1>2. AccountsTypeOK'
  BY DEF accountVars, AccountsInv, AccountsTypeOK, Accounts
<1> QED
  BY <1>1, <1>2 DEF AccountsInv, Elsewhere, Pending

LEMMA AccountsBegin ==
    ASSUME AccountsInv, RequestsOK, NEW p \in Proc, NEW r, Go(p, r),
           AccountRequest(r), UNCHANGED accountVars
    PROVE  AccountsInv'
<1>1. \A s : AccountRequest(s) => AccountRequest(s)'
  BY DEF accountVars, AccountRequest, NewAccountJudged, AccountEditJudged, AccountAfter,
         ProfileAfter, RolesAfter, FindUser, Live, Accounts
<1>2. AccountsTypeOK'
  BY DEF accountVars, AccountsInv, AccountsTypeOK, Accounts
<1>3. \A q \in Proc : request'[q] = IF q = p THEN r ELSE request[q]
  BY DEF RequestsOK, Go
<1> QED
  BY <1>1, <1>2, <1>3 DEF AccountsInv, Pending

\* The row of an account, with or without some of its columns written.
LEMMA AccountColumns ==
    ASSUME NEW row \in Account, NEW write \in SUBSET AccountColumn
    PROVE  Merge(write, row) \in Account
<1>1. \A w \in write : w = <<w[1], w[2]>>
  BY DEF AccountColumn
<1>2. DOMAIN row = {"email", "deleted"}
  BY DEF Account
<1>3. DOMAIN Merge(write, row) = {"email", "deleted"}
  BY <1>2 DEF Merge
<1>4. Merge(write, row).email \in Email
  <2>1. \/ Merge(write, row).email = row.email
        \/ <<"email", Merge(write, row).email>> \in AccountColumn
    BY <1>1, <1>2, MergeColumn
  <2> QED
    BY <2>1 DEF AccountColumn, Account
<1>5. Merge(write, row).deleted \in BOOLEAN
  <2>1. \/ Merge(write, row).deleted = row.deleted
        \/ <<"deleted", Merge(write, row).deleted>> \in AccountColumn
    BY <1>1, <1>2, MergeColumn
  <2> QED
    BY <2>1 DEF AccountColumn, Account
<1>6. Merge(write, row) = [f \in {"email", "deleted"} |-> Merge(write, row)[f]]
  BY <1>2 DEF Merge
<1> HIDE DEF Account
<1> DEFINE m == Merge(write, row)
<1>7. m = [email |-> m.email, deleted |-> m.deleted]
  BY <1>3, <1>6
<1> QED
  BY <1>4, <1>5, <1>7 DEF Account

LEMMA ProfileColumns ==
    ASSUME NEW value \in {"none", "with", "without"}, NEW write \in SUBSET ProfileColumn
    PROVE  Merge(write, [value |-> value]).value \in {"none", "with", "without"}
<1>1. \A w \in write : w = <<w[1], w[2]>>
  BY DEF ProfileColumn
<1>2. \/ Merge(write, [value |-> value]).value = value
      \/ <<"value", Merge(write, [value |-> value]).value>> \in ProfileColumn
  BY <1>1, MergeColumn
<1> QED
  BY <1>2 DEF ProfileColumn

\* What an edit decides is what it will write if nobody overtakes it.
LEMMA AccountsEdit ==
    ASSUME AccountsInv, NEW p \in Proc, NEW u \in Accounts, NEW account \in Account,
           NEW profile \in {"none", "with", "without"}, NEW sent \in Sent,
           Edit(p, u, account, profile, sent),
           \/ Changes(accounts[u], account) = {<<"deleted", FALSE>>} \/ account.deleted
           \/ FindUser(account.email) \subseteq {u},
           sent # {} /\ (UNION sent) \cap Vendor # {} => profile = "with"
    PROVE  \E r : Go(p, r) /\ AccountRequest(r)
<1> DEFINE roles == IF sent = {} THEN held[u] ELSE UNION sent
           write == [account |-> Changes(accounts[u], account),
                     profile |-> Changes([value |-> staff[u]], [value |-> profile]),
                     insert  |-> profile # "none" /\ staff[u] = "none",
                     sent    |-> sent,
                     add     |-> roles \ held[u],
                     remove  |-> held[u] \ roles]
           r     == Update("accounts", u, write)
<1>1. Go(p, r)
  BY DEF Edit
<1>2. /\ accounts[u] \in Account /\ staff[u] \in {"none", "with", "without"}
      /\ held[u] \subseteq Role /\ u \in User
  BY DEF AccountsInv, AccountsTypeOK, Accounts
<1>3. /\ sent \in SUBSET SUBSET Role /\ roles \subseteq Role
      /\ sent = {} => roles = held[u]
      /\ sent # {} => roles = UNION sent /\ roles \in sent
  <2>1. CASE sent = {}
    BY <1>2, <2>1
  <2>2. CASE sent # {}
    <3>1. PICK chosen \in SUBSET Role : sent = {chosen}
      BY <2>2 DEF Sent
    <3>2. UNION sent = chosen
      BY <3>1
    <3> QED
      BY <2>2, <3>1, <3>2
  <2> QED
    BY <2>1, <2>2
<1>4. write.account \subseteq AccountColumn
  BY <1>2 DEF Changes, AccountColumn, Account
<1>5. write.profile \subseteq ProfileColumn
  BY <1>2 DEF Changes, ProfileColumn
<1>6. r \in AccountEdit
  <2>1. write.insert \in BOOLEAN /\ write.add \subseteq Role /\ write.remove \subseteq Role
    BY <1>2, <1>3
  <2>2. write \in AccountWrite
    BY <1>3, <1>4, <1>5, <2>1 DEF AccountWrite
  <2> HIDE DEF write
  <2> QED
    BY <1>2, <2>2 DEF AccountEdit, Update
<1>7. AccountAfter(r) = account
  <2>1. /\ accounts[u] = [f \in {"email", "deleted"} |-> accounts[u][f]]
        /\ account = [f \in {"email", "deleted"} |-> account[f]]
    BY <1>2 DEF Account
  <2> QED
    BY <2>1, MergeChanges DEF AccountAfter, Update
<1>8. ProfileAfter(r) = profile
  <2> DEFINE was == [value |-> staff[u]]
             new == [value |-> profile]
  <2>1. Merge(Changes(was, new), was) = new
    <3>1. was = [f \in {"value"} |-> was[f]] /\ new = [f \in {"value"} |-> new[f]]
      OBVIOUS
    <3> HIDE DEF was, new
    <3> QED
      BY <3>1, MergeChanges
  <2> QED
    BY <2>1 DEF ProfileAfter, Update
<1>9. RolesAfter(r) = roles
  BY <1>2, <1>3 DEF RolesAfter, Update
<1>10. AccountEditJudged(r)
  <2>1. /\ r.id = u /\ r.write = write /\ write.sent = sent
        /\ write.insert => staff[u] = "none"
        /\ write.account = Changes(accounts[u], account)
    BY DEF Update
  <2> HIDE DEF r, write, roles
  <2>2. \/ Restores(r.write) \/ AccountAfter(r).deleted
        \/ FindUser(AccountAfter(r).email) \subseteq {r.id}
    BY <1>7, <2>1 DEF Restores
  <2>3. IF r.write.sent = {} THEN RolesAfter(r) = held[r.id]
        ELSE /\ RolesAfter(r) \in r.write.sent
             /\ RolesAfter(r) \cap Vendor # {} => ProfileAfter(r) = "with"
    <3>1. CASE sent = {}
      BY <1>3, <1>9, <2>1, <3>1
    <3>2. CASE sent # {}
      <4>1. roles = UNION sent /\ roles \in sent
        BY <1>3, <3>2
      <4>2. RolesAfter(r) \in r.write.sent
        BY <1>9, <2>1, <4>1
      <4>3. RolesAfter(r) \cap Vendor # {} => ProfileAfter(r) = "with"
        BY <1>8, <1>9, <3>2, <4>1
      <4> QED
        BY <2>1, <3>2, <4>2, <4>3
    <3> QED
      BY <3>1, <3>2
  <2> QED
    BY <2>1, <2>2, <2>3 DEF AccountEditJudged
<1> QED
  <2>1. r.id = u
    BY DEF Update
  <2> HIDE DEF r
  <2> QED
    BY <1>1, <1>6, <1>10, <2>1 DEF AccountRequest

LEMMA AccountsBegun ==
    ASSUME AccountsInv, RequestsOK, NEW p \in Proc,
           \/ \E email \in Email, roles \in SUBSET Role, commissions \in BOOLEAN :
                StoreAccount(p, email, roles, commissions)
           \/ \E u \in Live, email \in Email, sent \in Sent, commissions \in BOOLEAN :
                UpdateAccount(p, u, email, sent, commissions)
           \/ \E u \in User : DestroyAccount(p, u) \/ RestoreAccount(p, u)
    PROVE  /\ AccountsInv' /\ UNCHANGED <<raced, accountVars>>
           /\ Free(p) /\ \E r : Go(p, r) /\ r \in NewAccount \cup AccountEdit
<1> SUFFICES /\ \E r : Go(p, r) /\ AccountRequest(r)
             /\ UNCHANGED <<raced, accountVars>> /\ Free(p)
  BY AccountsBegin DEF AccountRequest
<1>1. ASSUME NEW email \in Email, NEW roles \in SUBSET Role, NEW commissions \in BOOLEAN,
             StoreAccount(p, email, roles, commissions)
      PROVE  \E r : Go(p, r) /\ AccountRequest(r)
  <2> DEFINE row == [email |-> email, roles |-> roles, commissions |-> commissions]
             r   == Insert("accounts", row)
  <2>1. Go(p, r) /\ NewAccountJudged(row)
    BY <1>1 DEF StoreAccount, NewAccountJudged
  <2>2. r \in NewAccount /\ r.row = row
    BY DEF NewAccount, Insert
  <2> QED
    BY <2>1, <2>2 DEF AccountRequest
<1>2. ASSUME NEW u \in Live, NEW email \in Email, NEW sent \in Sent,
             NEW commissions \in BOOLEAN, UpdateAccount(p, u, email, sent, commissions)
      PROVE  \E r : Go(p, r) /\ AccountRequest(r)
  <2> DEFINE account == [accounts[u] EXCEPT !.email = email]
             profile == IF commissions THEN "with" ELSE "without"
  <2>1. u \in Accounts /\ accounts[u] \in Account
    BY DEF Live, Accounts, AccountsInv, AccountsTypeOK
  <2>2. account \in Account /\ account.email = email
    BY <2>1 DEF Account
  <2>3. Edit(p, u, account, profile, sent) /\ FindUser(account.email) \subseteq {u}
    BY <1>2, <2>2 DEF UpdateAccount
  <2>4. sent # {} /\ (UNION sent) \cap Vendor # {} => profile = "with"
    BY <1>2 DEF UpdateAccount, Agreed
  <2>5. profile \in {"none", "with", "without"}
    OBVIOUS
  <2> HIDE DEF account, profile
  <2> QED
    BY <2>1, <2>2, <2>3, <2>4, <2>5, AccountsEdit
<1>3. ASSUME NEW u \in User, DestroyAccount(p, u)
      PROVE  \E r : Go(p, r) /\ AccountRequest(r)
  <2> DEFINE account == [accounts[u] EXCEPT !.deleted = TRUE]
  <2>1. u \in Accounts /\ accounts[u] \in Account /\ staff[u] \in {"none", "with", "without"}
    BY <1>3 DEF DestroyAccount, Live, Accounts, AccountsInv, AccountsTypeOK
  <2>2. account \in Account /\ account.deleted
    BY <2>1 DEF Account
  <2>3. Edit(p, u, account, staff[u], {}) /\ {} \in Sent
    BY <1>3 DEF DestroyAccount, Sent
  <2> HIDE DEF account
  <2> QED
    BY <2>1, <2>2, <2>3, AccountsEdit
<1>4. ASSUME NEW u \in User, RestoreAccount(p, u)
      PROVE  \E r : Go(p, r) /\ AccountRequest(r)
  <2> DEFINE account == [accounts[u] EXCEPT !.deleted = FALSE]
  <2>1. /\ u \in Accounts /\ accounts[u] \in Account /\ accounts[u].deleted
        /\ staff[u] \in {"none", "with", "without"}
    BY <1>4 DEF RestoreAccount, Live, Accounts, AccountsInv, AccountsTypeOK
  <2>2. account \in Account
    BY <2>1 DEF Account
  <2>3. Changes(accounts[u], account) = {<<"deleted", FALSE>>}
    <3>1. /\ DOMAIN accounts[u] = {"email", "deleted"}
          /\ account.email = accounts[u].email /\ account["deleted"] = FALSE
          /\ account["email"] = accounts[u]["email"]
      BY <2>1 DEF Account
    <3>2. {f \in {"email", "deleted"} : account[f] # accounts[u][f]} = {"deleted"}
      <4> HIDE DEF account
      <4> QED
        BY <2>1, <3>1
    <3> HIDE DEF account
    <3> QED
      BY <3>1, <3>2 DEF Changes
  <2>4. Edit(p, u, account, staff[u], {}) /\ {} \in Sent
    BY <1>4 DEF RestoreAccount, Sent
  <2> HIDE DEF account
  <2> QED
    BY <2>1, <2>2, <2>3, <2>4, AccountsEdit
<1>5. UNCHANGED <<raced, accountVars>> /\ Free(p)
  BY DEF StoreAccount, UpdateAccount, DestroyAccount, RestoreAccount
<1> QED
  BY <1>1, <1>2, <1>3, <1>4, <1>5

-----------------------------------------------------------------------------
\* What a commit to the table does to the rows.
AccountLanding(r) ==
    \/ /\ r \in NewAccount
       /\ \E u \in User \ Accounts, profile \in {"none", "with", "without"} :
            /\ accounts' = [accounts EXCEPT ![u] = [email |-> r.row.email, deleted |-> FALSE]]
            /\ held' = [held EXCEPT ![u] = r.row.roles]
            /\ staff' = [staff EXCEPT ![u] = profile]
            /\ r.row.commissions => profile = "with"
       /\ r.fresh => NewAccountJudged(r.row)
    \/ /\ r \in AccountEdit
       /\ r.write.insert /\ staff[r.id] # "none"
       /\ UNCHANGED accountVars
    \/ /\ r \in AccountEdit /\ r.id \in Accounts
       /\ accounts' = [accounts EXCEPT ![r.id] = AccountAfter(r)]
       /\ staff' = [staff EXCEPT ![r.id] = ProfileAfter(r)]
       /\ held' = [held EXCEPT ![r.id] = RolesAfter(r)]
       /\ AccountAfter(r) \in Account /\ ProfileAfter(r) \in {"none", "with", "without"}
       /\ r.fresh => AccountEditJudged(r)

LEMMA AccountsLand ==
    ASSUME AccountsInv, NEW p \in Proc, CommitAccount(p)
    PROVE  AccountLanding(request[p])
<1> DEFINE r == request[p]
<1> SUFFICES AccountLanding(r)
  OBVIOUS
<1>1. AccountRequest(r)
  BY DEF CommitAccount, AccountsInv
<1>2. CASE r \in NewAccount
  <2>1. CommitInsert(r.row) /\ (r.fresh => NewAccountJudged(r.row))
    <3>1. r.op = "insert" /\ r \notin AccountEdit
      BY <1>2 DEF NewAccount, AccountEdit
    <3> QED
      BY <1>1, <3>1 DEF CommitAccount, AccountRequest
  <2>2. r.row.commissions \in BOOLEAN
    BY <1>2 DEF NewAccount
  <2> HIDE DEF r
  <2>3. PICK u \in User \ Accounts :
          /\ accounts' = [accounts EXCEPT ![u] = [email |-> r.row.email, deleted |-> FALSE]]
          /\ held' = [held EXCEPT ![u] = r.row.roles]
          /\ \E profile \in IF r.row.commissions THEN {"with"} ELSE {"none", "without"} :
               staff' = [staff EXCEPT ![u] = profile]
    BY <2>1 DEF CommitInsert
  <2>4. PICK profile \in {"none", "with", "without"} :
          /\ staff' = [staff EXCEPT ![u] = profile]
          /\ r.row.commissions => profile = "with"
    <3>1. CASE r.row.commissions
      BY <2>3, <3>1
    <3>2. CASE ~r.row.commissions
      BY <2>3, <3>2
    <3> QED
      BY <3>1, <3>2
  <2> QED
    BY <1>2, <2>1, <2>3, <2>4 DEF AccountLanding
<1>3. CASE r \in AccountEdit /\ r.id \in Accounts /\ (r.fresh => AccountEditJudged(r))
  <2>1. /\ r.op = "update" /\ r.write \in AccountWrite
    BY <1>3 DEF AccountEdit
  <2>2. CommitEdit(r.id, r.write)
    BY <2>1 DEF CommitAccount
  <2> HIDE DEF r
  <2>3. CASE r.write.insert /\ staff[r.id] # "none"
    BY <1>3, <2>2, <2>3 DEF CommitEdit, AccountLanding
  <2>4. CASE ~(r.write.insert /\ staff[r.id] # "none")
    <3>1. r.id \in User /\ accounts[r.id] \in Account /\ staff[r.id] \in {"none", "with", "without"}
      BY <1>3 DEF Accounts, AccountsInv, AccountsTypeOK
    <3>2. /\ accounts' = [accounts EXCEPT ![r.id] = AccountAfter(r)]
          /\ staff' = [staff EXCEPT ![r.id] = ProfileAfter(r)]
          /\ held' = [held EXCEPT ![r.id] = RolesAfter(r)]
      BY <2>2, <2>4, <3>1 DEF CommitEdit, AccountAfter, ProfileAfter, RolesAfter,
                              AccountsInv, AccountsTypeOK
    <3>3. r.write.account \in SUBSET AccountColumn /\ r.write.profile \in SUBSET ProfileColumn
      BY <2>1 DEF AccountWrite
    <3>4. AccountAfter(r) \in Account
      BY <3>1, <3>3, AccountColumns DEF AccountAfter
    <3>5. ProfileAfter(r) \in {"none", "with", "without"}
      BY <3>1, <3>3, ProfileColumns DEF ProfileAfter
    <3> QED
      BY <1>3, <3>2, <3>4, <3>5 DEF AccountLanding
  <2> QED
    BY <2>3, <2>4
<1> QED
  BY <1>1, <1>2, <1>3 DEF AccountRequest

LEMMA AccountsLanded ==
    ASSUME AccountsInv, RequestsOK, NEW p \in Proc, CommitAccount(p)
    PROVE  AccountsInv'
<1> DEFINE r == request[p]
<1>1. AccountLanding(r)
  BY AccountsLand
<1>2. NoAccount \notin Account
  BY DEF NoAccount, Account
<1>3. ASSUME r \in NewAccount PROVE r.row.email \in Email /\ r.row.roles \in SUBSET Role
  BY <1>3 DEF NewAccount
<1>4. ASSUME r \in AccountEdit, r.id \in Accounts PROVE RolesAfter(r) \in SUBSET Role
  <2>1. r.write.add \in SUBSET Role
    BY <1>4 DEF AccountEdit, AccountWrite
  <2>2. held[r.id] \in SUBSET Role
    BY <1>4 DEF Accounts, AccountsInv, AccountsTypeOK
  <2> QED
    BY <2>1, <2>2 DEF RolesAfter
<1> HIDE DEF r
<1>5. Accounts \subseteq Accounts' /\ AccountsTypeOK'
  <2>1. CASE /\ r \in NewAccount
             /\ \E u \in User \ Accounts, profile \in {"none", "with", "without"} :
                  /\ accounts' = [accounts EXCEPT ![u] = [email |-> r.row.email, deleted |-> FALSE]]
                  /\ held' = [held EXCEPT ![u] = r.row.roles]
                  /\ staff' = [staff EXCEPT ![u] = profile]
                  /\ r.row.commissions => profile = "with"
    <3>1. PICK u \in User \ Accounts, profile \in {"none", "with", "without"} :
            /\ accounts' = [accounts EXCEPT ![u] = [email |-> r.row.email, deleted |-> FALSE]]
            /\ held' = [held EXCEPT ![u] = r.row.roles]
            /\ staff' = [staff EXCEPT ![u] = profile]
      BY <2>1
    <3>2. [email |-> r.row.email, deleted |-> FALSE] \in Account
      BY <1>3, <2>1 DEF Account
    <3> QED
      BY <1>2, <1>3, <2>1, <3>1, <3>2 DEF Accounts, AccountsInv, AccountsTypeOK
  <2>2. CASE UNCHANGED accountVars
    BY <2>2 DEF accountVars, Accounts, AccountsInv, AccountsTypeOK
  <2>3. CASE /\ r \in AccountEdit /\ r.id \in Accounts
             /\ accounts' = [accounts EXCEPT ![r.id] = AccountAfter(r)]
             /\ staff' = [staff EXCEPT ![r.id] = ProfileAfter(r)]
             /\ held' = [held EXCEPT ![r.id] = RolesAfter(r)]
             /\ AccountAfter(r) \in Account
             /\ ProfileAfter(r) \in {"none", "with", "without"}
    BY <1>2, <1>4, <2>3 DEF Accounts, AccountsInv, AccountsTypeOK
  <2> QED
    BY <1>1, <2>1, <2>2, <2>3 DEF AccountLanding
<1>6. ASSUME NEW q \in Proc, Pending(q, "accounts")' PROVE AccountRequest(request[q])'
  <2>1. Commit(p, "accounts") /\ Pending(p, "accounts") /\ "accounts" \in Table
    BY DEF CommitAccount, Table
  <2>2. /\ Pending(q, "accounts")
        /\ request'[q] = [request[q] EXCEPT !.fresh = FALSE]
    BY <1>6, <2>1, Landed DEF Pending
  <2>3. AccountRequest(request[q])
    BY <2>2 DEF AccountsInv
  <2>4. CASE request[q] \in NewAccount
    <3>1. request'[q] \in NewAccount /\ request'[q].fresh = FALSE
      BY <2>2, <2>4 DEF NewAccount
    <3> QED
      BY <3>1 DEF AccountRequest
  <2>5. CASE request[q] \in AccountEdit /\ request[q].id \in Accounts
    <3>1. /\ request'[q] \in AccountEdit /\ request'[q].fresh = FALSE
          /\ request'[q].id = request[q].id
      BY <2>2, <2>5 DEF AccountEdit
    <3> QED
      BY <1>5, <2>5, <3>1 DEF AccountRequest
  <2> QED
    BY <2>3, <2>4, <2>5 DEF AccountRequest
<1> QED
  BY <1>5, <1>6 DEF AccountsInv

\* What EmailClashHasACause, UnpaidVendorHasACause and RolesAreSomebodysChoice
\* say of one step.
EmailStep ==
    ~(Clashes' \subseteq Clashes) =>
      \E p \in Proc : /\ Landing(p)
                      /\ \/ ~request[p].fresh
                         \/ request[p].op = "update" /\ Restores(request[p].write)

UnpaidStep ==
    ~(Unpaid' \subseteq Unpaid) =>
      \E p \in Proc : /\ Landing(p)
                      /\ \/ ~request[p].fresh
                         \/ request[p].op = "update" /\ request[p].write.sent = {}

RolesStep ==
    \A u \in Accounts : held'[u] # held[u] =>
      \E p \in Proc : /\ Landing(p)
                      /\ \/ ~request[p].fresh
                         \/ request[p].op = "update" /\ held'[u] \in request[p].write.sent

LEMMA AccountsSame ==
    ASSUME UNCHANGED accountVars
    PROVE  EmailStep /\ UnpaidStep /\ RolesStep
BY DEF accountVars, EmailStep, UnpaidStep, RolesStep, Clashes, Unpaid, Live, Accounts

LEMMA AccountsSteps ==
    ASSUME AccountsInv, RequestsOK, NEW p \in Proc, CommitAccount(p)
    PROVE  EmailStep /\ UnpaidStep /\ RolesStep
<1> DEFINE r == request[p]
<1>1. AccountLanding(r)
  BY AccountsLand
<1>2. Landing(p)
  <2>1. Commit(p, "accounts") /\ Pending(p, "accounts") /\ "accounts" \in Table
    BY DEF CommitAccount, Table
  <2> QED
    BY <2>1, Landed DEF Landing
<1>3. CASE ~r.fresh
  BY <1>2, <1>3 DEF EmailStep, UnpaidStep, RolesStep
<1>4. CASE /\ r \in NewAccount /\ NewAccountJudged(r.row)
           /\ \E u \in User \ Accounts, profile \in {"none", "with", "without"} :
                /\ accounts' = [accounts EXCEPT ![u] = [email |-> r.row.email, deleted |-> FALSE]]
                /\ held' = [held EXCEPT ![u] = r.row.roles]
                /\ staff' = [staff EXCEPT ![u] = profile]
                /\ r.row.commissions => profile = "with"
  <2> HIDE DEF r
  <2>1. PICK u \in User \ Accounts, profile \in {"none", "with", "without"} :
          /\ accounts' = [accounts EXCEPT ![u] = [email |-> r.row.email, deleted |-> FALSE]]
          /\ held' = [held EXCEPT ![u] = r.row.roles]
          /\ staff' = [staff EXCEPT ![u] = profile]
          /\ r.row.commissions => profile = "with"
    BY <1>4
  <2>2. Live' \subseteq Live \cup {u}
    BY <2>1 DEF Live, Accounts, AccountsInv, AccountsTypeOK
  <2>3. Clashes' \subseteq Clashes
    <3>1. /\ u \notin Live /\ Live \subseteq User
          /\ \A v \in Live : accounts'[v] = accounts[v] /\ accounts[v].email # r.row.email
          /\ accounts'[u].email = r.row.email
      BY <1>4, <2>1 DEF Live, Accounts, AccountsInv, AccountsTypeOK, NewAccountJudged, FindUser
    <3> QED
      BY <2>2, <3>1 DEF Clashes
  <2>4. Unpaid' \subseteq Unpaid
    <3>1. u \notin Unpaid'
      BY <1>4, <2>1 DEF Unpaid, AccountsInv, AccountsTypeOK, NewAccountJudged, Agreed
    <3> QED
      BY <2>1, <3>1 DEF Unpaid, Accounts, AccountsInv, AccountsTypeOK
  <2>5. \A v \in Accounts : held'[v] = held[v]
    BY <2>1 DEF Accounts, AccountsInv, AccountsTypeOK
  <2> QED
    BY <2>3, <2>4, <2>5 DEF EmailStep, UnpaidStep, RolesStep
<1>5. CASE /\ r \in AccountEdit /\ r.id \in Accounts /\ AccountEditJudged(r)
           /\ accounts' = [accounts EXCEPT ![r.id] = AccountAfter(r)]
           /\ staff' = [staff EXCEPT ![r.id] = ProfileAfter(r)]
           /\ held' = [held EXCEPT ![r.id] = RolesAfter(r)]
           /\ AccountAfter(r) \in Account
  <2>1. r.op = "update" /\ r.id \in User
    BY <1>5 DEF AccountEdit
  <2>2. /\ accounts'[r.id] = AccountAfter(r) /\ staff'[r.id] = ProfileAfter(r)
        /\ held'[r.id] = RolesAfter(r)
        /\ \A v \in User \ {r.id} : /\ accounts'[v] = accounts[v] /\ staff'[v] = staff[v]
                                    /\ held'[v] = held[v]
    BY <1>5, <2>1 DEF AccountsInv, AccountsTypeOK
  <2>3. /\ Live \subseteq User /\ Live' \subseteq User
        /\ \A v \in User \ {r.id} : v \in Live' <=> v \in Live
        /\ r.id \in Live' => ~AccountAfter(r).deleted
    BY <2>2 DEF Live, Accounts
  <2>4. Restores(r.write) \/ Clashes' \subseteq Clashes
    <3>1. CASE AccountAfter(r).deleted
      BY <2>2, <2>3, <3>1 DEF Clashes
    <3>2. CASE FindUser(AccountAfter(r).email) \subseteq {r.id}
      <4>1. \A v \in Live' \ {r.id} : accounts'[v].email # accounts'[r.id].email
        BY <2>2, <2>3, <3>2 DEF FindUser
      <4> QED
        BY <2>2, <2>3, <4>1 DEF Clashes
    <3> QED
      BY <1>5, <3>1, <3>2 DEF AccountEditJudged
  <2>5. r.write.sent = {} \/ Unpaid' \subseteq Unpaid
    BY <1>5, <2>2 DEF Unpaid, Accounts, AccountEditJudged
  <2>6. \A v \in Accounts : held'[v] = held[v] \/ held'[v] \in r.write.sent
    BY <1>5, <2>2 DEF Accounts, AccountEditJudged
  <2> QED
    BY <1>2, <2>1, <2>4, <2>5, <2>6 DEF EmailStep, UnpaidStep, RolesStep
<1>6. CASE UNCHANGED accountVars
  BY <1>6, AccountsSame
<1> QED
  BY <1>1, <1>3, <1>4, <1>5, <1>6 DEF AccountLanding

-----------------------------------------------------------------------------
(***************************************************************************)
(* Passwords.                                                              *)
(***************************************************************************)
ChangeRequest == [table : {"passwords"}, op : {"update"}, id : {"change"}, fresh : BOOLEAN,
                  write : [password : Password, old : Password]]
ResetRequest  == [table : {"passwords"}, op : {"update"}, id : {"reset"}, fresh : BOOLEAN,
                  write : [password : Password, link : Link]]

PasswordRequest(r) ==
    \/ /\ r \in ChangeRequest
       /\ r.fresh => r.write.old = password /\ ~Reused(r.write.password)
    \/ /\ r \in ResetRequest
       /\ r.write.link <= links
       /\ r.fresh => uses[r.write.link] = 0

\* The entries go from young to old.
Ages(s) == \A j, k \in DOMAIN s : j < k /\ s[j].old => s[k].old

\* What the link in the row has done, and the links still to be mailed.
LinkUnused == /\ token \in Link => token <= links /\ uses[token] = 0
              /\ \A link \in Link : link > links => uses[link] = 0

\* As long as the history is told of every change it holds the latest
\* passwords, and of those that count for NoRecentReuse it misses none.
HistoryTold ==
    ~bypassed /\ "passwords" \notin raced =>
        /\ DOMAIN history \subseteq DOMAIN past
        /\ \A k \in DOMAIN history : history[k] = past[k]
        /\ \A k \in DOMAIN past : k <= RememberLast /\ ~past[k].old => k \in DOMAIN history

PasswordsInv ==
    /\ PasswordsTypeOK
    /\ Ages(history) /\ Ages(past)
    /\ LinkUnused
    /\ HistoryTold
    /\ NoRecentReuse
    /\ ResetLinkWorksOnce
    /\ \A p \in Proc : Pending(p, "passwords") => PasswordRequest(request[p])

LEMMA PasswordsElsewhere ==
    ASSUME PasswordsInv, Elsewhere({"passwords"}), UNCHANGED passwordVars
    PROVE  PasswordsInv'
<1>1. \A r : PasswordRequest(r) => PasswordRequest(r)'
  BY DEF passwordVars, PasswordRequest, Reused
<1>2. "passwords" \in raced => "passwords" \in raced'
  BY DEF Elsewhere
<1>3. PasswordsTypeOK' /\ Ages(history)' /\ Ages(past)' /\ LinkUnused'
  BY DEF PasswordsInv, PasswordsTypeOK, Ages, LinkUnused, passwordVars
<1>4. HistoryTold' /\ ResetLinkWorksOnce'
  BY <1>2 DEF PasswordsInv, HistoryTold, ResetLinkWorksOnce, passwordVars
<1>5. NoRecentReuse'
  BY <1>2 DEF PasswordsInv, NoRecentReuse, passwordVars, Push
<1> QED
  BY <1>1, <1>3, <1>4, <1>5 DEF PasswordsInv, Elsewhere, Pending

\* Sequences.
LEMMA Pushed ==
    ASSUME NEW hash \in Password, NEW s \in Seq(Entry)
    PROVE  /\ Push(hash, s) \in Seq(Entry)
           /\ Len(Push(hash, s)) = Len(s) + 1
           /\ Push(hash, s)[1] = [hash |-> hash, old |-> FALSE]
           /\ \A k \in 2 .. Len(s) + 1 : Push(hash, s)[k] = s[k - 1]
           /\ Ages(s) => Ages(Push(hash, s))
<1> DEFINE e == [hash |-> hash, old |-> FALSE]
<1>1. <<e>> \in Seq(Entry)
  BY DEF Entry
<1> HIDE DEF e
<1>2. /\ <<e>> \o s \in Seq(Entry) /\ Len(<<e>> \o s) = Len(s) + 1
      /\ (<<e>> \o s)[1] = e
      /\ \A k \in 2 .. Len(s) + 1 : (<<e>> \o s)[k] = s[k - 1]
  BY <1>1
<1> DEFINE t == Push(hash, s)
<1>3. /\ t \in Seq(Entry) /\ Len(t) = Len(s) + 1 /\ t[1] = e
      /\ \A k \in 2 .. Len(s) + 1 : t[k] = s[k - 1]
  BY <1>2 DEF Push, e
<1> HIDE DEF t
<1>4. ASSUME Ages(s), NEW j \in DOMAIN t, NEW k \in DOMAIN t, j < k, t[j].old PROVE t[k].old
  <2>1. j # 1
    BY <1>3, <1>4 DEF e
  <2>2. j \in 2 .. Len(s) + 1 /\ k \in 2 .. Len(s) + 1
    BY <1>3, <1>4, <2>1
  <2>3. t[j] = s[j - 1] /\ t[k] = s[k - 1] /\ j - 1 \in DOMAIN s /\ k - 1 \in DOMAIN s /\ j - 1 < k - 1
    BY <1>3, <2>2, <1>4
  <2> QED
    BY <1>4, <2>3 DEF Ages
<1> QED
  BY <1>3, <1>4 DEF Ages, e, t

LEMMA NewestFirst ==
    ASSUME NEW n \in Nat, NEW s \in Seq(Entry), Ages(s)
    PROVE  /\ Newest(n, s) \in Seq(Entry) /\ Ages(Newest(n, s))
           /\ Len(Newest(n, s)) = IF Len(s) < n THEN Len(s) ELSE n
           /\ \A k \in DOMAIN Newest(n, s) : Newest(n, s)[k] = s[k]
<1> DEFINE m == IF Len(s) < n THEN Len(s) ELSE n
<1>1. m \in 0 .. Len(s)
  OBVIOUS
<1> HIDE DEF m
<1>2. /\ SubSeq(s, 1, m) \in Seq(Entry) /\ Len(SubSeq(s, 1, m)) = m
      /\ \A k \in 1 .. m : SubSeq(s, 1, m)[k] = s[k]
  BY <1>1
<1> DEFINE t == Newest(n, s)
<1>3. t \in Seq(Entry) /\ Len(t) = m /\ \A k \in 1 .. m : t[k] = s[k]
  BY <1>2 DEF Newest, m
<1> HIDE DEF t
<1>4. Ages(t)
  BY <1>1, <1>3 DEF Ages
<1> QED
  BY <1>3, <1>4 DEF m, t

LEMMA YoungFirst ==
    ASSUME NEW s \in Seq(Entry), Ages(s)
    PROVE  /\ Young(s) \in Seq(Entry) /\ Ages(Young(s))
           /\ DOMAIN Young(s) = {k \in DOMAIN s : ~s[k].old}
           /\ \A k \in DOMAIN Young(s) : Young(s)[k] = s[k]
<1> DEFINE P(n) == \A k \in DOMAIN s : s[k].old <=> k > n
<1>1. \E n \in 0 .. Len(s) : P(n)
  <2>1. CASE \A k \in DOMAIN s : ~s[k].old
    BY <2>1
  <2>2. CASE \E k \in DOMAIN s : s[k].old
    <3> DEFINE Old(k) == k \in DOMAIN s /\ s[k].old
    <3>1. \E k \in Nat : Old(k) /\ \A j \in 0 .. k - 1 : ~Old(j)
      <4>1. \E k \in Nat : Old(k)
        BY <2>2
      <4> DEFINE S == {k \in Nat : Old(k)}
      <4>2. S # {} /\ S \subseteq Nat
        BY <4>1
      <4> DEFINE R == OpToRel(<, Nat)
      <4>3. IsWellFoundedOn(R, Nat)
        BY NatLessThanWellFounded
      <4>4. \E k \in S : \A j \in S : ~(<<j, k>> \in R)
        <5> HIDE DEF R, S
        <5> QED
          BY <4>2, <4>3, WFMin
      <4>5. PICK k \in S : \A j \in S : ~(<<j, k>> \in R)
        BY <4>4
      <4>6. \A j \in S : ~(j < k)
        BY <4>2, <4>5 DEF OpToRel
      <4> QED
        BY <4>2, <4>6
    <3>2. PICK k \in Nat : Old(k) /\ \A j \in 0 .. k - 1 : ~Old(j)
      BY <3>1
    <3>3. P(k - 1)
      BY <3>2 DEF Ages
    <3> QED
      BY <3>2, <3>3
  <2> QED
    BY <2>1, <2>2
<1> DEFINE m == CHOOSE n \in 0 .. Len(s) : P(n)
<1>2. m \in 0 .. Len(s) /\ P(m)
  BY <1>1
<1> HIDE DEF m
<1>3. /\ SubSeq(s, 1, m) \in Seq(Entry) /\ Len(SubSeq(s, 1, m)) = m
      /\ \A k \in 1 .. m : SubSeq(s, 1, m)[k] = s[k]
  BY <1>2
<1> DEFINE t == Young(s)
<1>4. t \in Seq(Entry) /\ Len(t) = m /\ \A k \in 1 .. m : t[k] = s[k]
  BY <1>3 DEF Young, m
<1> HIDE DEF t
<1>5. Ages(t)
  BY <1>2, <1>4 DEF Ages
<1>6. DOMAIN t = {k \in DOMAIN s : ~s[k].old}
  BY <1>2, <1>4
<1>7. \A k \in DOMAIN t : t[k] = s[k]
  BY <1>4
<1> QED
  BY <1>4, <1>5, <1>6, <1>7 DEF t

-----------------------------------------------------------------------------
LEMMA PasswordsBegun ==
    ASSUME PasswordsInv, RequestsOK, NEW p \in Proc,
           \/ \E current, new \in Password : ChangePassword(p, current, new)
           \/ \E link \in Link, new \in Password : ResetPassword(p, link, new)
    PROVE  RequestsOK' /\ PasswordsInv'
<1>1. \E r : /\ Go(p, r) /\ PasswordRequest(r)
             /\ "table" \in DOMAIN r /\ r.table = "passwords"
  <2>1. CASE \E current, new \in Password : ChangePassword(p, current, new)
    <3>1. PICK current \in Password, new \in Password : ChangePassword(p, current, new)
      BY <2>1
    <3> DEFINE r == Update("passwords", "change", [password |-> new, old |-> password])
    <3>2. Go(p, r) /\ ~Reused(new)
      BY <3>1 DEF ChangePassword
    <3>3. /\ r \in ChangeRequest /\ r.write.old = password /\ r.write.password = new
          /\ "table" \in DOMAIN r /\ r.table = "passwords"
      BY DEF Update, ChangeRequest, PasswordsInv, PasswordsTypeOK
    <3> HIDE DEF r
    <3> QED
      BY <3>2, <3>3 DEF PasswordRequest
  <2>2. CASE \E link \in Link, new \in Password : ResetPassword(p, link, new)
    <3>1. PICK link \in Link, new \in Password : ResetPassword(p, link, new)
      BY <2>2
    <3> DEFINE r == Update("passwords", "reset", [password |-> new, link |-> link])
    <3>2. Go(p, r) /\ token = link
      BY <3>1 DEF ResetPassword
    <3>3. /\ r \in ResetRequest /\ r.write.link = link
          /\ "table" \in DOMAIN r /\ r.table = "passwords"
      BY DEF Update, ResetRequest
    <3>4. link <= links /\ uses[link] = 0
      BY <3>2 DEF PasswordsInv, LinkUnused
    <3> HIDE DEF r
    <3> QED
      BY <3>2, <3>3, <3>4 DEF PasswordRequest
  <2> QED
    BY <2>1, <2>2
<1>2. UNCHANGED <<raced, passwordVars>>
  BY DEF ChangePassword, ResetPassword
<1>3. PICK r : /\ Go(p, r) /\ PasswordRequest(r)
               /\ "table" \in DOMAIN r /\ r.table = "passwords"
  BY <1>1
<1>4. RequestsOK' /\ \A q \in Proc : request'[q] = IF q = p THEN r ELSE request[q]
  BY <1>2, <1>3, Begun DEF Table
<1>5. \A s : PasswordRequest(s) => PasswordRequest(s)'
  BY <1>2 DEF passwordVars, PasswordRequest, Reused
<1>6. PasswordsTypeOK' /\ Ages(history)' /\ Ages(past)' /\ LinkUnused'
  BY <1>2 DEF PasswordsInv, PasswordsTypeOK, Ages, LinkUnused, passwordVars
<1>7. HistoryTold' /\ NoRecentReuse' /\ ResetLinkWorksOnce'
  BY <1>2 DEF PasswordsInv, HistoryTold, NoRecentReuse, ResetLinkWorksOnce, passwordVars, Push
<1>8. \A q \in Proc : Pending(q, "passwords")' => PasswordRequest(request[q])'
  BY <1>3, <1>4, <1>5 DEF PasswordsInv, Pending
<1> QED
  BY <1>4, <1>6, <1>7, <1>8 DEF PasswordsInv

\* A year makes every password before the one in use an old one.
LEMMA PasswordsAge ==
    ASSUME PasswordsInv, YearPasses
    PROVE  PasswordsInv'
<1>1. /\ past \in Seq(Entry) /\ history \in Seq(Entry) /\ password \in Password
      /\ past' = [k \in 1 .. Len(past) |-> [past[k] EXCEPT !.old = TRUE]]
      /\ history' = [k \in 1 .. Len(history) |-> [history[k] EXCEPT !.old = TRUE]]
  BY DEF PasswordsInv, PasswordsTypeOK, YearPasses
<1>2. /\ \A k \in 1 .. Len(past) : past[k] \in Entry /\ [past[k] EXCEPT !.old = TRUE] \in Entry
      /\ \A k \in 1 .. Len(history) : history[k] \in Entry /\ [history[k] EXCEPT !.old = TRUE] \in Entry
  <2>1. \A e \in Entry : [e EXCEPT !.old = TRUE] \in Entry
    BY DEF Entry
  <2> QED
    BY <1>1, <2>1
<1>3. /\ past' \in Seq(Entry) /\ Len(past') = Len(past) /\ DOMAIN past' = DOMAIN past
      /\ history' \in Seq(Entry) /\ Len(history') = Len(history)
      /\ DOMAIN history' = DOMAIN history
  BY <1>1, <1>2
<1>4. /\ \A k \in DOMAIN past : past'[k].old /\ past'[k] = [past[k] EXCEPT !.old = TRUE]
      /\ \A k \in DOMAIN history : /\ history'[k].old /\ history'[k].hash = history[k].hash
                                   /\ history'[k] = [history[k] EXCEPT !.old = TRUE]
  BY <1>1, <1>2 DEF Entry
<1>5. PasswordsTypeOK' /\ LinkUnused' /\ ResetLinkWorksOnce'
  BY <1>3 DEF PasswordsInv, PasswordsTypeOK, LinkUnused, ResetLinkWorksOnce, YearPasses
<1>6. Ages(past)' /\ Ages(history)'
  BY <1>3, <1>4 DEF Ages
<1>7. HistoryTold'
  BY <1>3, <1>4 DEF PasswordsInv, HistoryTold, YearPasses
<1>8. NoRecentReuse'
  <2> DEFINE had == Push(password, past)'
  <2>1. \A k \in DOMAIN had : k > 1 => had[k].old
    <3>1. /\ had \in Seq(Entry) /\ Len(had) = Len(past') + 1
          /\ \A k \in 2 .. Len(past') + 1 : had[k] = past'[k - 1]
      <4>1. password' = password
        BY DEF YearPasses
      <4> QED
        BY <1>1, <1>3, <4>1, Pushed DEF Push
    <3> HIDE DEF had
    <3>2. ASSUME NEW k \in DOMAIN had, k > 1 PROVE had[k].old
      <4>1. k - 1 \in DOMAIN past /\ k \in 2 .. Len(past') + 1
        BY <1>1, <1>3, <3>1, <3>2
      <4> QED
        BY <1>4, <3>1, <4>1
    <3> QED
      BY <3>2
  <2>2. DOMAIN had \subseteq Nat \ {0}
    <3>1. had \in Seq(Entry)
      <4>1. password' = password
        BY DEF YearPasses
      <4> QED
        BY <1>1, <1>3, <4>1, Pushed DEF Push
    <3> HIDE DEF had
    <3> QED
      BY <3>1
  <2>3. \A i, j \in DOMAIN had : ~(i < j /\ ~had[j].old)
    <3> HIDE DEF had
    <3> QED
      BY <2>1, <2>2
  <2> QED
    BY <2>3 DEF NoRecentReuse
<1>9. \A r : PasswordRequest(r) => PasswordRequest(r)'
  <2>1. /\ password' = password /\ links' = links /\ uses' = uses
    BY DEF YearPasses
  <2>2. Hashes(Newest(RememberLast, history))' = Hashes(Newest(RememberLast, history))
    <3>1. /\ RememberLast \in Nat /\ Ages(history) /\ Ages(history')
      BY <1>6, PasswordBoundsAssumption DEF PasswordsInv, Ages
    <3> DEFINE s == Newest(RememberLast, history)
               t == Newest(RememberLast, history')
    <3>2. /\ Len(s) = Len(t) /\ s \in Seq(Entry) /\ t \in Seq(Entry)
          /\ \A k \in DOMAIN s : s[k] = history[k]
          /\ \A k \in DOMAIN t : t[k] = history'[k]
          /\ Len(s) <= Len(history)
      <4>1. /\ s \in Seq(Entry) /\ \A k \in DOMAIN s : s[k] = history[k]
            /\ Len(s) = IF Len(history) < RememberLast THEN Len(history) ELSE RememberLast
        BY <1>1, <3>1, NewestFirst
      <4>2. /\ t \in Seq(Entry) /\ \A k \in DOMAIN t : t[k] = history'[k]
            /\ Len(t) = IF Len(history') < RememberLast THEN Len(history') ELSE RememberLast
        BY <1>3, <3>1, NewestFirst
      <4>3. Len(history) \in Nat /\ Len(history') = Len(history)
        BY <1>1, <1>3
      <4> HIDE DEF s, t
      <4>4. Len(s) = Len(t) /\ Len(s) <= Len(history)
        BY <3>1, <4>1, <4>2, <4>3
      <4> QED
        BY <4>1, <4>2, <4>4
    <3> HIDE DEF s, t
    <3>3. Hashes(s) = Hashes(t)
      <4>1. DOMAIN s = DOMAIN t /\ DOMAIN s \subseteq DOMAIN history
        BY <1>1, <3>2
      <4>2. \A k \in DOMAIN s : s[k].hash = t[k].hash
        BY <1>4, <3>2, <4>1
      <4> QED
        BY <4>1, <4>2 DEF Hashes
    <3> QED
      BY <3>3 DEF Hashes, Newest, s, t
  <2> QED
    BY <2>1, <2>2 DEF PasswordRequest, Reused
<1>10. \A q \in Proc : Pending(q, "passwords")' => PasswordRequest(request[q])'
  BY <1>9 DEF PasswordsInv, Pending, YearPasses
<1> QED
  BY <1>5, <1>6, <1>7, <1>8, <1>10 DEF PasswordsInv

\* A commit makes the other pending passwords stale.
LEMMA PasswordsOvertaken ==
    ASSUME PasswordsInv, RequestsOK, NEW p \in Proc,
           Pending(p, "passwords"), Commit(p, "passwords"), UNCHANGED links
    PROVE  /\ RequestsOK'
           /\ \A q \in Proc : Pending(q, "passwords")' => PasswordRequest(request[q])'
           /\ "passwords" \notin raced' => "passwords" \notin raced /\ request[p].fresh
<1>1. /\ RequestsOK'
      /\ \A q \in Proc : Pending(q, "passwords")' =>
           /\ Pending(q, "passwords")
           /\ request'[q] = [request[q] EXCEPT !.fresh = FALSE]
      /\ raced' = IF request[p].fresh THEN raced ELSE raced \cup {"passwords"}
  BY Landed DEF Pending, Table
<1>2. ASSUME NEW q \in Proc, Pending(q, "passwords")'
      PROVE  PasswordRequest(request[q])'
  <2>1. PasswordRequest(request[q]) /\ request'[q] = [request[q] EXCEPT !.fresh = FALSE]
    BY <1>1, <1>2 DEF PasswordsInv
  <2>2. CASE request[q] \in ChangeRequest
    <3>1. request'[q] \in ChangeRequest /\ request'[q].fresh = FALSE
      BY <2>1, <2>2 DEF ChangeRequest
    <3> QED
      BY <3>1 DEF PasswordRequest
  <2>3. CASE request[q] \in ResetRequest /\ request[q].write.link <= links
    <3>1. /\ request'[q] \in ResetRequest /\ request'[q].fresh = FALSE
          /\ request'[q].write = request[q].write
      BY <2>1, <2>3 DEF ResetRequest
    <3> QED
      BY <2>3, <3>1 DEF PasswordRequest
  <2> QED
    BY <2>1, <2>2, <2>3 DEF PasswordRequest
<1> QED
  BY <1>1, <1>2

\* What remember keeps is the young part of the latest passwords.
LEMMA Remembered ==
    ASSUME PasswordsInv, NEW hash \in Password
    PROVE  /\ Remember(hash) \in Seq(Entry) /\ Ages(Remember(hash))
           /\ DOMAIN Remember(hash) =
                {k \in 1 .. Len(history) + 1 : k <= RememberLast /\ ~Push(hash, history)[k].old}
           /\ \A k \in DOMAIN Remember(hash) : Remember(hash)[k] = Push(hash, history)[k]
<1> DEFINE s == Push(hash, history)
           t == Newest(RememberLast, s)
<1>1. /\ s \in Seq(Entry) /\ Len(s) = Len(history) + 1 /\ Ages(s)
  BY Pushed DEF PasswordsInv, PasswordsTypeOK
<1>2. /\ t \in Seq(Entry) /\ Ages(t)
      /\ Len(t) = IF Len(s) < RememberLast THEN Len(s) ELSE RememberLast
      /\ \A k \in DOMAIN t : t[k] = s[k]
  <2> HIDE DEF s
  <2> QED
    BY <1>1, NewestFirst, PasswordBoundsAssumption
<1> DEFINE y == Young(t)
<1>3. /\ y \in Seq(Entry) /\ Ages(y)
      /\ DOMAIN y = {k \in DOMAIN t : ~t[k].old}
      /\ \A k \in DOMAIN y : y[k] = t[k]
  <2> HIDE DEF t
  <2> QED
    BY <1>2, YoungFirst
<1>4. Remember(hash) = y
  BY DEF Remember
<1> HIDE DEF y, t, s
<1>5. Len(history) \in Nat
  BY DEF PasswordsInv, PasswordsTypeOK
<1>6. DOMAIN t = {k \in 1 .. Len(history) + 1 : k <= RememberLast}
  <2>1. Len(t) \in Nat /\ DOMAIN t = 1 .. Len(t) /\ RememberLast \in Nat
    BY <1>2, PasswordBoundsAssumption
  <2>2. \A k \in Nat : k <= Len(t) <=> k <= Len(history) + 1 /\ k <= RememberLast
    BY <1>1, <1>2, <1>5, <2>1
  <2> QED
    BY <1>5, <2>1, <2>2
<1>7. /\ DOMAIN y = {k \in 1 .. Len(history) + 1 : k <= RememberLast /\ ~s[k].old}
      /\ \A k \in DOMAIN y : y[k] = s[k]
  BY <1>2, <1>3, <1>6
<1> QED
  BY <1>3, <1>4, <1>7 DEF s

LEMMA PasswordsChanged ==
    ASSUME PasswordsInv, RequestsOK, NEW p \in Proc, CommitChange(p)
    PROVE  RequestsOK' /\ PasswordsInv'
<1> DEFINE new == request[p].write.password
           sent == request[p].write.old
<1>1. /\ password' = new /\ past' = Push(password, past) /\ history' = Remember(sent)
      /\ UNCHANGED <<token, links, uses, bypassed, status>>
      /\ Pending(p, "passwords") /\ Commit(p, "passwords")
  BY DEF CommitChange
<1>2. /\ RequestsOK'
      /\ \A q \in Proc : Pending(q, "passwords")' => PasswordRequest(request[q])'
      /\ "passwords" \notin raced' => "passwords" \notin raced /\ request[p].fresh
  BY <1>1, PasswordsOvertaken
<1>3. /\ new \in Password /\ sent \in Password
      /\ request[p].fresh => sent = password /\ ~Reused(new)
  <2>1. request[p].id = "change" /\ PasswordRequest(request[p])
    BY <1>1 DEF CommitChange, PasswordsInv
  <2>2. request[p] \in ChangeRequest /\ request[p] \notin ResetRequest
    BY <2>1 DEF PasswordRequest, ChangeRequest, ResetRequest
  <2> QED
    BY <2>1, <2>2 DEF PasswordRequest, ChangeRequest
<1> HIDE DEF new, sent
<1>4. /\ password \in Password /\ past \in Seq(Entry) /\ history \in Seq(Entry)
      /\ Len(past) \in Nat /\ Len(history) \in Nat
      /\ DOMAIN past = 1 .. Len(past) /\ DOMAIN history = 1 .. Len(history)
  BY DEF PasswordsInv, PasswordsTypeOK
<1>5. /\ past' \in Seq(Entry) /\ Len(past') = Len(past) + 1 /\ Ages(past)'
      /\ past'[1] = [hash |-> password, old |-> FALSE]
      /\ \A k \in 2 .. Len(past) + 1 : past'[k] = past[k - 1]
  <2>1. Ages(past)
    BY DEF PasswordsInv
  <2>2. /\ past' \in Seq(Entry) /\ Len(past') = Len(past) + 1 /\ Ages(past')
        /\ past'[1] = [hash |-> password, old |-> FALSE]
        /\ \A k \in 2 .. Len(past) + 1 : past'[k] = past[k - 1]
    BY <1>1, <1>4, <2>1, Pushed
  <2> QED
    BY <2>2 DEF Ages
<1>6. /\ history' \in Seq(Entry) /\ Ages(history)'
      /\ DOMAIN history' = {k \in 1 .. Len(history) + 1 :
                              k <= RememberLast /\ ~Push(sent, history)[k].old}
      /\ \A k \in DOMAIN history' : history'[k] = Push(sent, history)[k]
  <2>1. /\ history' \in Seq(Entry) /\ Ages(history')
        /\ DOMAIN history' = {k \in 1 .. Len(history) + 1 :
                                k <= RememberLast /\ ~Push(sent, history)[k].old}
        /\ \A k \in DOMAIN history' : history'[k] = Push(sent, history)[k]
    BY <1>1, <1>3, Remembered
  <2> QED
    BY <2>1 DEF Ages
<1>7. PasswordsTypeOK' /\ LinkUnused' /\ ResetLinkWorksOnce'
  BY <1>1, <1>2, <1>3, <1>5, <1>6 DEF PasswordsInv, PasswordsTypeOK, LinkUnused, ResetLinkWorksOnce
<1>8. ASSUME ~bypassed', "passwords" \notin raced'
      PROVE  /\ sent = password /\ ~Reused(new) /\ ~bypassed /\ "passwords" \notin raced
             /\ DOMAIN history \subseteq DOMAIN past
             /\ \A k \in DOMAIN history : history[k] = past[k]
             /\ \A k \in DOMAIN past :
                  k <= RememberLast /\ ~past[k].old => k \in DOMAIN history
  BY <1>1, <1>2, <1>3, <1>8 DEF PasswordsInv, HistoryTold
<1>9. ASSUME ~bypassed', "passwords" \notin raced'
      PROVE  /\ DOMAIN history' \subseteq DOMAIN past'
             /\ \A k \in DOMAIN history' : history'[k] = past'[k]
             /\ \A k \in DOMAIN past' :
                  k <= RememberLast /\ ~past'[k].old => k \in DOMAIN history'
  <2> DEFINE s == Push(sent, history)
  <2>1. /\ s[1] = [hash |-> password, old |-> FALSE]
        /\ \A k \in 2 .. Len(history) + 1 : s[k] = history[k - 1]
    BY <1>3, <1>4, <1>8, <1>9, Pushed
  <2> HIDE DEF s
  <2>2. DOMAIN past' = 1 .. Len(past) + 1 /\ Len(history) <= Len(past)
    <3>1. Len(history) <= Len(past)
      BY <1>4, <1>8, <1>9
    <3> QED
      BY <1>5, <3>1
  <2>3. ASSUME NEW k \in 1 .. Len(history) + 1 PROVE s[k] = past'[k]
    <3>1. CASE k = 1
      BY <1>5, <2>1, <3>1
    <3>2. CASE k # 1
      <4>1. /\ k \in 2 .. Len(history) + 1 /\ k \in 2 .. Len(past) + 1
            /\ k - 1 \in DOMAIN history
        BY <1>4, <2>2, <3>2
      <4> QED
        BY <1>5, <1>8, <1>9, <2>1, <4>1
    <3> QED
      BY <3>1, <3>2
  <2>4. ASSUME NEW k \in DOMAIN past', k <= RememberLast, ~past'[k].old
        PROVE  k \in 1 .. Len(history) + 1
    <3>1. CASE k = 1
      BY <1>4, <3>1
    <3>2. CASE k # 1
      <4>1. k \in 2 .. Len(past) + 1 /\ k - 1 \in DOMAIN past /\ k - 1 <= RememberLast
        BY <1>4, <2>2, <2>4, <3>2, PasswordBoundsAssumption
      <4>2. k - 1 \in DOMAIN history
        BY <1>5, <1>8, <1>9, <2>4, <4>1
      <4> QED
        BY <1>4, <2>2, <4>1, <4>2
    <3> QED
      BY <3>1, <3>2
  <2>5. /\ DOMAIN history' = {k \in 1 .. Len(history) + 1 : k <= RememberLast /\ ~s[k].old}
        /\ \A k \in DOMAIN history' : history'[k] = s[k]
    BY <1>6 DEF s
  <2>6. \A k \in 1 .. Len(history) + 1 : k \in DOMAIN past'
    BY <1>4, <2>2
  <2> QED
    BY <2>3, <2>4, <2>5, <2>6
<1>10. HistoryTold'
  BY <1>9 DEF HistoryTold
<1>11. NoRecentReuse'
  <2> SUFFICES ASSUME ~bypassed', "passwords" \notin raced',
                      NEW i \in DOMAIN Push(password, past)',
                      NEW j \in DOMAIN Push(password, past)',
                      i < j, j <= i + RememberLast, ~Push(password, past)'[j].old
               PROVE  Push(password, past)'[i].hash # Push(password, past)'[j].hash
    BY DEF NoRecentReuse
  <2> DEFINE had == Push(password, past)
             hadNow == Push(new, past')
  <2>1. /\ had = past' /\ hadNow \in Seq(Entry) /\ Len(hadNow) = Len(past) + 2
        /\ hadNow[1] = [hash |-> new, old |-> FALSE]
        /\ \A k \in 2 .. Len(past) + 2 : hadNow[k] = past'[k - 1]
    <3>1. had = past' /\ past' \in Seq(Entry) /\ Len(past') + 1 = Len(past) + 2
      BY <1>1, <1>4, <1>5
    <3>2. /\ hadNow \in Seq(Entry) /\ Len(hadNow) = Len(past') + 1
          /\ hadNow[1] = [hash |-> new, old |-> FALSE]
          /\ \A k \in 2 .. Len(past') + 1 : hadNow[k] = past'[k - 1]
      BY <1>3, <3>1, Pushed
    <3> HIDE DEF had, hadNow
    <3> QED
      BY <3>1, <3>2
  <2>2. Push(password, past)' = hadNow
    BY <1>1 DEF Push
  <2>3. /\ i \in 1 .. Len(past) + 2 /\ j \in 1 .. Len(past) + 2 /\ i < j
        /\ j <= i + RememberLast /\ ~hadNow[j].old
    <3> HIDE DEF hadNow
    <3> QED
      BY <2>1, <2>2
  <2> HIDE DEF hadNow, had
  <2>4. j \in 2 .. Len(past) + 2 /\ hadNow[j] = past'[j - 1] /\ j - 1 \in DOMAIN past'
    BY <1>4, <1>5, <2>1, <2>3
  <2>5. CASE i = 1
    <3>1. CASE j = 2
      <4>1. hadNow[2] = [hash |-> password, old |-> FALSE]
        <5>1. j - 1 = 1
          BY <3>1
        <5> QED
          BY <1>5, <2>4, <3>1, <5>1
      <4>2. new # password
        BY <1>8 DEF Reused
      <4> QED
        BY <2>1, <2>2, <2>5, <3>1, <4>1, <4>2
    <3>2. CASE j # 2
      <4>1. j \in 3 .. Len(past) + 2 /\ j - 1 \in 2 .. Len(past) + 1 /\ j - 2 \in DOMAIN past
        BY <1>4, <2>4, <3>2
      <4>2. hadNow[j] = past[j - 2]
        BY <1>4, <1>5, <2>4, <4>1
      <4>3. j - 2 <= RememberLast /\ j - 2 \in DOMAIN history
        <5>1. j - 2 <= RememberLast
          BY <2>3, <2>5, <4>1, <1>4, PasswordBoundsAssumption
        <5> QED
          BY <1>8, <2>3, <4>1, <4>2, <5>1
      <4>4. past[j - 2].hash \in Hashes(Newest(RememberLast, history))
        <5> DEFINE t == Newest(RememberLast, history)
        <5>1. /\ t \in Seq(Entry) /\ \A k \in DOMAIN t : t[k] = history[k]
              /\ Len(t) = IF Len(history) < RememberLast THEN Len(history) ELSE RememberLast
          BY <1>4, NewestFirst, PasswordBoundsAssumption DEF PasswordsInv
        <5> HIDE DEF t
        <5>2. j - 2 \in DOMAIN t
          BY <1>4, <4>1, <4>3, <5>1, PasswordBoundsAssumption
        <5>3. t[j - 2] = past[j - 2]
          BY <1>8, <4>3, <5>1, <5>2
        <5>4. past[j - 2].hash \in Hashes(t)
          BY <5>2, <5>3 DEF Hashes
        <5> QED
          BY <5>4 DEF t
      <4> QED
        BY <1>8, <2>1, <2>2, <2>5, <4>2, <4>4 DEF Reused
    <3> QED
      BY <3>1, <3>2
  <2>6. CASE i # 1
    <3>1. /\ i \in 2 .. Len(past) + 2 /\ hadNow[i] = past'[i - 1] /\ i - 1 \in DOMAIN past'
          /\ i - 1 < j - 1 /\ j - 1 <= (i - 1) + RememberLast
      BY <1>4, <1>5, <2>1, <2>3, <2>6, PasswordBoundsAssumption
    <3>2. \A m, n \in DOMAIN had :
            m < n /\ n <= m + RememberLast /\ ~had[n].old => had[m].hash # had[n].hash
      BY <1>8 DEF PasswordsInv, NoRecentReuse, had
    <3> QED
      BY <2>1, <2>2, <2>3, <2>4, <3>1, <3>2
  <2> QED
    BY <2>5, <2>6
<1> QED
  BY <1>2, <1>5, <1>6, <1>7, <1>10, <1>11 DEF PasswordsInv

LEMMA PasswordsReset ==
    ASSUME PasswordsInv, RequestsOK, NEW p \in Proc, CommitReset(p)
    PROVE  RequestsOK' /\ PasswordsInv'
<1> DEFINE new == request[p].write.password
           used == request[p].write.link
<1>1. /\ password' = new /\ past' = Push(password, past) /\ token' = NoToken
      /\ uses' = [uses EXCEPT ![used] = @ + 1] /\ bypassed' = TRUE
      /\ UNCHANGED <<status, history, links>>
      /\ Pending(p, "passwords") /\ Commit(p, "passwords")
  BY DEF CommitReset
<1>2. /\ RequestsOK'
      /\ \A q \in Proc : Pending(q, "passwords")' => PasswordRequest(request[q])'
      /\ "passwords" \notin raced' => "passwords" \notin raced /\ request[p].fresh
  BY <1>1, PasswordsOvertaken
<1>3. /\ new \in Password /\ used \in Link /\ used <= links
      /\ request[p].fresh => uses[used] = 0
  <2>1. request[p].id = "reset" /\ PasswordRequest(request[p])
    BY <1>1 DEF CommitReset, PasswordsInv
  <2>2. request[p] \in ResetRequest /\ request[p] \notin ChangeRequest
    BY <2>1 DEF PasswordRequest, ChangeRequest, ResetRequest
  <2> QED
    BY <2>1, <2>2 DEF PasswordRequest, ResetRequest
<1> HIDE DEF new, used
<1>4. /\ past' \in Seq(Entry) /\ Ages(past')
  BY <1>1, Pushed DEF PasswordsInv, PasswordsTypeOK
<1>5. NoToken \notin Link /\ links \in Nat
  BY PasswordBoundsAssumption DEF NoToken, Link, PasswordsInv, PasswordsTypeOK
<1>6. uses \in [Link -> Nat] /\ uses' \in [Link -> Nat]
  BY <1>1, <1>3 DEF PasswordsInv, PasswordsTypeOK
<1>7. PasswordsTypeOK'
  BY <1>1, <1>3, <1>4, <1>6 DEF PasswordsInv, PasswordsTypeOK
<1>8. LinkUnused'
  <2>1. ASSUME NEW link \in Link, link > links PROVE uses'[link] = 0
    <3>1. link # used
      BY <1>3, <1>5, <2>1 DEF Link
    <3> QED
      BY <1>1, <1>6, <2>1, <3>1 DEF PasswordsInv, LinkUnused
  <2> QED
    BY <1>1, <1>5, <2>1 DEF LinkUnused
<1>9. ResetLinkWorksOnce'
  <2>1. ASSUME "passwords" \notin raced', NEW link \in Link PROVE uses'[link] <= 1
    <3>1. CASE link = used
      BY <1>1, <1>2, <1>3, <1>6, <2>1, <3>1
    <3>2. CASE link # used
      BY <1>1, <1>2, <1>6, <2>1, <3>2 DEF PasswordsInv, ResetLinkWorksOnce
    <3> QED
      BY <3>1, <3>2
  <2> QED
    BY <2>1 DEF ResetLinkWorksOnce
<1>10. HistoryTold' /\ NoRecentReuse' /\ Ages(history)' /\ Ages(past)'
  BY <1>1, <1>4 DEF PasswordsInv, HistoryTold, NoRecentReuse, Ages
<1> QED
  BY <1>2, <1>7, <1>8, <1>9, <1>10 DEF PasswordsInv

\* A new link, a scrambled token and a new status leave password and history.
LEMMA PasswordsRow ==
    ASSUME PasswordsInv, RequestsOK,
           \/ ForgotPassword \/ RevokeSessions
           \/ \E new \in {"active", "suspended", "locked"} : SetStatus(new)
    PROVE  RequestsOK' /\ PasswordsInv'
<1>1. /\ UNCHANGED <<password, history, past, uses, bypassed, request, raced>>
      /\ links' \in {links, links + 1} /\ links' \in 0 .. MaxLinks
      /\ token' \in Link \cup {NoToken, Scrambled}
      /\ \/ token' = token /\ links' = links
         \/ token' = links + 1 /\ links' = links + 1
         \/ token' = Scrambled /\ links' = links
      /\ status' \in {"active", "suspended", "locked"}
  <2>1. /\ links \in 0 .. MaxLinks /\ token \in Link \cup {NoToken, Scrambled}
        /\ status \in {"active", "suspended", "locked"} /\ MaxLinks \in Nat
    BY PasswordBoundsAssumption DEF PasswordsInv, PasswordsTypeOK
  <2>2. CASE ForgotPassword
    BY <2>1, <2>2 DEF ForgotPassword, Link
  <2>3. CASE RevokeSessions
    BY <2>1, <2>3 DEF RevokeSessions
  <2>4. CASE \E new \in {"active", "suspended", "locked"} : SetStatus(new)
    BY <2>1, <2>4 DEF SetStatus
  <2> QED
    BY <2>2, <2>3, <2>4
<1>2. links \in Nat /\ MaxLinks \in Nat
  BY PasswordBoundsAssumption DEF PasswordsInv, PasswordsTypeOK
<1>3. PasswordsTypeOK'
  BY <1>1 DEF PasswordsInv, PasswordsTypeOK
<1>4. LinkUnused'
  <2>1. Scrambled \notin Link
    BY <1>2 DEF Scrambled, Link
  <2>2. \A link \in Link : link > links' => link > links
    BY <1>1, <1>2 DEF Link
  <2>3. token' \in Link => token' <= links' /\ uses[token'] = 0
    BY <1>1, <1>2, <2>1 DEF PasswordsInv, LinkUnused
  <2> QED
    BY <1>1, <2>2, <2>3 DEF PasswordsInv, LinkUnused
<1>5. HistoryTold' /\ NoRecentReuse' /\ ResetLinkWorksOnce' /\ Ages(history)' /\ Ages(past)'
  BY <1>1 DEF PasswordsInv, HistoryTold, NoRecentReuse, ResetLinkWorksOnce, Ages, Push
<1>6. \A q \in Proc : Pending(q, "passwords")' => PasswordRequest(request[q])'
  <2>1. ASSUME NEW q \in Proc, Pending(q, "passwords")'
        PROVE  PasswordRequest(request[q])'
    <3>1. PasswordRequest(request[q]) /\ request' = request
      BY <1>1, <2>1 DEF PasswordsInv, Pending
    <3>2. CASE request[q] \in ChangeRequest /\ (request[q].fresh => request[q].write.old = password /\ ~Reused(request[q].write.password))
      BY <1>1, <3>1, <3>2 DEF PasswordRequest, Reused
    <3>3. CASE request[q] \in ResetRequest /\ request[q].write.link <= links /\ (request[q].fresh => uses[request[q].write.link] = 0)
      <4>1. request[q].write.link \in Nat
        BY <3>3 DEF ResetRequest, Link
      <4>2. request[q].write.link <= links'
        BY <1>1, <1>2, <3>3, <4>1
      <4> QED
        BY <1>1, <3>1, <3>3, <4>2 DEF PasswordRequest
    <3> QED
      BY <3>1, <3>2, <3>3 DEF PasswordRequest
  <2> QED
    BY <2>1
<1>7. RequestsOK'
  BY <1>1 DEF RequestsOK, Free
<1> QED
  BY <1>3, <1>4, <1>5, <1>6, <1>7 DEF PasswordsInv

LEMMA PasswordsStep ==
    ASSUME PasswordsInv, RequestsOK, NEW p \in Proc, PasswordsNext(p)
    PROVE  RequestsOK' /\ PasswordsInv'
<1>1. CASE YearPasses
  BY <1>1, PasswordsAge DEF YearPasses, RequestsOK, Free
<1> QED
  BY <1>1, PasswordsBegun, PasswordsChanged, PasswordsReset, PasswordsRow DEF PasswordsNext

-----------------------------------------------------------------------------
(***************************************************************************)
(* The matrix of roles and permissions.                                    *)
(***************************************************************************)
Named == [name : Name, guard : Guard]

NewName(t) == [table : {t}, op : {"insert"}, fresh : BOOLEAN, row : Named]
Rename(t)  == [table : {t}, op : {"update"}, fresh : BOOLEAN, id : Row(t),
               write : SUBSET ({"name"} \X Name)]

\* The row as a request leaves it that nobody has overtaken.
Renamed(t, r) == Merge(r.write, named[t][r.id])

NameRequest(t, r) ==
    \/ r \in NewName(t) /\ (r.fresh => Taken(t, r.row.name, r.row.guard) = {})
    \/ /\ r \in Rename(t) /\ named[t][r.id] # NoName
       /\ r.fresh => Taken(t, Renamed(t, r).name, Renamed(t, r).guard) \subseteq {r.id}

OneGuard(grant) ==
    /\ named["roles"][grant.role] # NoName /\ named["permissions"][grant.permission] # NoName
    /\ named["roles"][grant.role].guard = named["permissions"][grant.permission].guard

Grants == [role : RoleRow, permission : PermissionRow]

ToggleRequest(r) ==
    /\ {"op", "fresh"} \subseteq DOMAIN r
    /\ (r.op = "insert" /\ r.row \in Grants /\ OneGuard(r.row)) \/ r.op = "delete"

AclInv ==
    /\ AclTypeOK
    /\ NamesDiffer
    /\ GrantsStayInGuard
    /\ \A t \in Tables, p \in Proc : Pending(p, t) => NameRequest(t, request[p])
    /\ \A p \in Proc : Pending(p, "role_has_permissions") => ToggleRequest(request[p])

AclTables == Tables \cup {"role_has_permissions"}

LEMMA AclElsewhere ==
    ASSUME AclInv, Elsewhere(AclTables), UNCHANGED aclVars
    PROVE  AclInv'
<1>1. /\ \A t, r : NameRequest(t, r) => NameRequest(t, r)'
      /\ \A r : ToggleRequest(r) => ToggleRequest(r)'
  BY DEF aclVars, NameRequest, Renamed, Taken, ToggleRequest, OneGuard
<1>2. AclTypeOK' /\ GrantsStayInGuard'
  BY DEF aclVars, AclInv, AclTypeOK, GrantsStayInGuard
<1>3. NamesDiffer'
  <2>1. \A t \in Tables : t \notin raced' => t \notin raced
    BY DEF Elsewhere, AclTables
  <2> QED
    BY <2>1 DEF aclVars, AclInv, NamesDiffer
<1>4. \A q \in Proc : request'[q].table \in AclTables => request'[q] = request[q]
  BY DEF Elsewhere
<1> QED
  BY <1>1, <1>2, <1>3, <1>4 DEF AclInv, Pending, AclTables

\* A step that only starts a request of p.
LEMMA AclBegin ==
    ASSUME AclInv, RequestsOK, NEW p \in Proc, NEW r, Go(p, r),
           UNCHANGED <<raced, aclVars>>, "table" \in DOMAIN r,
           \/ \E t \in Tables : r.table = t /\ NameRequest(t, r)
           \/ r.table = "role_has_permissions" /\ ToggleRequest(r)
    PROVE  RequestsOK' /\ AclInv'
<1>1. RequestsOK' /\ \A q \in Proc : request'[q] = IF q = p THEN r ELSE request[q]
  <2>1. r.table \in Table
    BY DEF Tables, Table
  <2> QED
    BY <2>1, Begun
<1>2. /\ \A t, s : NameRequest(t, s) => NameRequest(t, s)'
      /\ \A s : ToggleRequest(s) => ToggleRequest(s)'
  BY DEF aclVars, NameRequest, Renamed, Taken, ToggleRequest, OneGuard
<1>3. AclTypeOK' /\ GrantsStayInGuard' /\ NamesDiffer'
  BY DEF aclVars, AclInv, AclTypeOK, GrantsStayInGuard, NamesDiffer
<1>4. \A t \in Tables, q \in Proc : Pending(q, t)' => NameRequest(t, request[q])'
  BY <1>1, <1>2 DEF AclInv, Pending, Tables
<1>5. \A q \in Proc : Pending(q, "role_has_permissions")' => ToggleRequest(request[q])'
  BY <1>1, <1>2 DEF AclInv, Pending, Tables
<1> QED
  BY <1>1, <1>3, <1>4, <1>5 DEF AclInv

LEMMA NamesBegun ==
    ASSUME AclInv, RequestsOK, NEW p \in Proc, NEW t \in Tables, NEW n \in Name, NEW g \in Guard,
           StoreNamed(p, t, n, g) \/ \E i \in Row(t) : UpdateNamed(p, t, i, n, g)
    PROVE  RequestsOK' /\ AclInv'
<1>1. CASE StoreNamed(p, t, n, g)
  <2> DEFINE row == [name |-> n, guard |-> g]
             r   == Insert(t, row)
  <2>1. Go(p, r) /\ Taken(t, n, g) = {} /\ UNCHANGED <<raced, aclVars>>
    BY <1>1 DEF StoreNamed
  <2>2. /\ r \in NewName(t) /\ r.row.name = n /\ r.row.guard = g
        /\ "table" \in DOMAIN r /\ r.table = t
    BY DEF Insert, NewName, Named
  <2> HIDE DEF r
  <2>3. NameRequest(t, r)
    BY <2>1, <2>2 DEF NameRequest
  <2> QED
    BY <2>1, <2>2, <2>3, AclBegin
<1>2. CASE \E i \in Row(t) : UpdateNamed(p, t, i, n, g)
  <2>1. PICK i \in Row(t) : UpdateNamed(p, t, i, n, g)
    BY <1>2
  <2> DEFINE old == named[t][i]
             new == [name |-> n, guard |-> g]
             r   == Update(t, i, Changes(old, new))
  <2>2. /\ Go(p, r) /\ old # NoName /\ old.guard = g /\ Taken(t, n, g) \subseteq {i}
        /\ UNCHANGED <<raced, aclVars>>
    BY <2>1 DEF UpdateNamed
  <2>3. old \in Named /\ new \in Named
    BY <2>2 DEF AclInv, AclTypeOK, Named
  <2>4. Changes(old, new) \subseteq {"name"} \X Name
    BY <2>2, <2>3 DEF Changes, Named
  <2>5. Merge(Changes(old, new), old) = new
    <3>1. /\ old = [f \in {"name", "guard"} |-> old[f]]
          /\ new = [f \in {"name", "guard"} |-> new[f]]
      BY <2>3 DEF Named
    <3> HIDE DEF old, new
    <3> QED
      BY <3>1, MergeChanges
  <2>6. /\ r \in Rename(t) /\ r.id = i /\ r.write = Changes(old, new)
        /\ "table" \in DOMAIN r /\ r.table = t
    BY <2>4 DEF Update, Rename
  <2>7. Renamed(t, r) = new
    BY <2>5, <2>6 DEF Renamed
  <2>8. NameRequest(t, r)
    <3>1. new.name = n /\ new.guard = g
      OBVIOUS
    <3> HIDE DEF r, new
    <3> QED
      BY <2>2, <2>6, <2>7, <3>1 DEF NameRequest
  <2> HIDE DEF r
  <2> QED
    BY <2>2, <2>6, <2>8, AclBegin
<1> QED
  BY <1>1, <1>2

LEMMA ToggleBegun ==
    ASSUME AclInv, RequestsOK, NEW p \in Proc, NEW g \in Guard, NEW role \in RoleRow,
           NEW permission \in PermissionRow, NEW value \in BOOLEAN,
           ToggleAssignment(p, g, role, permission, value)
    PROVE  RequestsOK' /\ AclInv'
<1> DEFINE grant == Grant(role, permission)
           r == IF value THEN Insert("role_has_permissions", grant)
                         ELSE Delete("role_has_permissions", grant)
<1>1. Go(p, r) /\ UNCHANGED <<raced, aclVars>>
  BY DEF ToggleAssignment
<1>2. grant \in Grants /\ OneGuard(grant)
  BY DEF ToggleAssignment, InGuard, Row, OneGuard, Grant, Grants
<1> HIDE DEF grant
<1>3. "table" \in DOMAIN r /\ r.table = "role_has_permissions" /\ ToggleRequest(r)
  <2>1. CASE value
    <3> DEFINE i == Insert("role_has_permissions", grant)
    <3>1. /\ "table" \in DOMAIN i /\ i.table = "role_has_permissions" /\ i.op = "insert"
          /\ i.row = grant /\ "op" \in DOMAIN i /\ "fresh" \in DOMAIN i
      BY DEF Insert
    <3>2. r = i
      BY <2>1
    <3> HIDE DEF i, r
    <3> QED
      BY <1>2, <3>1, <3>2 DEF ToggleRequest
  <2>2. CASE ~value
    <3> DEFINE d == Delete("role_has_permissions", grant)
    <3>1. /\ "table" \in DOMAIN d /\ d.table = "role_has_permissions" /\ d.op = "delete"
          /\ "op" \in DOMAIN d /\ "fresh" \in DOMAIN d
      BY DEF Delete
    <3>2. r = d
      BY <2>2
    <3> HIDE DEF d, r
    <3> QED
      BY <3>1, <3>2 DEF ToggleRequest
  <2> QED
    BY <2>1, <2>2
<1> HIDE DEF r
<1> QED
  BY <1>1, <1>3, AclBegin

-----------------------------------------------------------------------------
LEMMA RenameColumns ==
    ASSUME NEW row \in Named, NEW write \in SUBSET ({"name"} \X Name)
    PROVE  Merge(write, row) \in Named /\ Merge(write, row).guard = row.guard
<1> DEFINE m == Merge(write, row)
<1>1. DOMAIN row = {"name", "guard"} /\ row.name \in Name /\ row.guard \in Guard
  BY DEF Named
<1>2. \A w \in write : w = <<w[1], w[2]>> /\ w[1] = "name" /\ w[2] \in Name
  OBVIOUS
<1>3. DOMAIN m = {"name", "guard"} /\ m = [f \in {"name", "guard"} |-> m[f]]
  BY <1>1 DEF Merge
<1>4. m["name"] \in Name /\ m["guard"] = row["guard"]
  <2>1. \A f \in DOMAIN row : m[f] = row[f] \/ <<f, m[f]>> \in write
    BY <1>2, MergeColumn
  <2>2. "name" # "guard"
    OBVIOUS
  <2> HIDE DEF m
  <2> QED
    BY <1>1, <1>2, <2>1, <2>2
<1> HIDE DEF m
<1>5. m = [name |-> m.name, guard |-> m.guard]
  BY <1>3
<1>6. m \in Named
  BY <1>1, <1>4, <1>5 DEF Named
<1> QED
  BY <1>4, <1>6 DEF m

\* A row that is named stays named and in its guard, whatever lands.
LEMMA NamesCommitted ==
    ASSUME AclInv, RequestsOK, NEW p \in Proc, NEW t \in Tables, CommitNamed(p, t)
    PROVE  RequestsOK' /\ AclInv'
<1> DEFINE r == request[p]
<1>1. Pending(p, t) /\ Commit(p, t) /\ granted' = granted /\ t \in Table /\ NameRequest(t, r)
  BY DEF CommitNamed, AclInv, Tables, Table
<1>2. /\ RequestsOK'
      /\ \A q \in Proc : request'[q].table = t =>
           /\ request[q].table = t
           /\ request'[q] = [request[q] EXCEPT !.fresh = FALSE]
      /\ raced' = IF r.fresh THEN raced ELSE raced \cup {t}
      /\ \A T \in SUBSET Table : t \notin T => Elsewhere(T)
  BY <1>1, Landed
<1>3. /\ DOMAIN named = Tables
      /\ \A u \in Tables : named[u] \in [Row(u) -> Named \cup {NoName}]
  BY DEF AclInv, AclTypeOK, Named
<1>4. NoName \notin Named
  BY DEF NoName, Named
<1>5. \E i \in Row(t), row \in Named :
        /\ named' = [named EXCEPT ![t] = [@ EXCEPT ![i] = row]]
        /\ named[t][i] # NoName => row.guard = named[t][i].guard
        /\ r.fresh => \A j \in Row(t) \ {i} : named[t][j] # row
  <2>1. CASE r \in NewName(t) /\ (r.fresh => Taken(t, r.row.name, r.row.guard) = {})
    <3>1. r.op = "insert" /\ r.row \in Named
      BY <2>1 DEF NewName
    <3>2. PICK i \in Row(t) : /\ named[t][i] = NoName
                              /\ named' = [named EXCEPT ![t][i] = r.row]
      BY <3>1 DEF CommitNamed
    <3>3. r.row = [name |-> r.row.name, guard |-> r.row.guard]
      BY <3>1 DEF Named
    <3>4. r.fresh => \A j \in Row(t) : named[t][j] # r.row
      BY <2>1, <3>3 DEF Taken
    <3> HIDE DEF r
    <3>5. named' = [named EXCEPT ![t] = [@ EXCEPT ![i] = r.row]]
      BY <3>2
    <3> QED
      BY <3>1, <3>2, <3>4, <3>5
  <2>2. CASE /\ r \in Rename(t) /\ named[t][r.id] # NoName
             /\ r.fresh => Taken(t, Renamed(t, r).name, Renamed(t, r).guard) \subseteq {r.id}
    <3>1. r.op = "update" /\ r.id \in Row(t) /\ r.write \in SUBSET ({"name"} \X Name)
      BY <2>2 DEF Rename
    <3>2. named' = [named EXCEPT ![t][r.id] = Merge(r.write, @)]
      BY <3>1 DEF CommitNamed
    <3>3. named[t][r.id] \in Named
      BY <1>3, <2>2, <3>1
    <3>4. Renamed(t, r) \in Named /\ Renamed(t, r).guard = named[t][r.id].guard
      BY <3>1, <3>3, RenameColumns DEF Renamed
    <3>5. Renamed(t, r) = [name |-> Renamed(t, r).name, guard |-> Renamed(t, r).guard]
      BY <3>4 DEF Named
    <3>6. r.fresh => \A j \in Row(t) \ {r.id} : named[t][j] # Renamed(t, r)
      BY <2>2, <3>5 DEF Taken
    <3> HIDE DEF r
    <3>7. named' = [named EXCEPT ![t] = [@ EXCEPT ![r.id] = Renamed(t, r)]]
      BY <3>2 DEF Renamed
    <3> QED
      BY <3>1, <3>4, <3>6, <3>7
  <2> QED
    BY <1>1, <2>1, <2>2 DEF NameRequest
<1>6. PICK i \in Row(t), row \in Named :
        /\ named' = [named EXCEPT ![t] = [@ EXCEPT ![i] = row]]
        /\ named[t][i] # NoName => row.guard = named[t][i].guard
        /\ r.fresh => \A j \in Row(t) \ {i} : named[t][j] # row
  BY <1>5
<1> HIDE DEF r
<1>7. /\ DOMAIN named' = Tables
      /\ \A u \in Tables \ {t} : named'[u] = named[u]
      /\ named'[t] \in [Row(t) -> Named \cup {NoName}]
      /\ named'[t][i] = row
      /\ \A j \in Row(t) \ {i} : named'[t][j] = named[t][j]
  BY <1>3, <1>6
<1>8. AclTypeOK'
  BY <1>1, <1>3, <1>7 DEF AclInv, AclTypeOK, Named
<1>9. NamesDiffer'
  <2>1. ASSUME NEW u \in Tables, u \notin raced', NEW j \in Row(u), NEW k \in Row(u),
               j # k, named'[u][j] = named'[u][k]
        PROVE  named'[u][j] = NoName
    <3>1. CASE u # t
      BY <1>2, <1>7, <2>1, <3>1 DEF AclInv, NamesDiffer
    <3>2. CASE u = t
      <4>1. r.fresh /\ t \notin raced
        BY <1>2, <2>1, <3>2
      <4>2. j # i /\ k # i
        BY <1>6, <1>7, <2>1, <3>2, <4>1
      <4> QED
        BY <1>7, <2>1, <3>2, <4>1, <4>2 DEF AclInv, NamesDiffer
    <3> QED
      BY <3>1, <3>2
  <2> QED
    BY <2>1 DEF NamesDiffer
<1>10. \A u \in Tables : \A j \in Row(u) : named[u][j] # NoName =>
         named'[u][j] # NoName /\ named'[u][j].guard = named[u][j].guard
  BY <1>4, <1>6, <1>7
<1>11. \A grant \in Grants : OneGuard(grant) => OneGuard(grant)'
  <2>1. "roles" \in Tables /\ "permissions" \in Tables
    BY DEF Tables
  <2>2. ASSUME NEW grant \in Grants, OneGuard(grant) PROVE OneGuard(grant)'
    <3>1. grant.role \in Row("roles") /\ grant.permission \in Row("permissions")
      BY DEF Grants, Row
    <3> QED
      BY <1>10, <2>1, <2>2, <3>1 DEF OneGuard
  <2> QED
    BY <2>2
<1>12. GrantsStayInGuard'
  <2>1. \A grant \in granted : grant \in Grants /\ OneGuard(grant)
    BY DEF AclInv, AclTypeOK, GrantsStayInGuard, Grants, OneGuard
  <2> QED
    BY <1>1, <1>11, <2>1 DEF GrantsStayInGuard, OneGuard
<1>13. ASSUME NEW u \in Tables, NEW q \in Proc, Pending(q, u)'
       PROVE  NameRequest(u, request[q])'
  <2>1. CASE u = t
    <3>1. NameRequest(t, request[q]) /\ request'[q] = [request[q] EXCEPT !.fresh = FALSE]
      BY <1>2, <1>13, <2>1 DEF AclInv, Pending
    <3>2. CASE request[q] \in NewName(t)
      <4>1. request'[q] \in NewName(t) /\ request'[q].fresh = FALSE
        BY <3>1, <3>2 DEF NewName
      <4> QED
        BY <2>1, <4>1 DEF NameRequest, NewName
    <3>3. CASE request[q] \in Rename(t) /\ named[t][request[q].id] # NoName
      <4>1. /\ request'[q] \in Rename(t) /\ request'[q].fresh = FALSE
            /\ request'[q].id = request[q].id /\ request[q].id \in Row(t)
        BY <3>1, <3>3 DEF Rename
      <4>2. named'[t][request[q].id] # NoName
        BY <1>10, <3>3, <4>1
      <4> QED
        BY <2>1, <4>1, <4>2 DEF NameRequest, Rename
    <3> QED
      BY <3>1, <3>2, <3>3 DEF NameRequest
  <2>2. CASE u # t
    <3>1. Elsewhere({u}) /\ named'[u] = named[u]
      BY <1>2, <1>7, <2>2 DEF Tables, Table
    <3>2. request'[q] = request[q] /\ NameRequest(u, request[q])
      BY <1>13, <3>1 DEF AclInv, Pending, Elsewhere
    <3> QED
      BY <3>1, <3>2 DEF NameRequest, Renamed, Taken
  <2> QED
    BY <2>1, <2>2
<1>14. ASSUME NEW q \in Proc, Pending(q, "role_has_permissions")'
       PROVE  ToggleRequest(request[q])'
  <2>1. Elsewhere({"role_has_permissions"})
    BY <1>2 DEF Tables, Table
  <2>2. request'[q] = request[q] /\ ToggleRequest(request[q])
    BY <1>14, <2>1 DEF AclInv, Pending, Elsewhere
  <2> QED
    BY <1>11, <2>2 DEF ToggleRequest
<1> QED
  BY <1>2, <1>8, <1>9, <1>12, <1>13, <1>14 DEF AclInv

LEMMA ToggleCommitted ==
    ASSUME AclInv, RequestsOK, NEW p \in Proc, CommitToggle(p)
    PROVE  RequestsOK' /\ AclInv'
<1> DEFINE t == "role_has_permissions"
<1>1. /\ Pending(p, t) /\ Commit(p, t) /\ named' = named /\ t \in Table
      /\ ToggleRequest(request[p])
  BY DEF CommitToggle, AclInv, Table
<1>2. /\ RequestsOK'
      /\ \A q \in Proc : request'[q].table = t =>
           /\ request[q].table = t
           /\ request'[q] = [request[q] EXCEPT !.fresh = FALSE]
      /\ Elsewhere(Tables)
  <2>1. Tables \in SUBSET Table /\ t \notin Tables
    BY DEF Tables, Table
  <2> HIDE DEF t
  <2> QED
    BY <1>1, <2>1, Landed
<1>3. granted' \subseteq Grants /\ \A grant \in granted' : OneGuard(grant)
  <2>1. granted \subseteq Grants /\ \A grant \in granted : OneGuard(grant)
    BY DEF AclInv, AclTypeOK, GrantsStayInGuard, Grants, OneGuard
  <2> QED
    BY <1>1, <2>1 DEF CommitToggle, ToggleRequest
<1>4. AclTypeOK' /\ GrantsStayInGuard'
  BY <1>1, <1>3 DEF AclInv, AclTypeOK, GrantsStayInGuard, Grants, OneGuard
<1>5. NamesDiffer'
  <2>1. \A u \in Tables : u \notin raced' => u \notin raced
    BY <1>2 DEF Elsewhere
  <2> QED
    BY <1>1, <2>1 DEF AclInv, NamesDiffer
<1>6. \A u \in Tables, q \in Proc : Pending(q, u)' => NameRequest(u, request[q])'
  <2>1. ASSUME NEW u \in Tables, NEW q \in Proc, Pending(q, u)'
        PROVE  NameRequest(u, request[q])'
    <3>1. request'[q] = request[q] /\ NameRequest(u, request[q])
      BY <1>2, <2>1 DEF AclInv, Pending, Elsewhere
    <3> QED
      BY <1>1, <3>1 DEF NameRequest, Renamed, Taken
  <2> QED
    BY <2>1
<1>7. \A q \in Proc : Pending(q, t)' => ToggleRequest(request[q])'
  <2>1. ASSUME NEW q \in Proc, Pending(q, t)' PROVE ToggleRequest(request[q])'
    <3>1. ToggleRequest(request[q]) /\ request'[q] = [request[q] EXCEPT !.fresh = FALSE]
      BY <1>2, <2>1 DEF AclInv, Pending
    <3>2. /\ DOMAIN request'[q] = DOMAIN request[q]
          /\ request'[q].op = request[q].op /\ request'[q].row = request[q].row
      BY <3>1
    <3> QED
      BY <1>1, <3>1, <3>2 DEF ToggleRequest, OneGuard
  <2> QED
    BY <2>1
<1> QED
  BY <1>2, <1>4, <1>5, <1>6, <1>7 DEF AclInv

LEMMA AclStep ==
    ASSUME AclInv, RequestsOK, NEW p \in Proc, AclNext(p)
    PROVE  RequestsOK' /\ AclInv'
<1>1. /\ \A n \in Name, g \in Guard : StoreRole(p, n, g) => StoreNamed(p, "roles", n, g)
      /\ \A n \in Name, g \in Guard :
           StorePermission(p, n, g) => StoreNamed(p, "permissions", n, g)
      /\ \A i, n, g : UpdateRole(p, i, n, g) => UpdateNamed(p, "roles", i, n, g)
      /\ \A i, n, g : UpdatePermission(p, i, n, g) => UpdateNamed(p, "permissions", i, n, g)
      /\ Row("roles") = RoleRow /\ Row("permissions") = PermissionRow
      /\ "roles" \in Tables /\ "permissions" \in Tables
  BY DEF StoreRole, StorePermission, UpdateRole, UpdatePermission, Row, Tables
<1>2. CASE \E n \in Name, g \in Guard : StoreRole(p, n, g) \/ StorePermission(p, n, g)
  BY <1>1, <1>2, NamesBegun
<1>3. CASE \E n \in Name, g \in Guard : \/ \E i \in RoleRow : UpdateRole(p, i, n, g)
                                        \/ \E i \in PermissionRow : UpdatePermission(p, i, n, g)
  BY <1>1, <1>3, NamesBegun
<1> QED
  BY <1>2, <1>3, NamesCommitted, ToggleBegun, ToggleCommitted DEF AclNext

-----------------------------------------------------------------------------
(***************************************************************************)
(* Companies.                                                              *)
(***************************************************************************)
CompanyRow    == [code : ShortCode, status : Status, beneficiary : Person \cup {Nobody}]
CompanyColumn == ({"code"} \X ShortCode) \cup ({"status"} \X Status)
                   \cup ({"beneficiary"} \X (Person \cup {Nobody}))
Attachment    == [id : 1 .. MaxAttached, company : Company, user : Person]
Endpoint      == {"update", "suspend", "archive", "activate", "attach", "detach"}

CompanyWrite == [by : Endpoint, columns : SUBSET CompanyColumn,
                 drop : SUBSET Attachment, add : Seq(Person)]

NewCompany  == [table : {"companies"}, op : {"insert"}, fresh : BOOLEAN,
                row : [code : ShortCode, status : {"active"}, beneficiary : {Nobody}]]
CompanyEdit == [table : {"companies"}, op : {"update"}, fresh : BOOLEAN,
                id : Company, write : CompanyWrite]

\* The row as a request leaves it that nobody has overtaken.
CompanyAfter(r) == Merge(r.write.columns, companies[r.id])

\* What every endpoint but the form has made sure of.
PeopleJudged(c, new, drop, add) ==
    /\ \/ new.beneficiary = Nobody
       \/ /\ new.beneficiary = companies[c].beneficiary
          /\ \A row \in drop : row.user # new.beneficiary
    /\ add = <<>> \/ \E u \in Person : add = <<u>> /\ RowsOf(c, u) = {}

CodeJudged(c, new) == new.code = companies[c].code \/ CodeOf(new.code) \subseteq {c}

CompanyEditJudged(r) ==
    /\ CodeJudged(r.id, CompanyAfter(r))
    /\ r.write.by # "update" => PeopleJudged(r.id, CompanyAfter(r), r.write.drop, r.write.add)

CompanyRequest(r) ==
    \/ r \in NewCompany /\ (r.fresh => CodeOf(r.row.code) = {})
    \/ /\ r \in CompanyEdit /\ r.id \in Known
       /\ \A row \in r.write.drop : row.company = r.id
       /\ r.fresh => CompanyEditJudged(r)

CommissionRequest(r) ==
    /\ {"op", "fresh"} \subseteq DOMAIN r
    /\ \/ /\ r.op = "insert" /\ r.row.company \in Known /\ r.row.user \in Person
          /\ r.fresh => PaidOf(r.row.company, r.row.user) = {}
       \/ r.op = "update" /\ r.write \in SUBSET ({"commission"} \X {0, 1})
       \/ r.op = "delete"

CompaniesInv ==
    /\ companies \in [Company -> CompanyRow \cup {NoCompany}]
    /\ CompaniesTypeOK
    /\ CommissionUserOnce
    /\ \A p \in Proc : Pending(p, "companies") => CompanyRequest(request[p])
    /\ \A p \in Proc : Pending(p, "company_commission_users") => CommissionRequest(request[p])

CompanyTables == {"companies", "company_commission_users"}

LEMMA CompaniesUnchanged ==
    ASSUME UNCHANGED companyVars
    PROVE  /\ \A r : CompanyRequest(r) => CompanyRequest(r)'
           /\ \A r : CommissionRequest(r) => CommissionRequest(r)'
BY DEF companyVars, CompanyRequest, CommissionRequest, CompanyEditJudged, CodeJudged,
       PeopleJudged, CompanyAfter, CodeOf, Known, RowsOf, Rows, PaidOf

LEMMA CompaniesElsewhere ==
    ASSUME CompaniesInv, Elsewhere(CompanyTables), UNCHANGED companyVars
    PROVE  CompaniesInv'
<1>1. CompaniesTypeOK' /\ companies' \in [Company -> CompanyRow \cup {NoCompany}]
  BY DEF companyVars, CompaniesInv, CompaniesTypeOK, Known
<1>2. CommissionUserOnce'
  <2>1. "company_commission_users" \in raced => "company_commission_users" \in raced'
    BY DEF Elsewhere, CompanyTables
  <2> QED
    BY <2>1 DEF companyVars, CompaniesInv, CommissionUserOnce, PaidOf, Known
<1>3. \A q \in Proc : request'[q].table \in CompanyTables => request'[q] = request[q]
  BY DEF Elsewhere
<1> QED
  BY <1>1, <1>2, <1>3, CompaniesUnchanged DEF CompaniesInv, Pending, CompanyTables

LEMMA CompaniesBegin ==
    ASSUME CompaniesInv, RequestsOK, NEW p \in Proc, NEW r, Go(p, r),
           UNCHANGED <<raced, companyVars>>, "table" \in DOMAIN r,
           \/ r.table = "companies" /\ CompanyRequest(r)
           \/ r.table = "company_commission_users" /\ CommissionRequest(r)
    PROVE  RequestsOK' /\ CompaniesInv'
<1>1. RequestsOK' /\ \A q \in Proc : request'[q] = IF q = p THEN r ELSE request[q]
  <2>1. r.table \in Table
    BY DEF Table
  <2> QED
    BY <2>1, Begun
<1>2. CompaniesTypeOK' /\ companies' \in [Company -> CompanyRow \cup {NoCompany}]
  BY DEF companyVars, CompaniesInv, CompaniesTypeOK, Known
<1>3. CommissionUserOnce'
  BY DEF companyVars, CompaniesInv, CommissionUserOnce, PaidOf, Known
<1>4. /\ \A q \in Proc : Pending(q, "companies")' => CompanyRequest(request[q])'
      /\ \A q \in Proc : Pending(q, "company_commission_users")' => CommissionRequest(request[q])'
  BY <1>1, CompaniesUnchanged DEF CompaniesInv, Pending
<1> QED
  BY <1>1, <1>2, <1>3, <1>4 DEF CompaniesInv

LEMMA CompanyColumns ==
    ASSUME NEW row \in CompanyRow, NEW body \in SUBSET CompanyColumn
    PROVE  /\ Merge(body, row) \in CompanyRow
           /\ Merge(body, row).code = row.code \/ <<"code", Merge(body, row).code>> \in body
           /\ \/ Merge(body, row).beneficiary = row.beneficiary
              \/ <<"beneficiary", Merge(body, row).beneficiary>> \in body
<1> DEFINE m == Merge(body, row)
           columns == {"code", "status", "beneficiary"}
<1>1. /\ DOMAIN row = columns /\ row["code"] \in ShortCode /\ row["status"] \in Status
      /\ row["beneficiary"] \in Person \cup {Nobody}
  BY DEF CompanyRow
<1>2. \A w \in body : w = <<w[1], w[2]>>
  BY DEF CompanyColumn
<1>3. /\ DOMAIN m = columns /\ m = [f \in columns |-> m[f]]
  BY <1>1 DEF Merge
<1>4. \A f \in columns : m[f] = row[f] \/ <<f, m[f]>> \in body
  BY <1>1, <1>2, MergeColumn
<1>5. /\ \A v : <<"code", v>> \in CompanyColumn => v \in ShortCode
      /\ \A v : <<"status", v>> \in CompanyColumn => v \in Status
      /\ \A v : <<"beneficiary", v>> \in CompanyColumn => v \in Person \cup {Nobody}
  BY DEF CompanyColumn
<1> HIDE DEF m
<1>6. m["code"] \in ShortCode /\ m["status"] \in Status /\ m["beneficiary"] \in Person \cup {Nobody}
  BY <1>1, <1>4, <1>5
<1>7. m = [code |-> m.code, status |-> m.status, beneficiary |-> m.beneficiary]
  BY <1>3
<1>8. m \in CompanyRow
  BY <1>6, <1>7 DEF CompanyRow
<1> QED
  BY <1>4, <1>8 DEF m

\* What an endpoint decides is what it will write if nobody overtakes it.
LEMMA CompanySaves ==
    ASSUME CompaniesInv, NEW p \in Proc, NEW c \in Known, NEW by \in Endpoint,
           NEW body \in SUBSET CompanyColumn, NEW drop \in SUBSET Rows(c), NEW add \in Seq(Person),
           Save(p, by, c, body, drop, add),
           \A sc : <<"code", sc>> \in body => CodeOf(sc) \subseteq {c},
           by # "update" => PeopleJudged(c, Merge(body, companies[c]), drop, add)
    PROVE  \E r : /\ Go(p, r) /\ CompanyRequest(r)
                  /\ "table" \in DOMAIN r /\ r.table = "companies"
<1> DEFINE old   == companies[c]
           new   == Merge(body, old)
           write == [by |-> by, columns |-> Changes(old, new), drop |-> drop, add |-> add]
           r     == Update("companies", c, write)
<1>1. Go(p, r)
  BY DEF Save
<1>2. c \in Company /\ old \in CompanyRow
  BY DEF Known, CompaniesInv
<1>3. new \in CompanyRow /\ (new.code = old.code \/ <<"code", new.code>> \in body)
  BY <1>2, CompanyColumns
<1>4. Changes(old, new) \in SUBSET CompanyColumn
  <2>1. /\ DOMAIN old = {"code", "status", "beneficiary"}
        /\ new["code"] \in ShortCode /\ new["status"] \in Status
        /\ new["beneficiary"] \in Person \cup {Nobody}
    BY <1>2, <1>3 DEF CompanyRow
  <2> HIDE DEF new, old
  <2> QED
    BY <2>1 DEF Changes, CompanyColumn
<1>5. drop \in SUBSET Attachment /\ \A row \in drop : row.company = c
  BY DEF Rows, Attachment, CompaniesInv, CompaniesTypeOK, Known
<1>6. Merge(Changes(old, new), old) = new
  <2> DEFINE columns == {"code", "status", "beneficiary"}
  <2>1. old = [f \in columns |-> old[f]] /\ new = [f \in columns |-> new[f]]
    <3> HIDE DEF new, old
    <3> QED
      BY <1>2, <1>3 DEF CompanyRow
  <2> HIDE DEF new, old, columns
  <2> QED
    BY <2>1, MergeChanges
<1>7. /\ r \in CompanyEdit /\ r.id = c /\ r.write = write
      /\ "table" \in DOMAIN r /\ r.table = "companies"
  <2>1. write \in CompanyWrite
    <3> HIDE DEF new, old
    <3> QED
      BY <1>4, <1>5 DEF CompanyWrite
  <2> HIDE DEF write
  <2> QED
    BY <1>2, <2>1 DEF Update, CompanyEdit
<1>8. write.by = by /\ write.columns = Changes(old, new) /\ write.drop = drop /\ write.add = add
  OBVIOUS
<1> HIDE DEF r, write
<1>9. CompanyAfter(r) = new
  BY <1>6, <1>7, <1>8 DEF CompanyAfter
<1>10. CodeJudged(c, new)
  BY <1>3 DEF CodeJudged
<1> HIDE DEF new, old
<1>11. CompanyEditJudged(r)
  BY <1>7, <1>8, <1>9, <1>10 DEF CompanyEditJudged, new, old
<1> QED
  BY <1>1, <1>5, <1>7, <1>8, <1>11 DEF CompanyRequest

LEMMA CompaniesBegun ==
    ASSUME CompaniesInv, RequestsOK, NEW p \in Proc,
           \/ \E sc \in ShortCode : StoreCompany(p, sc)
           \/ \E c \in Company :
                \/ Suspend(p, c) \/ Archive(p, c) \/ Activate(p, c)
                \/ \E u \in Person : AttachUser(p, c, u) \/ DetachUser(p, c, u)
                \/ \E body \in SUBSET CompanyColumn, users \in {{}} \cup {{list} : list \in Lists} :
                     UpdateCompany(p, c, body, users)
    PROVE  RequestsOK' /\ CompaniesInv'
<1> SUFFICES /\ UNCHANGED <<raced, companyVars>>
             /\ \E r : /\ Go(p, r) /\ CompanyRequest(r)
                       /\ "table" \in DOMAIN r /\ r.table = "companies"
  BY CompaniesBegin
<1>1. UNCHANGED <<raced, companyVars>>
  BY DEF StoreCompany, Suspend, Archive, Activate, AttachUser, DetachUser, UpdateCompany
<1>2. ASSUME NEW sc \in ShortCode, StoreCompany(p, sc)
      PROVE  \E r : /\ Go(p, r) /\ CompanyRequest(r)
                    /\ "table" \in DOMAIN r /\ r.table = "companies"
  <2> DEFINE r == Insert("companies", [code |-> sc, status |-> "active", beneficiary |-> Nobody])
  <2>1. Go(p, r) /\ CodeOf(sc) = {}
    BY <1>2 DEF StoreCompany
  <2>2. r \in NewCompany /\ r.row.code = sc /\ "table" \in DOMAIN r /\ r.table = "companies"
    BY DEF Insert, NewCompany
  <2> HIDE DEF r
  <2> QED
    BY <2>1, <2>2 DEF CompanyRequest
<1>3. <<>> \in Seq(Person) /\ \A c : {} \in SUBSET Rows(c)
  OBVIOUS
<1>4. ASSUME NEW c \in Company, NEW by \in Endpoint, NEW s \in Status, c \in Known,
             Save(p, by, c, {<<"status", s>>}, {}, <<>>)
      PROVE  \E r : /\ Go(p, r) /\ CompanyRequest(r)
                    /\ "table" \in DOMAIN r /\ r.table = "companies"
  <2> DEFINE body == {<<"status", s>>}
  <2>1. body \in SUBSET CompanyColumn /\ \A v : <<"code", v>> \notin body /\ <<"beneficiary", v>> \notin body
    BY DEF CompanyColumn
  <2>2. companies[c] \in CompanyRow
    BY <1>4 DEF Known, CompaniesInv
  <2> HIDE DEF body
  <2>3. PeopleJudged(c, Merge(body, companies[c]), {}, <<>>)
    BY <2>1, <2>2, CompanyColumns DEF PeopleJudged
  <2> QED
    BY <1>3, <1>4, <2>1, <2>3, CompanySaves DEF body
<1>5. ASSUME NEW c \in Company, Suspend(p, c) \/ Archive(p, c) \/ Activate(p, c)
      PROVE  \E r : /\ Go(p, r) /\ CompanyRequest(r)
                    /\ "table" \in DOMAIN r /\ r.table = "companies"
  BY <1>4, <1>5 DEF Suspend, Archive, Activate, Status, Endpoint
<1>6. ASSUME NEW c \in Company, NEW u \in Person, AttachUser(p, c, u)
      PROVE  \E r : /\ Go(p, r) /\ CompanyRequest(r)
                    /\ "table" \in DOMAIN r /\ r.table = "companies"
  <2>1. c \in Known /\ RowsOf(c, u) = {} /\ Save(p, "attach", c, {}, {}, <<u>>)
    BY <1>6 DEF AttachUser
  <2>2. companies[c] \in CompanyRow /\ {} \in SUBSET CompanyColumn /\ <<u>> \in Seq(Person)
    BY <2>1 DEF Known, CompaniesInv
  <2>3. PeopleJudged(c, Merge({}, companies[c]), {}, <<u>>)
    BY <2>1, <2>2, CompanyColumns DEF PeopleJudged
  <2> QED
    BY <1>3, <2>1, <2>2, <2>3, CompanySaves DEF Endpoint
<1>7. ASSUME NEW c \in Company, NEW u \in Person, DetachUser(p, c, u)
      PROVE  \E r : /\ Go(p, r) /\ CompanyRequest(r)
                    /\ "table" \in DOMAIN r /\ r.table = "companies"
  <2> DEFINE body == IF companies[c].beneficiary = u THEN {<<"beneficiary", Nobody>>} ELSE {}
             new  == Merge(body, companies[c])
  <2>1. c \in Known /\ Save(p, "detach", c, body, RowsOf(c, u), <<>>)
    BY <1>7 DEF DetachUser
  <2>2. companies[c] \in CompanyRow
    BY <2>1 DEF Known, CompaniesInv
  <2>3. body \in SUBSET CompanyColumn /\ \A v : <<"code", v>> \notin body
    BY DEF CompanyColumn
  <2>4. RowsOf(c, u) \in SUBSET Rows(c) /\ \A row \in RowsOf(c, u) : row.user = u
    BY DEF RowsOf
  <2>5. PeopleJudged(c, new, RowsOf(c, u), <<>>)
    <3>1. CASE companies[c].beneficiary = u
      <4>1. Written(body, "beneficiary") = {Nobody}
        <5>1. body = {<<"beneficiary", Nobody>>}
          BY <3>1
        <5> HIDE DEF body
        <5>2. <<"beneficiary", Nobody>>[1] = "beneficiary" /\ <<"beneficiary", Nobody>>[2] = Nobody
          OBVIOUS
        <5> QED
          BY <5>1, <5>2 DEF Written
      <4>2. "beneficiary" \in DOMAIN companies[c]
        BY <2>2 DEF CompanyRow
      <4> HIDE DEF body
      <4>3. new.beneficiary = Nobody
        BY <4>1, <4>2 DEF Merge
      <4> QED
        BY <4>3 DEF PeopleJudged
    <3>2. CASE companies[c].beneficiary # u
      <4>1. body = {}
        BY <3>2
      <4> HIDE DEF body
      <4>2. new.beneficiary = companies[c].beneficiary
        BY <2>2, <2>3, <4>1, CompanyColumns
      <4> QED
        BY <2>4, <3>2, <4>2 DEF PeopleJudged
    <3> QED
      BY <3>1, <3>2
  <2> HIDE DEF body
  <2> QED
    BY <1>3, <2>1, <2>3, <2>4, <2>5, CompanySaves DEF Endpoint
<1>8. ASSUME NEW c \in Company, NEW body \in SUBSET CompanyColumn,
             NEW users \in {{}} \cup {{list} : list \in Lists},
             UpdateCompany(p, c, body, users)
      PROVE  \E r : /\ Go(p, r) /\ CompanyRequest(r)
                    /\ "table" \in DOMAIN r /\ r.table = "companies"
  <2>1. c \in Known /\ \A sc \in Written(body, "code") : CodeOf(sc) \subseteq {c}
    BY <1>8 DEF UpdateCompany
  <2>2. \A sc : <<"code", sc>> \in body => CodeOf(sc) \subseteq {c}
    <3>1. ASSUME NEW sc, <<"code", sc>> \in body PROVE sc \in Written(body, "code")
      <4>1. <<"code", sc>>[1] = "code" /\ <<"code", sc>>[2] = sc
        OBVIOUS
      <4> QED
        BY <3>1, <4>1 DEF Written
    <3> QED
      BY <2>1, <3>1
  <2>3. CASE users = {}
    <3>1. Save(p, "update", c, body, {}, <<>>)
      BY <1>8, <2>3 DEF UpdateCompany
    <3> QED
      BY <1>3, <2>1, <2>2, <3>1, CompanySaves DEF Endpoint
  <2>4. CASE users # {}
    <3>1. PICK list \in Lists : Save(p, "update", c, body, Rows(c), list)
      BY <1>8, <2>4 DEF UpdateCompany
    <3>2. list \in Seq(Person)
      <4>1. \A u, v \in Person : <<u>> \in Seq(Person) /\ <<u, v>> \in Seq(Person)
        OBVIOUS
      <4> QED
        <5>1. CASE list \in Person \X Person
          <6>1. list = <<list[1], list[2]>> /\ list[1] \in Person /\ list[2] \in Person
            BY <5>1
          <6>2. <<list[1], list[2]>> \in Seq(Person)
            BY <4>1, <6>1
          <6> QED
            BY <6>1, <6>2
        <5>2. CASE list \notin Person \X Person
          BY <1>3, <3>1, <4>1, <5>2 DEF Lists
        <5> QED
          BY <5>1, <5>2
    <3> QED
      BY <2>1, <2>2, <3>1, <3>2, CompanySaves DEF Endpoint
  <2> QED
    BY <2>3, <2>4
<1> QED
  BY <1>1, <1>2, <1>5, <1>6, <1>7, <1>8

LEMMA CommissionsBegun ==
    ASSUME CompaniesInv, RequestsOK, NEW p \in Proc,
           \/ \E c \in Company, u \in Person : StoreCommissionUser(p, c, u)
           \/ \E row \in paid : \/ DestroyCommissionUser(p, row)
                                \/ \E n \in {0, 1} : UpdateCommissionUser(p, row, n)
    PROVE  RequestsOK' /\ CompaniesInv'
<1> DEFINE t == "company_commission_users"
<1>1. UNCHANGED <<raced, companyVars>>
  BY DEF StoreCommissionUser, DestroyCommissionUser, UpdateCommissionUser
<1>2. \E r : /\ Go(p, r) /\ CommissionRequest(r) /\ "table" \in DOMAIN r /\ r.table = t
  <2>1. ASSUME NEW c \in Company, NEW u \in Person, StoreCommissionUser(p, c, u)
        PROVE  \E r : /\ Go(p, r) /\ CommissionRequest(r) /\ "table" \in DOMAIN r /\ r.table = t
    <3> DEFINE r == Insert(t, [company |-> c, user |-> u])
    <3>1. Go(p, r) /\ c \in Known /\ PaidOf(c, u) = {}
      BY <2>1 DEF StoreCommissionUser
    <3>2. /\ {"op", "fresh", "table"} \subseteq DOMAIN r /\ r.op = "insert" /\ r.table = t
          /\ r.row.company = c /\ r.row.user = u
      BY DEF Insert
    <3> HIDE DEF r
    <3> QED
      BY <3>1, <3>2 DEF CommissionRequest
  <2>2. ASSUME NEW row \in paid, DestroyCommissionUser(p, row)
        PROVE  \E r : /\ Go(p, r) /\ CommissionRequest(r) /\ "table" \in DOMAIN r /\ r.table = t
    <3> DEFINE r == Delete(t, row.id)
    <3>1. Go(p, r)
      BY <2>2 DEF DestroyCommissionUser
    <3>2. {"op", "fresh", "table"} \subseteq DOMAIN r /\ r.op = "delete" /\ r.table = t
      BY DEF Delete
    <3> HIDE DEF r
    <3> QED
      BY <3>1, <3>2 DEF CommissionRequest
  <2>3. ASSUME NEW row \in paid, NEW n \in {0, 1}, UpdateCommissionUser(p, row, n)
        PROVE  \E r : /\ Go(p, r) /\ CommissionRequest(r) /\ "table" \in DOMAIN r /\ r.table = t
    <3> DEFINE r == Update(t, row.id, {<<"commission", n>>})
    <3>1. Go(p, r)
      BY <2>3 DEF UpdateCommissionUser
    <3>2. /\ {"op", "fresh", "table"} \subseteq DOMAIN r /\ r.op = "update" /\ r.table = t
          /\ r.write \in SUBSET ({"commission"} \X {0, 1})
      BY DEF Update
    <3> HIDE DEF r
    <3> QED
      BY <3>1, <3>2 DEF CommissionRequest
  <2> QED
    BY <2>1, <2>2, <2>3
<1> QED
  BY <1>1, <1>2, CompaniesBegin

-----------------------------------------------------------------------------
\* What a commit to the table does to the rows.
CompanyLanding(r) ==
    \/ /\ r \in NewCompany /\ (r.fresh => CodeOf(r.row.code) = {})
       /\ \E c \in Company \ Known : companies' = [companies EXCEPT ![c] = r.row]
       /\ UNCHANGED <<attached, lastRow>>
    \/ /\ r \in CompanyEdit /\ r.id \in Known /\ (r.fresh => CompanyEditJudged(r))
       /\ \A row \in r.write.drop : row.company = r.id
       /\ CompanyAfter(r) \in CompanyRow
       /\ companies' = [companies EXCEPT ![r.id] = CompanyAfter(r)]
       /\ lastRow' = lastRow + Len(r.write.add) /\ lastRow' \in 0 .. MaxAttached
       /\ attached' = (attached \ r.write.drop) \cup
            {[id |-> lastRow + k, company |-> r.id, user |-> r.write.add[k]] :
               k \in DOMAIN r.write.add}

LEMMA CompaniesLand ==
    ASSUME CompaniesInv, NEW p \in Proc, CommitCompany(p)
    PROVE  CompanyLanding(request[p])
<1> DEFINE r == request[p]
<1> SUFFICES CompanyLanding(r)
  OBVIOUS
<1>1. CompanyRequest(r)
  BY DEF CommitCompany, CompaniesInv
<1>2. CASE r \in NewCompany /\ (r.fresh => CodeOf(r.row.code) = {})
  <2>1. r.op = "insert"
    BY <1>2 DEF NewCompany
  <2>2. /\ \E c \in Company \ Known : companies' = [companies EXCEPT ![c] = r.row]
        /\ UNCHANGED <<attached, lastRow>>
    BY <2>1 DEF CommitCompany
  <2> HIDE DEF r
  <2> QED
    BY <1>2, <2>2 DEF CompanyLanding
<1>3. CASE /\ r \in CompanyEdit /\ r.id \in Known /\ (r.fresh => CompanyEditJudged(r))
           /\ \A row \in r.write.drop : row.company = r.id
  <2>1. r.op = "update" /\ r.write.columns \in SUBSET CompanyColumn /\ r.write.add \in Seq(Person)
    BY <1>3 DEF CompanyEdit, CompanyWrite
  <2>2. /\ lastRow + Len(r.write.add) <= MaxAttached
        /\ companies' = [companies EXCEPT ![r.id] = Merge(r.write.columns, @)]
        /\ attached' = (attached \ r.write.drop) \cup
             {[id |-> lastRow + k, company |-> r.id, user |-> r.write.add[k]] :
                k \in DOMAIN r.write.add}
        /\ lastRow' = lastRow + Len(r.write.add)
    BY <2>1 DEF CommitCompany
  <2> HIDE DEF r
  <2>3. companies[r.id] \in CompanyRow /\ r.id \in Company
    BY <1>3 DEF Known, CompaniesInv
  <2>4. CompanyAfter(r) \in CompanyRow
    BY <2>1, <2>3, CompanyColumns DEF CompanyAfter
  <2>5. companies' = [companies EXCEPT ![r.id] = CompanyAfter(r)]
    BY <2>2, <2>3 DEF CompanyAfter
  <2>6. lastRow' \in 0 .. MaxAttached
    <3>1. lastRow \in Nat /\ Len(r.write.add) \in Nat /\ MaxAttached \in Nat
      BY <2>1, MaxAttachedAssumption DEF CompaniesInv, CompaniesTypeOK
    <3> QED
      BY <2>2, <3>1
  <2> QED
    BY <1>3, <2>2, <2>4, <2>5, <2>6 DEF CompanyLanding
<1> QED
  BY <1>1, <1>2, <1>3 DEF CompanyRequest

LEMMA CompaniesLanded ==
    ASSUME CompaniesInv, RequestsOK, NEW p \in Proc, CommitCompany(p)
    PROVE  RequestsOK' /\ CompaniesInv'
<1> DEFINE r == request[p]
<1>1. /\ CompanyLanding(r) /\ Pending(p, "companies") /\ Commit(p, "companies") /\ paid' = paid
      /\ "companies" \in Table
  BY CompaniesLand DEF CommitCompany, Table
<1>2. /\ RequestsOK'
      /\ \A q \in Proc : request'[q].table = "companies" =>
           /\ request[q].table = "companies"
           /\ request'[q] = [request[q] EXCEPT !.fresh = FALSE]
      /\ Elsewhere({"company_commission_users"})
  BY <1>1, Landed DEF Table
<1> HIDE DEF r
<1>3. NoCompany \notin CompanyRow
  BY DEF NoCompany, CompanyRow
<1>4. companies \in [Company -> CompanyRow \cup {NoCompany}]
  BY DEF CompaniesInv
<1>5. /\ Known \subseteq Known'
      /\ companies' \in [Company -> CompanyRow \cup {NoCompany}]
  <2>1. CASE r \in NewCompany /\ \E c \in Company \ Known : companies' = [companies EXCEPT ![c] = r.row]
    <3>1. r.row \in CompanyRow
      BY <2>1 DEF NewCompany, CompanyRow, Status
    <3> QED
      BY <1>3, <1>4, <2>1, <3>1 DEF Known
  <2>2. CASE /\ r \in CompanyEdit /\ CompanyAfter(r) \in CompanyRow
             /\ companies' = [companies EXCEPT ![r.id] = CompanyAfter(r)]
    <3>1. r.id \in Company
      BY <2>2 DEF CompanyEdit
    <3> QED
      BY <1>3, <1>4, <2>2, <3>1 DEF Known
  <2> QED
    BY <1>1, <2>1, <2>2 DEF CompanyLanding
<1>6. attached' \subseteq [id : 1 .. MaxAttached, company : Known', user : Person]
  <2>1. attached \subseteq [id : 1 .. MaxAttached, company : Known', user : Person]
    BY <1>5 DEF CompaniesInv, CompaniesTypeOK
  <2>2. CASE attached' = attached
    BY <2>1, <2>2
  <2>3. CASE /\ r \in CompanyEdit /\ r.id \in Known
             /\ lastRow' = lastRow + Len(r.write.add) /\ lastRow' \in 0 .. MaxAttached
             /\ attached' = (attached \ r.write.drop) \cup
                  {[id |-> lastRow + k, company |-> r.id, user |-> r.write.add[k]] :
                     k \in DOMAIN r.write.add}
    <3>1. r.write.add \in Seq(Person) /\ lastRow \in Nat /\ MaxAttached \in Nat
      BY <2>3, MaxAttachedAssumption DEF CompanyEdit, CompanyWrite, CompaniesInv, CompaniesTypeOK
    <3>2. ASSUME NEW k \in DOMAIN r.write.add
          PROVE  lastRow + k \in 1 .. MaxAttached /\ r.write.add[k] \in Person
      BY <2>3, <3>1
    <3>3. \A k \in DOMAIN r.write.add :
            [id |-> lastRow + k, company |-> r.id, user |-> r.write.add[k]]
              \in [id : 1 .. MaxAttached, company : Known', user : Person]
      BY <1>5, <2>3, <3>2
    <3> QED
      BY <2>1, <2>3, <3>3
  <2> QED
    BY <1>1, <2>2, <2>3 DEF CompanyLanding
<1>7. CompaniesTypeOK'
  <2>1. lastRow' \in 0 .. MaxAttached
    BY <1>1 DEF CompanyLanding, CompaniesInv, CompaniesTypeOK
  <2>2. \A c \in Known' : companies'[c] \in CompanyRow
    BY <1>5 DEF Known
  <2>3. paid \subseteq [id : 1 .. MaxAttached, company : Known', user : Person, commission : {0, 1}]
    BY <1>5 DEF CompaniesInv, CompaniesTypeOK
  <2> QED
    BY <1>1, <1>6, <2>1, <2>2, <2>3 DEF CompaniesTypeOK, CompanyRow
<1>8. CommissionUserOnce'
  <2>1. ASSUME "company_commission_users" \notin raced', NEW c \in Known', NEW u \in Person,
               NEW first \in PaidOf(c, u), NEW second \in PaidOf(c, u)
        PROVE  first = second
    <3>1. c \in Known
      BY DEF PaidOf, CompaniesInv, CompaniesTypeOK
    <3> QED
      BY <1>2, <2>1, <3>1 DEF CompaniesInv, CommissionUserOnce, Elsewhere
  <2> QED
    BY <1>1, <2>1 DEF CommissionUserOnce, PaidOf
<1>9. ASSUME NEW q \in Proc, Pending(q, "companies")'
      PROVE  CompanyRequest(request[q])'
  <2>1. CompanyRequest(request[q]) /\ request'[q] = [request[q] EXCEPT !.fresh = FALSE]
    BY <1>2, <1>9 DEF CompaniesInv, Pending
  <2>2. CASE request[q] \in NewCompany
    <3>1. request'[q] \in NewCompany /\ request'[q].fresh = FALSE
      BY <2>1, <2>2 DEF NewCompany
    <3> QED
      BY <3>1 DEF CompanyRequest
  <2>3. CASE /\ request[q] \in CompanyEdit /\ request[q].id \in Known
             /\ \A row \in request[q].write.drop : row.company = request[q].id
    <3>1. /\ request'[q] \in CompanyEdit /\ request'[q].fresh = FALSE
          /\ request'[q].id = request[q].id /\ request'[q].write = request[q].write
      BY <2>1, <2>3 DEF CompanyEdit
    <3> QED
      BY <1>5, <2>3, <3>1 DEF CompanyRequest
  <2> QED
    BY <2>1, <2>2, <2>3 DEF CompanyRequest
<1>10. ASSUME NEW q \in Proc, Pending(q, "company_commission_users")'
       PROVE  CommissionRequest(request[q])'
  <2>1. request'[q] = request[q] /\ CommissionRequest(request[q])
    BY <1>2, <1>10 DEF CompaniesInv, Pending, Elsewhere
  <2> QED
    BY <1>1, <1>5, <2>1 DEF CommissionRequest, PaidOf
<1> QED
  BY <1>2, <1>5, <1>7, <1>8, <1>9, <1>10 DEF CompaniesInv

\* What CodeClashHasACause, StrayBeneficiaryHasACause and
\* TwiceAttachedHasACause say of one step.
CodeStep  == ~(SameCode' \subseteq SameCode) => Lands("companies", {})
StrayStep == ~(Strays' \subseteq Strays) => Lands("companies", {"update"})
TwiceStep == ~(Twice' \subseteq Twice) => Lands("companies", {"update"})

LEMMA CompaniesSame ==
    ASSUME UNCHANGED <<companies, attached>>
    PROVE  CodeStep /\ StrayStep /\ TwiceStep
BY DEF CodeStep, StrayStep, TwiceStep, SameCode, Strays, Twice, Known, RowsOf, Rows

LEMMA CompaniesSteps ==
    ASSUME CompaniesInv, RequestsOK, NEW p \in Proc, CommitCompany(p)
    PROVE  CodeStep /\ StrayStep /\ TwiceStep
<1> DEFINE r == request[p]
<1>1. CompanyLanding(r)
  BY CompaniesLand
<1>2. Pending(p, "companies") /\ request'[p] = Idle
  BY Landed DEF CommitCompany, Table
<1>3. CASE ~r.fresh
  BY <1>2, <1>3 DEF CodeStep, StrayStep, TwiceStep, Lands
<1>4. /\ companies \in [Company -> CompanyRow \cup {NoCompany}]
      /\ \A row \in attached : row.company \in Known
  BY DEF CompaniesInv, CompaniesTypeOK
<1>5. CASE /\ r \in NewCompany /\ CodeOf(r.row.code) = {}
           /\ \E c \in Company \ Known : companies' = [companies EXCEPT ![c] = r.row]
           /\ UNCHANGED <<attached, lastRow>>
  <2>1. r.row.beneficiary = Nobody
    BY <1>5 DEF NewCompany
  <2> HIDE DEF r
  <2>2. PICK c \in Company \ Known : companies' = [companies EXCEPT ![c] = r.row]
    BY <1>5
  <2>3. /\ companies'[c] = r.row /\ \A d \in Known : companies'[d] = companies[d]
        /\ Known' \subseteq Known \cup {c}
    BY <1>4, <2>2 DEF Known
  <2>4. SameCode' \subseteq SameCode
    <3>1. \A d \in Known : companies'[d].code # r.row.code
      BY <1>5, <2>3 DEF CodeOf
    <3> QED
      BY <2>3, <3>1 DEF SameCode
  <2>5. Strays' \subseteq Strays
    BY <1>5, <2>1, <2>3 DEF Strays, RowsOf, Rows
  <2>6. Twice' \subseteq Twice
    BY <1>4, <1>5, <2>3 DEF Twice, RowsOf, Rows
  <2> QED
    BY <2>4, <2>5, <2>6 DEF CodeStep, StrayStep, TwiceStep
<1>6. CASE /\ r \in CompanyEdit /\ r.id \in Known /\ CompanyEditJudged(r)
           /\ \A row \in r.write.drop : row.company = r.id
           /\ CompanyAfter(r) \in CompanyRow
           /\ companies' = [companies EXCEPT ![r.id] = CompanyAfter(r)]
           /\ attached' = (attached \ r.write.drop) \cup
                {[id |-> lastRow + k, company |-> r.id, user |-> r.write.add[k]] :
                   k \in DOMAIN r.write.add}
  <2> DEFINE new == CompanyAfter(r)
             added == {[id |-> lastRow + k, company |-> r.id, user |-> r.write.add[k]] :
                         k \in DOMAIN r.write.add}
  <2>1. r.op = "update" /\ r.id \in Company
    BY <1>6 DEF CompanyEdit
  <2>2. /\ companies'[r.id] = new
        /\ \A c \in Company \ {r.id} : companies'[c] = companies[c]
        /\ Known' = Known /\ Known \subseteq Company
    <3>1. NoCompany \notin CompanyRow
      BY DEF NoCompany, CompanyRow
    <3> QED
      BY <1>4, <1>6, <2>1, <3>1 DEF Known
  <2>3. /\ CodeJudged(r.id, new)
        /\ r.write.by # "update" => PeopleJudged(r.id, new, r.write.drop, r.write.add)
    BY <1>6 DEF CompanyEditJudged
  <2> HIDE DEF r, new
  <2>4. SameCode' \subseteq SameCode
    <3>1. CASE new.code = companies[r.id].code
      <4>1. \A c \in Known : companies'[c].code = companies[c].code
        BY <2>2, <3>1
      <4> QED
        BY <2>2, <4>1 DEF SameCode
    <3>2. CASE CodeOf(new.code) \subseteq {r.id}
      <4>1. \A c \in Known \ {r.id} : companies[c].code # new.code
        BY <3>2 DEF CodeOf
      <4> QED
        BY <2>2, <4>1 DEF SameCode
    <3> QED
      BY <2>3, <3>1, <3>2 DEF CodeJudged
  <2>5. r.write.by = "update" \/ Strays' \subseteq Strays
    <3>1. ASSUME r.write.by # "update", NEW c \in Strays' PROVE c \in Strays
      <4>1. /\ c \in Known /\ companies'[c].beneficiary # Nobody
            /\ \A row \in attached' : ~(row.company = c /\ row.user = companies'[c].beneficiary)
        BY <2>2, <3>1 DEF Strays, RowsOf, Rows
      <4>2. companies'[c].beneficiary = companies[c].beneficiary
        BY <2>2, <2>3, <3>1, <4>1 DEF PeopleJudged
      <4>3. ASSUME NEW row \in RowsOf(c, companies[c].beneficiary) PROVE FALSE
        <5>1. row \in attached /\ row.company = c /\ row.user = companies[c].beneficiary
          BY DEF RowsOf, Rows
        <5>2. row \notin r.write.drop
          BY <1>6, <2>2, <2>3, <3>1, <4>1, <4>2, <5>1 DEF PeopleJudged
        <5>3. row \in attached'
          BY <1>6, <5>1, <5>2
        <5> QED
          BY <4>1, <4>2, <5>1, <5>3
      <4> QED
        BY <4>1, <4>2, <4>3 DEF Strays
    <3> QED
      BY <3>1
  <2>6. r.write.by = "update" \/ Twice' \subseteq Twice
    <3>1. ASSUME r.write.by # "update", NEW c \in Known, NEW u \in Person,
                 NEW first \in RowsOf(c, u)', NEW second \in RowsOf(c, u)', first # second
          PROVE  <<c, u>> \in Twice
      <4>1. /\ first \in attached' /\ first.company = c /\ first.user = u
            /\ second \in attached' /\ second.company = c /\ second.user = u
        BY DEF RowsOf, Rows
      <4>2. CASE first \in attached /\ second \in attached
        BY <3>1, <4>1, <4>2 DEF Twice, RowsOf, Rows
      <4>3. CASE first \in added \/ second \in added
        <5>1. PICK v \in Person : r.write.add = <<v>> /\ RowsOf(r.id, v) = {}
          <6>1. r.write.add # <<>>
            BY <4>3
          <6> QED
            BY <2>3, <3>1, <6>1 DEF PeopleJudged
        <5>2. added = {[id |-> lastRow + 1, company |-> r.id, user |-> v]}
          <6>1. DOMAIN r.write.add = {1} /\ r.write.add[1] = v
            BY <5>1
          <6> QED
            BY <6>1
        <5>3. c = r.id /\ u = v
          BY <4>1, <4>3, <5>2
        <5>4. first \in added /\ second \in added
          BY <1>6, <4>1, <5>1, <5>3 DEF RowsOf, Rows
        <5> QED
          BY <3>1, <5>2, <5>4
      <4> QED
        BY <1>6, <4>1, <4>2, <4>3
    <3> QED
      BY <2>2, <3>1 DEF Twice
  <2> QED
    BY <1>2, <2>1, <2>4, <2>5, <2>6 DEF CodeStep, StrayStep, TwiceStep, Lands, r
<1> QED
  BY <1>1, <1>3, <1>5, <1>6 DEF CompanyLanding

LEMMA CommissionsLanded ==
    ASSUME CompaniesInv, RequestsOK, NEW p \in Proc, CommitCommissionUser(p)
    PROVE  RequestsOK' /\ CompaniesInv'
<1> DEFINE r == request[p]
           t == "company_commission_users"
           Payment == [id : 1 .. MaxAttached, company : Known, user : Person,
                       commission : {0, 1}]
<1>1. /\ Pending(p, t) /\ Commit(p, t) /\ UNCHANGED <<companies, attached>>
      /\ t \in Table /\ CommissionRequest(r)
  BY DEF CommitCommissionUser, CompaniesInv, Table
<1>2. /\ RequestsOK'
      /\ \A q \in Proc : request'[q].table = t =>
           /\ request[q].table = t
           /\ request'[q] = [request[q] EXCEPT !.fresh = FALSE]
      /\ raced' = IF r.fresh THEN raced ELSE raced \cup {t}
      /\ Elsewhere({"companies"})
  <2>1. {"companies"} \in SUBSET Table /\ t \notin {"companies"}
    BY DEF Table
  <2> HIDE DEF t
  <2> QED
    BY <1>1, <2>1, Landed
<1> HIDE DEF r
<1>3. /\ paid \subseteq Payment /\ lastRow \in 0 .. MaxAttached /\ MaxAttached \in Nat
      /\ t \notin raced => \A c \in Known, u \in Person :
           \A first, second \in PaidOf(c, u) : first = second
  BY MaxAttachedAssumption DEF CompaniesInv, CompaniesTypeOK, CommissionUserOnce
\* A row of paid is a function of its company and its user while nothing raced.
<1>4. ASSUME t \notin raced, NEW first \in paid, NEW second \in paid,
             first.company = second.company, first.user = second.user
      PROVE  first = second
  BY <1>3, <1>4 DEF PaidOf
<1>5. /\ paid' \subseteq Payment /\ lastRow' \in 0 .. MaxAttached
      /\ t \notin raced' =>
           \A first, second \in paid' :
             first.company = second.company /\ first.user = second.user => first = second
  <2>1. CASE /\ r.op = "insert" /\ lastRow < MaxAttached
             /\ paid' = paid \cup {[id |-> lastRow + 1, company |-> r.row.company,
                                     user |-> r.row.user, commission |-> 0]}
             /\ lastRow' = lastRow + 1
    <3> DEFINE new == [id |-> lastRow + 1, company |-> r.row.company,
                       user |-> r.row.user, commission |-> 0]
    <3>1. /\ r.row.company \in Known /\ r.row.user \in Person
          /\ r.fresh => PaidOf(r.row.company, r.row.user) = {}
      BY <1>1, <2>1 DEF CommissionRequest
    <3>2. new \in Payment /\ lastRow' \in 0 .. MaxAttached
      BY <1>3, <2>1, <3>1
    <3>3. new.company = r.row.company /\ new.user = r.row.user
      OBVIOUS
    <3>4. paid' = paid \cup {new}
      BY <2>1
    <3> HIDE DEF new
    <3>5. ASSUME t \notin raced' PROVE t \notin raced /\ r.fresh
      BY <1>2, <3>5
    <3>6. r.fresh => \A row \in paid : row.company # new.company \/ row.user # new.user
      BY <3>1, <3>3 DEF PaidOf
    <3>7. ASSUME t \notin raced', NEW first \in paid', NEW second \in paid',
                 first.company = second.company, first.user = second.user
          PROVE  first = second
      BY <1>4, <3>4, <3>5, <3>6, <3>7
    <3> QED
      BY <1>3, <3>2, <3>4, <3>7
  <2>2. CASE /\ r.op = "update"
             /\ paid' = {IF row.id = r.id THEN Merge(r.write, row) ELSE row : row \in paid}
             /\ UNCHANGED lastRow
    <3> DEFINE now(row) == IF row.id = r.id THEN Merge(r.write, row) ELSE row
    <3>1. r.write \in SUBSET ({"commission"} \X {0, 1})
      BY <1>1, <2>2 DEF CommissionRequest
    <3>2. ASSUME NEW row \in paid
          PROVE  now(row) \in Payment /\ now(row).company = row.company /\ now(row).user = row.user
      <4> DEFINE m == Merge(r.write, row)
                 columns == {"id", "company", "user", "commission"}
      <4>1. row \in Payment /\ DOMAIN row = columns
        BY <1>3
      <4>2. \A w \in r.write : w = <<w[1], w[2]>> /\ w[1] = "commission" /\ w[2] \in {0, 1}
        BY <3>1
      <4>3. m = [f \in columns |-> m[f]] /\ \A f \in columns : m[f] = row[f] \/ <<f, m[f]>> \in r.write
        <5>1. DOMAIN m = columns /\ m = [f \in columns |-> m[f]]
          BY <4>1 DEF Merge
        <5>2. \A f \in columns : m[f] = row[f] \/ <<f, m[f]>> \in r.write
          BY <4>1, <4>2, MergeColumn
        <5> QED
          BY <5>1, <5>2
      <4> HIDE DEF m
      <4>4. /\ m["id"] = row["id"] /\ m["company"] = row["company"] /\ m["user"] = row["user"]
            /\ m["commission"] = row["commission"] \/ m["commission"] \in {0, 1}
        BY <4>2, <4>3
      <4>5. m = [id |-> m.id, company |-> m.company, user |-> m.user, commission |-> m.commission]
        BY <4>3
      <4>6. m \in Payment
        BY <4>1, <4>4, <4>5
      <4> QED
        BY <4>1, <4>4, <4>6 DEF m
    <3>3. paid' = {now(row) : row \in paid}
      BY <2>2
    <3> HIDE DEF now
    <3>4. ASSUME t \notin raced', NEW first \in paid', NEW second \in paid',
                 first.company = second.company, first.user = second.user
          PROVE  first = second
      <4>1. PICK f \in paid, s \in paid : first = now(f) /\ second = now(s)
        BY <3>3, <3>4
      <4>2. t \notin raced
        BY <1>2, <3>4
      <4> QED
        BY <1>4, <3>2, <3>4, <4>1, <4>2
    <3> QED
      BY <1>3, <2>2, <3>2, <3>3, <3>4
  <2>3. CASE r.op = "delete" /\ paid' = {row \in paid : row.id # r.id} /\ UNCHANGED lastRow
    BY <1>2, <1>3, <1>4, <2>3
  <2> QED
    BY <2>1, <2>2, <2>3 DEF CommitCommissionUser, r
<1>6. Known' = Known
  BY <1>1 DEF Known
<1>7. CompaniesTypeOK' /\ companies' \in [Company -> CompanyRow \cup {NoCompany}]
  BY <1>1, <1>5, <1>6 DEF CompaniesInv, CompaniesTypeOK
<1>8. CommissionUserOnce'
  BY <1>5 DEF CommissionUserOnce, PaidOf
<1>9. ASSUME NEW q \in Proc, Pending(q, "companies")'
      PROVE  CompanyRequest(request[q])'
  <2>1. request'[q] = request[q] /\ CompanyRequest(request[q])
    BY <1>2, <1>9 DEF CompaniesInv, Pending, Elsewhere
  <2> QED
    BY <1>1, <1>6, <2>1 DEF CompanyRequest, CompanyEditJudged, CodeJudged, PeopleJudged,
                           CompanyAfter, CodeOf, RowsOf, Rows
<1>10. ASSUME NEW q \in Proc, Pending(q, t)'
       PROVE  CommissionRequest(request[q])'
  <2>1. CommissionRequest(request[q]) /\ request'[q] = [request[q] EXCEPT !.fresh = FALSE]
    BY <1>2, <1>10 DEF CompaniesInv, Pending
  <2>2. /\ DOMAIN request'[q] = DOMAIN request[q] /\ request'[q].fresh = FALSE
        /\ request'[q].op = request[q].op /\ request'[q].row = request[q].row
        /\ request'[q].write = request[q].write
    BY <2>1 DEF CommissionRequest
  <2> QED
    BY <1>6, <2>1, <2>2 DEF CommissionRequest
<1> QED
  BY <1>2, <1>7, <1>8, <1>9, <1>10 DEF CompaniesInv

LEMMA CompaniesStep ==
    ASSUME CompaniesInv, RequestsOK, NEW p \in Proc,
           RegisterNext(p) \/ PeopleNext(p) \/ CommissionsNext(p)
    PROVE  RequestsOK' /\ CompaniesInv' /\ CodeStep /\ StrayStep /\ TwiceStep
<1>1. /\ {} \in SUBSET CompanyColumn
      /\ \A sc \in ShortCode : {<<"code", sc>>} \in SUBSET CompanyColumn
      /\ \A s \in Status : {<<"status", s>>} \in SUBSET CompanyColumn
      /\ \A u \in Person \cup {Nobody} : {<<"beneficiary", u>>} \in SUBSET CompanyColumn
  BY DEF CompanyColumn
<1>2. CASE CommitCompany(p)
  BY <1>2, CompaniesLanded, CompaniesSteps
<1>3. CASE CommitCommissionUser(p)
  BY <1>3, CommissionsLanded, CompaniesSame DEF CommitCommissionUser
<1>4. CASE \/ \E c \in Company, u \in Person : StoreCommissionUser(p, c, u)
           \/ \E row \in paid : \/ DestroyCommissionUser(p, row)
                                \/ \E n \in {0, 1} : UpdateCommissionUser(p, row, n)
  <2>1. UNCHANGED <<companies, attached>>
    BY <1>4 DEF StoreCommissionUser, DestroyCommissionUser, UpdateCommissionUser, companyVars
  <2> QED
    BY <1>4, <2>1, CommissionsBegun, CompaniesSame
<1>5. CASE \/ \E sc \in ShortCode : StoreCompany(p, sc)
           \/ \E c \in Company :
                \/ Suspend(p, c) \/ Archive(p, c) \/ Activate(p, c)
                \/ \E u \in Person : AttachUser(p, c, u) \/ DetachUser(p, c, u)
                \/ \E body \in SUBSET CompanyColumn, users \in {{}} \cup {{list} : list \in Lists} :
                     UpdateCompany(p, c, body, users)
  <2>1. UNCHANGED <<companies, attached>>
    BY <1>5 DEF StoreCompany, Suspend, Archive, Activate, AttachUser, DetachUser,
                UpdateCompany, companyVars
  <2> QED
    BY <1>5, <2>1, CompaniesBegun, CompaniesSame
<1>6. ASSUME RegisterNext(p) \/ PeopleNext(p), ~CommitCompany(p)
      PROVE  \/ \E sc \in ShortCode : StoreCompany(p, sc)
             \/ \E c \in Company :
                  \/ Suspend(p, c) \/ Archive(p, c) \/ Activate(p, c)
                  \/ \E u \in Person : AttachUser(p, c, u) \/ DetachUser(p, c, u)
                  \/ \E body \in SUBSET CompanyColumn, users \in {{}} \cup {{list} : list \in Lists} :
                       UpdateCompany(p, c, body, users)
  BY <1>1, <1>6 DEF RegisterNext, PeopleNext
<1> QED
  BY <1>2, <1>3, <1>4, <1>5, <1>6 DEF CommissionsNext

-----------------------------------------------------------------------------
(***************************************************************************)
(* The whole.  A part leaves the tables of the others alone.               *)
(***************************************************************************)
LEMMA GoElsewhere ==
    ASSUME RequestsOK, NEW p \in Proc, NEW r, Go(p, r), UNCHANGED raced,
           NEW T \in SUBSET Table, r.table \notin T
    PROVE  Elsewhere(T)
BY DEF RequestsOK, Go, Elsewhere

LEMMA TableOf ==
    ASSUME NEW t, NEW x, NEW y
    PROVE  Insert(t, x).table = t /\ Delete(t, x).table = t /\ Update(t, x, y).table = t
BY DEF Insert, Delete, Update

LEMMA AccountsStep ==
    ASSUME AccountsInv, RequestsOK, NEW p \in Proc, EmailsNext(p) \/ RolesNext(p)
    PROVE  /\ RequestsOK' /\ AccountsInv' /\ EmailStep /\ UnpaidStep /\ RolesStep
           /\ \A T \in SUBSET Table : "accounts" \notin T => Elsewhere(T)
<1>1. CASE CommitAccount(p)
  <2>1. Pending(p, "accounts") /\ Commit(p, "accounts") /\ "accounts" \in Table
    BY <1>1 DEF CommitAccount, Table
  <2> QED
    BY <1>1, <2>1, Landed, AccountsLanded, AccountsSteps
<1>2. CASE \/ \E email \in Email, roles \in SUBSET Role, commissions \in BOOLEAN :
                StoreAccount(p, email, roles, commissions)
           \/ \E u \in Live, email \in Email, sent \in Sent, commissions \in BOOLEAN :
                UpdateAccount(p, u, email, sent, commissions)
           \/ \E u \in User : DestroyAccount(p, u) \/ RestoreAccount(p, u)
  <2>1. /\ AccountsInv' /\ UNCHANGED <<raced, accountVars>>
        /\ \E r : Go(p, r) /\ r \in NewAccount \cup AccountEdit
    BY <1>2, AccountsBegun
  <2>2. PICK r : Go(p, r) /\ r \in NewAccount \cup AccountEdit
    BY <2>1
  <2>3. "table" \in DOMAIN r /\ r.table = "accounts" /\ "accounts" \in Table
    BY <2>2 DEF NewAccount, AccountEdit, Table
  <2> QED
    BY <2>1, <2>2, <2>3, Begun, AccountsSame
<1>3. ASSUME ~CommitAccount(p)
      PROVE  \/ \E email \in Email, roles \in SUBSET Role, commissions \in BOOLEAN :
                  StoreAccount(p, email, roles, commissions)
             \/ \E u \in Live, email \in Email, sent \in Sent, commissions \in BOOLEAN :
                  UpdateAccount(p, u, email, sent, commissions)
             \/ \E u \in User : DestroyAccount(p, u) \/ RestoreAccount(p, u)
  <2>1. \A u \in Live : accounts[u].email \in Email
    BY DEF Live, Accounts, AccountsInv, AccountsTypeOK, Account
  <2>2. {} \in Sent /\ {} \in SUBSET Role /\ FALSE \in BOOLEAN
    BY DEF Sent
  <2> QED
    BY <1>3, <2>1, <2>2 DEF EmailsNext, RolesNext
<1> QED
  BY <1>1, <1>2, <1>3

LEMMA PasswordsLeave ==
    ASSUME RequestsOK, NEW p \in Proc, PasswordsNext(p),
           NEW T \in SUBSET Table, "passwords" \notin T
    PROVE  Elsewhere(T)
<1>1. CASE Pending(p, "passwords") /\ Commit(p, "passwords")
  BY <1>1, Landed DEF Table
<1>2. CASE UNCHANGED <<request, raced>>
  BY <1>2 DEF Elsewhere, RequestsOK
<1>3. CASE UNCHANGED raced /\ \E id, write : Go(p, Update("passwords", id, write))
  BY <1>3, TableOf, GoElsewhere
<1> QED
  BY <1>1, <1>2, <1>3 DEF PasswordsNext, ChangePassword, CommitChange, YearPasses,
     ForgotPassword, ResetPassword, CommitReset, RevokeSessions, SetStatus

LEMMA AclLeaves ==
    ASSUME RequestsOK, NEW p \in Proc, AclNext(p),
           NEW T \in SUBSET Table, T \cap AclTables = {}
    PROVE  Elsewhere(T)
<1>1. CASE \E t \in AclTables : Pending(p, t) /\ Commit(p, t)
  BY <1>1, Landed DEF Table, AclTables, Tables
<1>2. CASE UNCHANGED raced /\ \E t \in AclTables : \E r : Go(p, r) /\ r.table = t
  BY <1>2, GoElsewhere
<1>3. ASSUME NEW t \in Tables, NEW n \in Name, NEW g \in Guard,
             StoreNamed(p, t, n, g) \/ \E i \in Row(t) : UpdateNamed(p, t, i, n, g)
      PROVE  Elsewhere(T)
  BY <1>2, <1>3, TableOf DEF StoreNamed, UpdateNamed, AclTables
<1>4. ASSUME NEW g \in Guard, NEW role \in RoleRow, NEW permission \in PermissionRow,
             NEW value \in BOOLEAN, ToggleAssignment(p, g, role, permission, value)
      PROVE  Elsewhere(T)
  BY <1>2, <1>4, TableOf DEF ToggleAssignment, AclTables
<1>5. "roles" \in Tables /\ "permissions" \in Tables
  BY DEF Tables
<1> QED
  BY <1>1, <1>3, <1>4, <1>5 DEF AclNext, StoreRole, StorePermission, UpdateRole,
     UpdatePermission, CommitNamed, CommitToggle, AclTables, Row

LEMMA CompaniesLeave ==
    ASSUME RequestsOK, NEW p \in Proc, RegisterNext(p) \/ PeopleNext(p) \/ CommissionsNext(p),
           NEW T \in SUBSET Table, T \cap CompanyTables = {}
    PROVE  Elsewhere(T)
<1>1. CASE \E t \in CompanyTables : Pending(p, t) /\ Commit(p, t)
  BY <1>1, Landed DEF Table, CompanyTables
<1>2. ASSUME UNCHANGED raced, NEW t \in CompanyTables, NEW r, Go(p, r), r.table = t
      PROVE  Elsewhere(T)
  BY <1>2, GoElsewhere
<1>3. "companies" \in CompanyTables /\ "company_commission_users" \in CompanyTables
  BY DEF CompanyTables
<1>4. ASSUME NEW by, NEW c, NEW columns, NEW drop, NEW add, UNCHANGED raced,
             Save(p, by, c, columns, drop, add)
      PROVE  Elsewhere(T)
  BY <1>2, <1>3, <1>4, TableOf DEF Save
<1>5. ASSUME UNCHANGED raced,
             \/ \E row : Go(p, Insert("companies", row))
             \/ \E row : Go(p, Insert("company_commission_users", row))
             \/ \E id, write : Go(p, Update("company_commission_users", id, write))
             \/ \E id : Go(p, Delete("company_commission_users", id))
      PROVE  Elsewhere(T)
  BY <1>2, <1>3, <1>5, TableOf
<1>6. CASE \E sc \in ShortCode : StoreCompany(p, sc)
  BY <1>5, <1>6 DEF StoreCompany
<1>7. CASE \E c, u, body, users :
             \/ Suspend(p, c) \/ Archive(p, c) \/ Activate(p, c)
             \/ AttachUser(p, c, u) \/ DetachUser(p, c, u) \/ UpdateCompany(p, c, body, users)
  BY <1>4, <1>7 DEF Suspend, Archive, Activate, AttachUser, DetachUser, UpdateCompany
<1>8. CASE \E c, u, row, n : \/ StoreCommissionUser(p, c, u) \/ DestroyCommissionUser(p, row)
                             \/ UpdateCommissionUser(p, row, n)
  BY <1>5, <1>8 DEF StoreCommissionUser, DestroyCommissionUser, UpdateCommissionUser
<1>9. CASE CommitCompany(p) \/ CommitCommissionUser(p)
  BY <1>1, <1>3, <1>9 DEF CommitCompany, CommitCommissionUser
<1> QED
  BY <1>6, <1>7, <1>8, <1>9 DEF RegisterNext, PeopleNext, CommissionsNext

-----------------------------------------------------------------------------
Inductive == RequestsOK /\ AccountsInv /\ PasswordsInv /\ AclInv /\ CompaniesInv

LEMMA InductiveInit == AdministrationInit => Inductive
<1> SUFFICES ASSUME AdministrationInit PROVE Inductive
  OBVIOUS
<1>1. RequestsOK /\ \A p \in Proc : request[p].table = "none"
  BY DEF AdministrationInit, RequestsInit, RequestsOK, Idle, Free
<1>2. AccountsInv
  BY <1>1 DEF AdministrationInit, AccountsInit, AccountsInv, AccountsTypeOK, Accounts, Pending
<1>3. PasswordsInv
  <2>1. /\ password \in Password /\ status = "active" /\ token = 0 /\ history = <<>>
        /\ past = <<>> /\ links = 0 /\ uses = [link \in Link |-> 0] /\ bypassed = FALSE
    BY DEF AdministrationInit, PasswordsInit, NoToken
  <2>2. MaxLinks \in Nat /\ 0 \notin Link /\ <<>> \in Seq(Entry)
    BY PasswordBoundsAssumption DEF Link
  <2>3. PasswordsTypeOK
    <3>1. uses \in [Link -> Nat] /\ links \in 0 .. MaxLinks
      BY <2>1, <2>2
    <3>2. history \in Seq(Entry) /\ past \in Seq(Entry)
      BY <2>1, <2>2
    <3> QED
      BY <2>1, <3>1, <3>2 DEF PasswordsTypeOK, NoToken
  <2>4. Ages(history) /\ Ages(past) /\ LinkUnused /\ HistoryTold /\ ResetLinkWorksOnce
    BY <2>1, <2>2 DEF Ages, LinkUnused, HistoryTold, ResetLinkWorksOnce
  <2>5. NoRecentReuse
    <3>1. DOMAIN Push(password, past) = {1}
      BY <2>1 DEF Push
    <3> QED
      BY <3>1 DEF NoRecentReuse
  <2> QED
    BY <1>1, <2>3, <2>4, <2>5 DEF PasswordsInv, Pending
<1>4. AclInv
  <2>1. \A t \in Tables : \A i \in Row(t) : named[t][i] = NoName
    BY DEF AdministrationInit, AclInit
  <2>2. NamesDiffer
    BY <2>1 DEF NamesDiffer
  <2> QED
    BY <1>1, <2>2 DEF AdministrationInit, AclInit, AclInv, AclTypeOK, GrantsStayInGuard,
                      Pending, Tables
<1>5. CompaniesInv
  <2>1. companies \in [Company -> CompanyRow \cup {NoCompany}]
    <3>1. AcmeRow \in CompanyRow
      BY ShortCodeAssumption DEF AcmeRow, CompanyRow, Status
    <3> QED
      BY <3>1 DEF AdministrationInit, CompaniesInit
  <2>2. attached = {} /\ paid = {} /\ lastRow = 0 /\ MaxAttached \in Nat
    BY MaxAttachedAssumption DEF AdministrationInit, CompaniesInit
  <2>3. CompaniesTypeOK
    BY <2>1, <2>2 DEF CompaniesTypeOK, CompanyRow, Known
  <2>4. CommissionUserOnce
    BY <2>2 DEF CommissionUserOnce, PaidOf
  <2> QED
    BY <1>1, <2>1, <2>3, <2>4 DEF CompaniesInv, Pending
<1> QED
  BY <1>1, <1>2, <1>3, <1>4, <1>5 DEF Inductive

StepsHaveCauses ==
    EmailStep /\ UnpaidStep /\ RolesStep /\ CodeStep /\ StrayStep /\ TwiceStep

LEMMA InductiveStep ==
    ASSUME Inductive, [AdministrationNext]_administrationVars
    PROVE  Inductive' /\ StepsHaveCauses
<1>1. /\ {"accounts"} \in SUBSET Table /\ {"passwords"} \in SUBSET Table
      /\ AclTables \in SUBSET Table /\ CompanyTables \in SUBSET Table
      /\ "accounts" \notin {"passwords"} \cup AclTables \cup CompanyTables
      /\ "passwords" \notin {"accounts"} \cup AclTables \cup CompanyTables
      /\ {"accounts"} \cap AclTables = {} /\ {"passwords"} \cap AclTables = {}
      /\ CompanyTables \cap AclTables = {} /\ AclTables \cap CompanyTables = {}
      /\ {"accounts"} \cap CompanyTables = {} /\ {"passwords"} \cap CompanyTables = {}
  BY DEF Table, AclTables, Tables, CompanyTables
<1>2. CASE UNCHANGED administrationVars
  <2>1. \A T \in SUBSET Table : Elsewhere(T)
    BY <1>2 DEF administrationVars, Elsewhere, Inductive, RequestsOK
  <2>2. RequestsOK'
    BY <1>2 DEF administrationVars, Inductive, RequestsOK, Free
  <2>3. UNCHANGED <<accountVars, passwordVars, aclVars, companyVars>>
    BY <1>2 DEF administrationVars
  <2>4. UNCHANGED <<companies, attached>>
    BY <2>3 DEF companyVars
  <2> QED
    BY <1>1, <2>1, <2>2, <2>3, <2>4, AccountsElsewhere, PasswordsElsewhere, AclElsewhere,
       CompaniesElsewhere, AccountsSame, CompaniesSame DEF Inductive, StepsHaveCauses
<1>3. ASSUME NEW p \in Proc, EmailsNext(p) \/ RolesNext(p),
             UNCHANGED <<passwordVars, aclVars, companyVars>>
      PROVE  Inductive' /\ StepsHaveCauses
  <2>1. UNCHANGED <<companies, attached>>
    BY <1>3 DEF companyVars
  <2>2. /\ RequestsOK' /\ AccountsInv' /\ EmailStep /\ UnpaidStep /\ RolesStep
        /\ Elsewhere({"passwords"}) /\ Elsewhere(AclTables) /\ Elsewhere(CompanyTables)
    BY <1>1, <1>3, AccountsStep DEF Inductive
  <2> QED
    BY <1>3, <2>1, <2>2, PasswordsElsewhere, AclElsewhere, CompaniesElsewhere, CompaniesSame
       DEF Inductive, StepsHaveCauses
<1>4. ASSUME NEW p \in Proc, PasswordsNext(p), UNCHANGED <<accountVars, aclVars, companyVars>>
      PROVE  Inductive' /\ StepsHaveCauses
  <2>1. UNCHANGED <<companies, attached>>
    BY <1>4 DEF companyVars
  <2>2. Elsewhere({"accounts"}) /\ Elsewhere(AclTables) /\ Elsewhere(CompanyTables)
    BY <1>1, <1>4, PasswordsLeave DEF Inductive
  <2> QED
    BY <1>4, <2>1, <2>2, PasswordsStep, AccountsElsewhere, AclElsewhere, CompaniesElsewhere,
       AccountsSame, CompaniesSame DEF Inductive, StepsHaveCauses
<1>5. ASSUME NEW p \in Proc, AclNext(p), UNCHANGED <<accountVars, passwordVars, companyVars>>
      PROVE  Inductive' /\ StepsHaveCauses
  <2>1. UNCHANGED <<companies, attached>>
    BY <1>5 DEF companyVars
  <2>2. Elsewhere({"accounts"}) /\ Elsewhere({"passwords"}) /\ Elsewhere(CompanyTables)
    BY <1>1, <1>5, AclLeaves DEF Inductive
  <2> QED
    BY <1>5, <2>1, <2>2, AclStep, AccountsElsewhere, PasswordsElsewhere, CompaniesElsewhere,
       AccountsSame, CompaniesSame DEF Inductive, StepsHaveCauses
<1>6. ASSUME NEW p \in Proc, RegisterNext(p) \/ PeopleNext(p) \/ CommissionsNext(p),
             UNCHANGED <<accountVars, passwordVars, aclVars>>
      PROVE  Inductive' /\ StepsHaveCauses
  <2>1. Elsewhere({"accounts"}) /\ Elsewhere({"passwords"}) /\ Elsewhere(AclTables)
    BY <1>1, <1>6, CompaniesLeave DEF Inductive
  <2> QED
    BY <1>6, <2>1, CompaniesStep, AccountsElsewhere, PasswordsElsewhere, AclElsewhere,
       AccountsSame DEF Inductive, StepsHaveCauses
<1>7. ASSUME NEW p \in Proc, Drop(p),
             UNCHANGED <<accountVars, passwordVars, aclVars, companyVars>>
      PROVE  Inductive' /\ StepsHaveCauses
  <2>1. RequestsOK' /\ \A T \in SUBSET Table : Elsewhere(T)
    BY <1>7, Dropped DEF Inductive
  <2>2. UNCHANGED <<companies, attached>>
    BY <1>7 DEF companyVars
  <2> QED
    BY <1>1, <1>7, <2>1, <2>2, AccountsElsewhere, PasswordsElsewhere, AclElsewhere,
       CompaniesElsewhere, AccountsSame, CompaniesSame DEF Inductive, StepsHaveCauses
<1> QED
  BY <1>2, <1>3, <1>4, <1>5, <1>6, <1>7 DEF AdministrationNext

LEMMA InductiveTypes ==
    ASSUME Inductive
    PROVE  AdministrationTypeOK
<1>1. ASSUME NEW p \in Proc PROVE Free(p) \/ request[p].op \in {"insert", "update", "delete"}
  <2>1. CASE Pending(p, "accounts")
    BY <2>1 DEF Inductive, AccountsInv, AccountRequest, NewAccount, AccountEdit
  <2>2. CASE Pending(p, "passwords")
    BY <2>2 DEF Inductive, PasswordsInv, PasswordRequest, ChangeRequest, ResetRequest
  <2>3. CASE \E t \in Tables : Pending(p, t)
    BY <2>3 DEF Inductive, AclInv, NameRequest, NewName, Rename
  <2>4. CASE Pending(p, "role_has_permissions")
    BY <2>4 DEF Inductive, AclInv, ToggleRequest
  <2>5. CASE Pending(p, "companies")
    BY <2>5 DEF Inductive, CompaniesInv, CompanyRequest, NewCompany, CompanyEdit
  <2>6. CASE Pending(p, "company_commission_users")
    BY <2>6 DEF Inductive, CompaniesInv, CommissionRequest
  <2> QED
    BY <2>1, <2>2, <2>3, <2>4, <2>5, <2>6 DEF Inductive, RequestsOK, Table, Tables, Pending
<1> QED
  BY <1>1 DEF AdministrationTypeOK, RequestsTypeOK, Inductive, RequestsOK, AccountsInv,
              PasswordsInv, AclInv, CompaniesInv

THEOREM InductiveHolds == AdministrationSpec => []Inductive
<1>1. Inductive /\ [AdministrationNext]_administrationVars => Inductive'
  BY InductiveStep
<1> QED
  BY <1>1, InductiveInit, PTL DEF AdministrationSpec

\* A user never returns to a recent password, whatever else goes on with the
\* row, as long as no two changes overlap and no reset link is used.
THEOREM RecentPasswordsStayAway == AdministrationSpec => []NoRecentReuse
<1>1. Inductive => NoRecentReuse
  BY DEF Inductive, PasswordsInv
<1> QED
  BY <1>1, InductiveHolds, PTL

\* A reset link sets at most one password unless two requests overlap.
THEOREM ResetLinksWorkOnce == AdministrationSpec => []ResetLinkWorksOnce
<1>1. Inductive => ResetLinkWorksOnce
  BY DEF Inductive, PasswordsInv
<1> QED
  BY <1>1, InductiveHolds, PTL

\* Names, commission users, e-mails, short codes and attached users clash only
\* by a write that was overtaken or by an endpoint that does not check.
THEOREM ClashesHaveACause == AdministrationSpec => ClashHasACause
<1>1. Inductive => NamesDiffer /\ CommissionUserOnce
  BY DEF Inductive, AclInv, CompaniesInv
<1>2. Inductive /\ [AdministrationNext]_administrationVars
        => /\ [EmailStep]_<<accountVars, request>>
           /\ [CodeStep]_<<companyVars, request>>
           /\ [TwiceStep]_<<companyVars, request>>
  BY InductiveStep DEF StepsHaveCauses
<1> QED
  BY <1>1, <1>2, InductiveHolds, PTL
     DEF AdministrationSpec, ClashHasACause, EmailClashHasACause, CodeClashHasACause,
         TwiceAttachedHasACause, EmailStep, CodeStep, TwiceStep

\* Grants stay in their guard, and a vendor without commissions or a
\* beneficiary that is not attached has one of the causes named.
THEOREM ReferencesAreKept == AdministrationSpec => ReferencesHold
<1>1. Inductive => AdministrationTypeOK /\ GrantsStayInGuard
  BY InductiveTypes DEF Inductive, AclInv
<1>2. Inductive /\ [AdministrationNext]_administrationVars
        => [UnpaidStep]_<<accountVars, request>> /\ [StrayStep]_<<companyVars, request>>
  BY InductiveStep DEF StepsHaveCauses
<1> QED
  BY <1>1, <1>2, InductiveHolds, PTL
     DEF AdministrationSpec, ReferencesHold, UnpaidVendorHasACause, StrayBeneficiaryHasACause,
         UnpaidStep, StrayStep

\* The roles of a user are a set that somebody sent, unless updates overlap.
THEOREM RolesAreChosen == AdministrationSpec => RolesAreSomebodysChoice
<1>1. Inductive /\ [AdministrationNext]_administrationVars => [RolesStep]_<<accountVars, request>>
  BY InductiveStep DEF StepsHaveCauses
<1> QED
  BY <1>1, InductiveHolds, PTL DEF AdministrationSpec, RolesAreSomebodysChoice, RolesStep
=============================================================================
