----------------------------- MODULE Companies -----------------------------
(***************************************************************************)
(* The companies, the users attached to them and the users that earn       *)
(* commissions from them: companies_controller.py.  Neither the short code *)
(* nor the two lists of users have a unique key.  The columns that no      *)
(* check reads (name, branding, contact, template) are left out, and so is *)
(* the call to the CRM after the commit of store.                          *)
(***************************************************************************)
EXTENDS Integers, Sequences, Requests

CONSTANTS
    Company,      \* companies
    ShortCode,    \* short codes
    Person,       \* users of the system
    MaxAttached   \* bound: rows that company_user or company_commission_users ever get

ASSUME MaxAttachedAssumption == MaxAttached \in Nat
ASSUME ShortCodeAssumption == ShortCode # {}

VARIABLES
    companies,    \* companies: code, status and beneficiary, or NoCompany
    attached,     \* company_user: id, company and user
    paid,         \* company_commission_users: id, company, user and commission
    lastRow       \* ids given so far

companyVars == <<companies, attached, paid, lastRow>>

NoCompany == [code |-> "none"]
Nobody    == "nobody"
Status    == {"active", "inactive", "archived"}
Known     == {c \in Company : companies[c] # NoCompany}

-----------------------------------------------------------------------------
CodeOf(sc) == {c \in Known : companies[c].code = sc}

StoreCompany(p, sc) ==
    /\ Free(p)
    /\ CodeOf(sc) = {}
    /\ Go(p, Insert("companies", [code |-> sc, status |-> "active", beneficiary |-> Nobody]))
    /\ UNCHANGED <<raced, companyVars>>

\* One transaction on the company c: columns, rows of company_user to delete,
\* users to attach.
Save(p, by, c, columns, drop, add) ==
    Go(p, Update("companies", c,
                 [by |-> by, columns |-> Changes(companies[c], Merge(columns, companies[c])),
                  drop |-> drop, add |-> add]))

Rows(c)       == {row \in attached : row.company = c}
RowsOf(c, u)  == {row \in Rows(c) : row.user = u}

\* body is the partial body, the columns sent; users holds the list
\* of users, or nothing when it is not sent.
UpdateCompany(p, c, body, users) ==
    /\ Free(p)
    /\ c \in Known
    /\ \A sc \in Written(body, "code") : CodeOf(sc) \subseteq {c}
    /\ IF users = {} THEN Save(p, "update", c, body, {}, <<>>)
       ELSE \E list \in users : Save(p, "update", c, body, Rows(c), list)
    /\ UNCHANGED <<raced, companyVars>>

Suspend(p, c) ==
    /\ Free(p)
    /\ c \in Known /\ companies[c].status # "archived"
    /\ Save(p, "suspend", c, {<<"status", "inactive">>}, {}, <<>>)
    /\ UNCHANGED <<raced, companyVars>>

Archive(p, c) ==
    /\ Free(p)
    /\ c \in Known
    /\ Save(p, "archive", c, {<<"status", "archived">>}, {}, <<>>)
    /\ UNCHANGED <<raced, companyVars>>

Activate(p, c) ==
    /\ Free(p)
    /\ c \in Known
    /\ Save(p, "activate", c, {<<"status", "active">>}, {}, <<>>)
    /\ UNCHANGED <<raced, companyVars>>

AttachUser(p, c, u) ==
    /\ Free(p)
    /\ c \in Known /\ RowsOf(c, u) = {}
    /\ Save(p, "attach", c, {}, {}, <<u>>)
    /\ UNCHANGED <<raced, companyVars>>

DetachUserMutant(p, c, u) ==
    /\ Free(p)
    /\ c \in Known
    /\ Save(p, "detach", c, {}, RowsOf(c, u), <<>>)
    /\ UNCHANGED <<raced, companyVars>>

DetachUser(p, c, u) ==
    /\ Free(p)
    /\ c \in Known
    /\ Save(p, "detach", c,
            IF companies[c].beneficiary = u THEN {<<"beneficiary", Nobody>>} ELSE {},
            RowsOf(c, u), <<>>)
    /\ UNCHANGED <<raced, companyVars>>

CommitCompany(p) ==
    /\ Pending(p, "companies")
    /\ \/ /\ request[p].op = "insert"
          /\ \E c \in Company \ Known :
               companies' = [companies EXCEPT ![c] = request[p].row]
          /\ UNCHANGED <<attached, lastRow>>
       \/ /\ request[p].op = "update"
          /\ LET c == request[p].id
                 w == request[p].write
             IN  /\ lastRow + Len(w.add) <= MaxAttached
                 /\ companies' = [companies EXCEPT ![c] = Merge(w.columns, @)]
                 /\ attached' = (attached \ w.drop) \cup
                      {[id |-> lastRow + k, company |-> c, user |-> w.add[k]] : k \in DOMAIN w.add}
                 /\ lastRow' = lastRow + Len(w.add)
    /\ Commit(p, "companies")
    /\ UNCHANGED paid

-----------------------------------------------------------------------------
(***************************************************************************)
(* The users that earn a commission from a company.                        *)
(***************************************************************************)
PaidOf(c, u) == {row \in paid : row.company = c /\ row.user = u}

StoreCommissionUser(p, c, u) ==
    /\ Free(p)
    /\ c \in Known /\ PaidOf(c, u) = {}
    /\ Go(p, Insert("company_commission_users", [company |-> c, user |-> u]))
    /\ UNCHANGED <<raced, companyVars>>

UpdateCommissionUser(p, row, commission) ==
    /\ Free(p)
    /\ row \in paid
    /\ Go(p, Update("company_commission_users", row.id, {<<"commission", commission>>}))
    /\ UNCHANGED <<raced, companyVars>>

DestroyCommissionUser(p, row) ==
    /\ Free(p)
    /\ row \in paid
    /\ Go(p, Delete("company_commission_users", row.id))
    /\ UNCHANGED <<raced, companyVars>>

\* An UPDATE or DELETE of a row that is gone is an error: nothing is written.
CommitCommissionUser(p) ==
    /\ Pending(p, "company_commission_users")
    /\ LET t == request[p] IN
       \/ /\ t.op = "insert" /\ lastRow < MaxAttached
          /\ paid' = paid \cup {[id |-> lastRow + 1, company |-> t.row.company,
                                  user |-> t.row.user, commission |-> 0]}
          /\ lastRow' = lastRow + 1
       \/ /\ t.op = "update"
          /\ paid' = {IF row.id = t.id THEN Merge(t.write, row) ELSE row : row \in paid}
          /\ UNCHANGED lastRow
       \/ /\ t.op = "delete"
          /\ paid' = {row \in paid : row.id # t.id}
          /\ UNCHANGED lastRow
    /\ Commit(p, "company_commission_users")
    /\ UNCHANGED <<companies, attached>>

-----------------------------------------------------------------------------
CompaniesInit ==
    /\ companies = [c \in Company |-> NoCompany]
    /\ attached = {}
    /\ paid = {}
    /\ lastRow = 0

Lists == {<<>>} \cup {<<u>> : u \in Person} \cup (Person \X Person)

RegisterNext(p) ==
    \/ \E sc \in ShortCode : StoreCompany(p, sc)
    \/ \E c \in Company :
         \/ Suspend(p, c) \/ Archive(p, c) \/ Activate(p, c)
         \/ \E sc \in ShortCode : UpdateCompany(p, c, {<<"code", sc>>}, {})
         \/ \E s \in Status : UpdateCompany(p, c, {<<"status", s>>}, {})
    \/ CommitCompany(p)

PeopleNext(p) ==
    \/ \E c \in Company :
         \/ \E u \in Person : AttachUser(p, c, u) \/ DetachUser(p, c, u)
         \/ \E u \in Person \cup {Nobody} : UpdateCompany(p, c, {<<"beneficiary", u>>}, {})
         \/ \E list \in Lists : UpdateCompany(p, c, {}, {list})
    \/ CommitCompany(p)

CommissionsNext(p) ==
    \/ \E c \in Company, u \in Person : StoreCommissionUser(p, c, u)
    \/ \E row \in paid : \/ DestroyCommissionUser(p, row)
                         \/ \E n \in {0, 1} : UpdateCommissionUser(p, row, n)
    \/ CommitCommissionUser(p)

-----------------------------------------------------------------------------
(***************************************************************************)
(* Properties.  Most name the only causes of a state that the checks are   *)
(* there to prevent: by is the endpoint whose write lands.                 *)
(***************************************************************************)
CompaniesTypeOK ==
    /\ \A c \in Known : companies[c] \in
         [code : ShortCode, status : Status, beneficiary : Person \cup {Nobody}]
    /\ attached \subseteq [id : 1 .. MaxAttached, company : Known, user : Person]
    /\ paid \subseteq [id : 1 .. MaxAttached, company : Known, user : Person, commission : {0, 1}]
    /\ lastRow \in 0 .. MaxAttached

Lands(t, causes) ==
    \E p \in Proc : /\ Pending(p, t) /\ request'[p] = Idle
                    /\ \/ ~request[p].fresh
                       \/ request[p].op = "update" /\ request[p].write.by \in causes

(***************************************************************************)
(* Two companies come to share a short code only by a write that was       *)
(* overtaken.  From then on the queries for that code find two rows and    *)
(* every endpoint that asks for it fails.                                  *)
(***************************************************************************)
SameCode == {pair \in Known \X Known : /\ pair[1] # pair[2]
                                       /\ companies[pair[1]].code = companies[pair[2]].code}

CodeClashHasACause ==
    [][~(SameCode' \subseteq SameCode) => Lands("companies", {})]_<<companyVars, request>>

(***************************************************************************)
(* A company comes to have a beneficiary that is not attached to it only   *)
(* through the form (which asks nothing) or by a write that was overtaken: *)
(* detaching clears the beneficiary.                                       *)
(***************************************************************************)
Strays == {c \in Known : /\ companies[c].beneficiary # Nobody
                         /\ RowsOf(c, companies[c].beneficiary) = {}}

StrayBeneficiaryHasACause ==
    [][~(Strays' \subseteq Strays) => Lands("companies", {"update"})]_<<companyVars, request>>

(***************************************************************************)
(* A user comes to be attached twice, after which attach and the profile   *)
(* fail for that user, only through the form or by a write that was        *)
(* overtaken.                                                              *)
(***************************************************************************)
Twice == {x \in Known \X Person :
            \E first, second \in RowsOf(x[1], x[2]) : first # second}

TwiceAttachedHasACause ==
    [][~(Twice' \subseteq Twice) => Lands("companies", {"update"})]_<<companyVars, request>>

(***************************************************************************)
(* A user earns commissions from a company once, unless requests overlap.  *)
(***************************************************************************)
CommissionUserOnce ==
    "company_commission_users" \notin raced =>
        \A c \in Known, u \in Person :
            \A first, second \in PaidOf(c, u) : first = second
=============================================================================
