--------------------------- MODULE Administration ---------------------------
(***************************************************************************)
(* The administration of accounts: users and their roles, the password of  *)
(* one user, the matrix of roles and permissions, and the companies.  The  *)
(* parts share the machinery of requests and no row that a check of        *)
(* another part reads, so a behaviour here is about one of them, part.     *)
(***************************************************************************)
EXTENDS Accounts, Passwords, Acl, Companies

VARIABLE part   \* what this behaviour is about

administrationVars ==
    <<request, raced, accountVars, passwordVars, aclVars, companyVars, part>>

\* The company that has people: its code is of no account there.
Acme    == CHOOSE c \in Company : TRUE
AcmeRow == [code |-> CHOOSE sc \in ShortCode : TRUE, status |-> "active",
            beneficiary |-> Nobody]

AdministrationInit ==
    /\ RequestsInit
    /\ AccountsInit
    /\ PasswordsInit
    /\ AclInit
    /\ \/ part \in {"emails", "roles", "password", "acl", "register"} /\ CompaniesInit
       \/ /\ part \in {"people", "commissions"}
          /\ companies = [c \in Company |-> IF c = Acme THEN AcmeRow ELSE NoCompany]
          /\ attached = {} /\ paid = {} /\ lastRow = 0

AdministrationNext ==
    \E p \in Proc :
        /\ \/ /\ part = "emails" /\ EmailsNext(p)
              /\ UNCHANGED <<passwordVars, aclVars, companyVars>>
           \/ /\ part = "roles" /\ RolesNext(p)
              /\ UNCHANGED <<passwordVars, aclVars, companyVars>>
           \/ /\ part = "password" /\ PasswordsNext(p)
              /\ UNCHANGED <<accountVars, aclVars, companyVars>>
           \/ /\ part = "acl" /\ AclNext(p)
              /\ UNCHANGED <<accountVars, passwordVars, companyVars>>
           \/ /\ part = "register" /\ RegisterNext(p)
              /\ UNCHANGED <<accountVars, passwordVars, aclVars>>
           \/ /\ part = "people" /\ PeopleNext(p)
              /\ UNCHANGED <<accountVars, passwordVars, aclVars>>
           \/ /\ part = "commissions" /\ CommissionsNext(p)
              /\ UNCHANGED <<accountVars, passwordVars, aclVars>>
           \/ Drop(p) /\ UNCHANGED <<accountVars, passwordVars, aclVars, companyVars>>
        /\ UNCHANGED part

AdministrationSpec == AdministrationInit /\ [][AdministrationNext]_administrationVars

AdministrationTypeOK ==
    RequestsTypeOK /\ AccountsTypeOK /\ PasswordsTypeOK /\ AclTypeOK /\ CompaniesTypeOK

(***************************************************************************)
(* What the endpoints check before they write and no unique key enforces   *)
(* is broken by an overtaken write or by the endpoints that do not check:  *)
(* names in the matrix, commission users, e-mails, short codes, attached   *)
(* users.                                                                  *)
(***************************************************************************)
ClashHasACause ==
    /\ [](NamesDiffer /\ CommissionUserOnce)
    /\ EmailClashHasACause /\ CodeClashHasACause /\ TwiceAttachedHasACause

(***************************************************************************)
(* Rows that belong together stay together: a permission and its role in   *)
(* one guard, a vendor role and its commissions, a beneficiary and its     *)
(* company.                                                                *)
(***************************************************************************)
ReferencesHold ==
    /\ [](AdministrationTypeOK /\ GrantsStayInGuard)
    /\ UnpaidVendorHasACause /\ StrayBeneficiaryHasACause
=============================================================================
