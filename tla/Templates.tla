------------------------------ MODULE Templates ------------------------------
(***************************************************************************)
(* Document templates, their versions and the version that is active:      *)
(* templates_controller.py.  Templates are deleted softly, versions for    *)
(* good.  Names, contents and test data are columns no check here reads.   *)
(***************************************************************************)
EXTENDS Integers, FiniteSets, Requests

CONSTANTS
    Template,     \* rows that the table templates may hold
    Slug,         \* slugs
    MaxVersions   \* bound: versions ever stored

ASSUME MaxVersionsAssumption == MaxVersions \in Nat

Principal == "principal"   \* the slug of the template of those who chose none

ASSUME PrincipalAssumption == Principal \in Slug
ASSUME TemplateAssumption == "none" \notin Template   \* stands for no template

VARIABLES
    templates,    \* templates: slug, deleted and active version, or NoTemplate
    versions,     \* template_versions: the template of each version, or "none"
    lastVersion   \* template versions stored so far

templateVars == <<templates, versions, lastVersion>>

NoTemplate == [slug |-> "none"]
NoVersion  == 0
VersionId  == 1 .. MaxVersions

-----------------------------------------------------------------------------
Stored      == {t \in Template : templates[t] # NoTemplate}
Live        == {t \in Stored : ~templates[t].deleted}
Versions(t) == {v \in VersionId : versions[v] = t}
WithSlug(s) == {t \in Live : templates[t].slug = s}

\* _get_template.
GetTemplate(p, t)       == Free(p) /\ t \in Live

\* A new template has no version yet; a copy brings the active one along.
StoreTemplate(p, s) ==
    /\ Free(p)
    /\ WithSlug(s) = {}
    /\ Go(p, Insert("templates", [slug |-> s, copies |-> 0]))
    /\ UNCHANGED <<raced, templateVars>>

\* A random suffix makes a slug that no live template has.
CloneTemplate(p, t) ==
    /\ GetTemplate(p, t)
    /\ \E s \in {x \in Slug : WithSlug(x) = {}} :
         Go(p, Insert("templates",
              [slug |-> s, copies |-> IF templates[t].active = NoVersion THEN 0 ELSE 1]))
    /\ UNCHANGED <<raced, templateVars>>

\* named is the version that is to be deactivated, if that is what is asked.
Save(p, named, t, new) ==
    Go(p, Update("templates", t, [named |-> named, columns |-> Changes(templates[t], new)]))

UpdateBasic(p, t, s) ==
    /\ GetTemplate(p, t)
    /\ WithSlug(s) \subseteq {t}
    /\ Save(p, NoVersion, t, [templates[t] EXCEPT !.slug = s])
    /\ UNCHANGED <<raced, templateVars>>

DestroyTemplate(p, t) ==
    /\ GetTemplate(p, t)
    /\ Save(p, NoVersion, t, [templates[t] EXCEPT !.deleted = TRUE])
    /\ UNCHANGED <<raced, templateVars>>

Activate(p, t, v) ==
    /\ GetTemplate(p, t)
    /\ v \in Versions(t)
    /\ Save(p, NoVersion, t, [templates[t] EXCEPT !.active = v])
    /\ UNCHANGED <<raced, templateVars>>

Deactivate(p, t, v) ==
    /\ GetTemplate(p, t)
    /\ v \in Versions(t) /\ templates[t].active = v
    /\ Save(p, v, t, [templates[t] EXCEPT !.active = NoVersion])
    /\ UNCHANGED <<raced, templateVars>>

\* The slug is unique among all rows, the deleted ones included, and the active
\* version refers to a version: a write that breaks either is refused.
LawfulMutant(t, row) ==
    /\ \A u \in Live \ {t} : templates[u].slug # row.slug
    /\ row.active = NoVersion \/ versions[row.active] # "none"

Lawful(t, row) ==
    /\ \A u \in Stored \ {t} : templates[u].slug # row.slug
    /\ row.active = NoVersion \/ versions[row.active] # "none"

CommitTemplate(p) ==
    /\ Pending(p, "templates")
    /\ LET r == request[p] IN
       \/ /\ r.op = "insert" /\ lastVersion + r.row.copies <= MaxVersions
          /\ \E t \in Template \ Stored :
               LET v   == lastVersion + 1
                   row == [slug |-> r.row.slug, deleted |-> FALSE,
                           active |-> IF r.row.copies = 1 THEN v ELSE NoVersion]
               IN  IF \E u \in Stored : templates[u].slug = row.slug
                   THEN UNCHANGED templateVars
                   ELSE /\ templates' = [templates EXCEPT ![t] = row]
                        /\ versions' = IF r.row.copies = 1
                                       THEN [versions EXCEPT ![v] = t] ELSE versions
                        /\ lastVersion' = lastVersion + r.row.copies
       \/ /\ r.op = "update"
          /\ LET row == Merge(r.write.columns, templates[r.id]) IN
             templates' = IF Lawful(r.id, row) THEN [templates EXCEPT ![r.id] = row]
                                               ELSE templates
          /\ UNCHANGED <<versions, lastVersion>>
    /\ Commit(p, "templates")

-----------------------------------------------------------------------------
\* store_version and clone_version.
StoreVersion(p, t) ==
    /\ GetTemplate(p, t)
    /\ Go(p, Insert("template_versions", [template |-> t]))
    /\ UNCHANGED <<raced, templateVars>>

\* The template of the source may be deleted: only the version is looked up.
CloneVersion(p, t, v) ==
    /\ Free(p)
    /\ v \in Versions(t)
    /\ Go(p, Insert("template_versions", [template |-> t]))
    /\ UNCHANGED <<raced, templateVars>>

DestroyVersion(p, t, v) ==
    /\ GetTemplate(p, t)
    /\ v \in Versions(t) /\ templates[t].active # v
    /\ Go(p, Delete("template_versions", v))
    /\ UNCHANGED <<raced, templateVars>>

\* The foreign key refuses to delete what became active meanwhile.
CommitVersion(p) ==
    /\ Pending(p, "template_versions")
    /\ LET r == request[p] IN
       \/ /\ r.op = "insert" /\ lastVersion < MaxVersions
          /\ lastVersion' = lastVersion + 1
          /\ versions' = [versions EXCEPT ![lastVersion + 1] = r.row.template]
       \/ /\ r.op = "delete"
          /\ versions' = IF \E t \in Stored : templates[t].active = r.id THEN versions
                         ELSE [versions EXCEPT ![r.id] = "none"]
          /\ UNCHANGED lastVersion
    /\ Commit(p, "template_versions")
    /\ UNCHANGED templates

-----------------------------------------------------------------------------
(***************************************************************************)
(* What documents are printed from, for a company that chose a template    *)
(* (which may be deleted since) or none: the version or versions that the  *)
(* queries find.  An empty content is left out.                            *)
(***************************************************************************)
NoChoice == "none"

\* pdf_preview of a plan version.
Previewed(choice) ==
    LET found == IF choice = NoChoice THEN WithSlug(Principal) ELSE {choice}
    IN  {v \in VersionId : \E t \in found : templates[t].active = v /\ v \in Versions(t)}

\* The PDF of a contract.
Printed(choice) ==
    LET found == IF choice = NoChoice THEN {t \in Stored : templates[t].slug = Principal}
                                      ELSE {choice}
    IN  {templates[t].active : t \in found} \ {NoVersion}

-----------------------------------------------------------------------------
TemplatesInit ==
    /\ templates = [t \in Template |-> NoTemplate]
    /\ versions = [v \in VersionId |-> "none"]
    /\ lastVersion = 0

TemplatesNext(p) ==
    \/ \E s \in Slug : StoreTemplate(p, s)
    \/ \E t \in Template : CloneTemplate(p, t) \/ DestroyTemplate(p, t) \/ StoreVersion(p, t)
    \/ \E t \in Template, s \in Slug : UpdateBasic(p, t, s)
    \/ \E t \in Template, v \in VersionId :
         \/ Activate(p, t, v) \/ Deactivate(p, t, v)
         \/ CloneVersion(p, t, v) \/ DestroyVersion(p, t, v)
    \/ CommitTemplate(p) \/ CommitVersion(p)

-----------------------------------------------------------------------------
(***************************************************************************)
(* Properties.                                                             *)
(***************************************************************************)
TemplatesTypeOK ==
    /\ \A t \in Stored : templates[t] \in
         [slug : Slug, deleted : BOOLEAN, active : VersionId \cup {NoVersion}]
    /\ versions \in [VersionId -> Stored \cup {"none"}]
    /\ lastVersion \in 0 .. MaxVersions

(***************************************************************************)
(* The active version of a template exists and is a version of that        *)
(* template, whatever overlaps: documents are rendered from it.            *)
(***************************************************************************)
ActiveVersionIsOwn ==
    \A t \in Stored : templates[t].active = NoVersion \/ templates[t].active \in Versions(t)

(***************************************************************************)
(* A deleted template is written only by a request that read it before it  *)
(* was deleted.                                                            *)
(***************************************************************************)
DeletedTemplateRests ==
    [][\A t \in Stored \ Live : templates'[t] # templates[t] =>
         \E p \in Proc : Pending(p, "templates") /\ ~request[p].fresh
                         /\ request'[p] = Idle]_<<templateVars, request>>

(***************************************************************************)
(* Deactivating a version never takes down another one, unless that one    *)
(* was activated after deactivate looked.                                  *)
(***************************************************************************)
OnlyNamedVersionIsDeactivated ==
    [][\A t \in Stored : templates[t].active # NoVersion /\ templates'[t].active = NoVersion =>
         \E p \in Proc : /\ Pending(p, "templates") /\ request'[p] = Idle
                         /\ ~request[p].fresh \/ request[p].write.named = templates[t].active
       ]_<<templateVars, request>>

(***************************************************************************)
(* What the preview of a plan shows is what its contracts are printed      *)
(* from, although the two look for the template in different ways: the     *)
(* preview skips a deleted principal template and the contract does not.   *)
(***************************************************************************)
ContractPrintsThePreview ==
    \A choice \in Stored \cup {NoChoice} :
        Previewed(choice) # {} => Printed(choice) = Previewed(choice)
=============================================================================
