---------------------------- MODULE VersionTexts ----------------------------
(***************************************************************************)
(* The texts of one plan version that are edited piece by piece: its terms *)
(* in two languages, one JSON column (plan_versions_controller.py), and    *)
(* the values of one of its coverages, a column each (coverages_controller *)
(* .py).                                                                   *)
(***************************************************************************)
EXTENDS Requests

CONSTANTS
    Locale,   \* languages of the terms
    Field,    \* columns of plan_version_coverages that hold a value or a note
    Text      \* what may be written

ASSUME TextAssumption == Text # {}

VARIABLES
    terms,    \* plan_versions.terms_html: the text in each language
    values    \* the columns of one row of plan_version_coverages

textVars == <<terms, values>>

-----------------------------------------------------------------------------
\* The whole JSON is read, changed in one language, and written if it differs.
UpdateTerms(p, locale, text) ==
    /\ Free(p)
    /\ Go(p, Update("terms", {locale}, {[terms EXCEPT ![locale] = text]} \ {terms}))
    /\ UNCHANGED <<raced, textVars>>

CommitTerms(p) ==
    /\ Pending(p, "terms")
    /\ terms' = IF request[p].write = {} THEN terms
                ELSE CHOOSE html \in request[p].write : TRUE
    /\ Commit(p, "terms")
    /\ UNCHANGED values

\* body holds the fields that the request names.
UpdateValues(p, body) ==
    /\ Free(p)
    /\ Go(p, Update("values", {pair[1] : pair \in body}, Changes(values, Merge(body, values))))
    /\ UNCHANGED <<raced, textVars>>

CommitValues(p) ==
    /\ Pending(p, "values")
    /\ values' = Merge(request[p].write, values)
    /\ Commit(p, "values")
    /\ UNCHANGED terms

-----------------------------------------------------------------------------
TextsInit ==
    /\ terms = [l \in Locale |-> CHOOSE x \in Text : TRUE]
    /\ values = [f \in Field |-> CHOOSE x \in Text : TRUE]

Bodies == {{<<f, body[f]>> : f \in sent} : sent \in SUBSET Field, body \in [Field -> Text]}

TextsNext(p) ==
    \/ \E locale \in Locale, text \in Text : UpdateTerms(p, locale, text)
    \/ \E body \in Bodies \ {{}} : UpdateValues(p, body)
    \/ CommitTerms(p) \/ CommitValues(p)

-----------------------------------------------------------------------------
(***************************************************************************)
(* Properties.                                                             *)
(***************************************************************************)
TextsTypeOK == terms \in [Locale -> Text] /\ values \in [Field -> Text]

(***************************************************************************)
(* An edit changes what it was sent for: the terms in the other language   *)
(* may be lost only to an edit that overlapped another, and the columns of *)
(* a coverage never, since each edit writes its own.                       *)
(***************************************************************************)
OtherTextsKept ==
    [][\A p \in Proc :
         /\ Pending(p, "terms") /\ request'[p] = Idle /\ request[p].fresh =>
              \A l \in Locale \ request[p].id : terms'[l] = terms[l]
         /\ Pending(p, "values") /\ request'[p] = Idle =>
              \A f \in Field \ request[p].id : values'[f] = values[f]]_<<request, textVars>>
=============================================================================
