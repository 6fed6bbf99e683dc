------------------------------ MODULE Catalogue ------------------------------
(***************************************************************************)
(* The back office of modules B and C: the catalogue of coverages, the     *)
(* coverages, the countries and the texts of a plan version, the document  *)
(* templates, the configuration items and their files.  They share the     *)
(* machinery of requests and no row, so a behaviour here is about one of   *)
(* them, part.                                                             *)
(***************************************************************************)
EXTENDS PlanCoverages, CoverageCategories, VersionTexts, PlanCountries, Templates,
        ConfigItems

VARIABLE part   \* what this behaviour is about

catalogueVars ==
    <<request, raced, coverageVars, categoryVars, textVars, countryVars, templateVars,
      itemVars, part>>

\* The rows that a part works on exist; those of another part may not.
CountriesExist ==
    /\ code \in [Country -> Code]
    /\ \A c, d \in Country : c # d => code[c] # code[d]
    /\ zones \in [Zone -> [active : BOOLEAN, countries : SUBSET Country]]
    /\ sold = [c \in Country |-> "absent"]
    /\ repatriation = {}

CategoriesExist ==
    /\ categories = [k \in CategoryId |-> [status |-> "active", order |-> k]]
    /\ lastCategory = MaxCategories
    /\ places = [c \in CatalogueItem |-> Nowhere]

\* The item that has files: its category and token are of no account there.
Logo    == CHOOSE i \in Item : TRUE
LogoRow == [category |-> CHOOSE c \in Category : TRUE, token |-> CHOOSE k \in Token : TRUE,
            type |-> "file", file |-> NoFile]

LogoExists ==
    /\ items = [i \in Item |-> IF i = Logo THEN LogoRow ELSE NoItem]
    /\ files = [f \in FileId |-> NoFile]
    /\ disk = {} /\ uploads = 0 /\ doubtful = {}

CatalogueInit ==
    /\ RequestsInit
    /\ CoveragesInit
    /\ TextsInit
    /\ TemplatesInit
    /\ \/ /\ part \in {"coverages", "categories", "texts", "countries", "templates", "definitions"}
          /\ CategoriesInit /\ CountriesInit /\ ItemsInit
       \/ part = "places" /\ CategoriesExist /\ CountriesInit /\ ItemsInit
       \/ /\ part \in {"sold", "repatriation"}
          /\ CategoriesInit /\ CountriesExist /\ ItemsInit
       \/ part = "files" /\ CategoriesInit /\ CountriesInit /\ LogoExists

CatalogueNext ==
    \E p \in Proc :
        /\ \/ /\ part = "coverages" /\ CoveragesNext(p)
              /\ UNCHANGED <<categoryVars, textVars, countryVars, templateVars, itemVars>>
           \/ /\ part = "categories" /\ CategoriesNext(p)
              /\ UNCHANGED <<coverageVars, textVars, countryVars, templateVars, itemVars>>
           \/ /\ part = "places" /\ PlacesNext(p)
              /\ UNCHANGED <<coverageVars, textVars, countryVars, templateVars, itemVars>>
           \/ /\ part = "texts" /\ TextsNext(p)
              /\ UNCHANGED <<coverageVars, categoryVars, countryVars, templateVars, itemVars>>
           \/ /\ part = "countries" /\ CountriesNext(p)
              /\ UNCHANGED <<coverageVars, categoryVars, textVars, templateVars, itemVars>>
           \/ /\ part = "sold" /\ SoldNext(p)
              /\ UNCHANGED <<coverageVars, categoryVars, textVars, templateVars, itemVars>>
           \/ /\ part = "repatriation" /\ RepatriationNext(p)
              /\ UNCHANGED <<coverageVars, categoryVars, textVars, templateVars, itemVars>>
           \/ /\ part = "templates" /\ TemplatesNext(p)
              /\ UNCHANGED <<coverageVars, categoryVars, textVars, countryVars, itemVars>>
           \/ /\ part = "definitions" /\ DefinitionsNext(p)
              /\ UNCHANGED <<coverageVars, categoryVars, textVars, countryVars, templateVars>>
           \/ /\ part = "files" /\ FilesNext(p)
              /\ UNCHANGED <<coverageVars, categoryVars, textVars, countryVars, templateVars>>
           \/ /\ DropItemRequest(p)
              /\ UNCHANGED <<coverageVars, categoryVars, textVars, countryVars, templateVars>>
        /\ UNCHANGED part

CatalogueSpec == CatalogueInit /\ [][CatalogueNext]_catalogueVars

CatalogueTypeOK ==
    /\ RequestsTypeOK /\ CoveragesTypeOK /\ CategoriesTypeOK /\ TextsTypeOK
    /\ CountriesTypeOK /\ TemplatesTypeOK /\ ItemsTypeOK

(***************************************************************************)
(* What refers to a row or to a file refers to one that is there:          *)
(* coverages of a version to the catalogue, a template to a version of its *)
(* own, a record of a file to its path unless a request works on it or     *)
(* failed halfway.                                                         *)
(***************************************************************************)
CatalogueConsistent ==
    CatalogueTypeOK /\ AttachedIsInCatalogue /\ ActiveVersionIsOwn /\ MissingFileHasACause

(***************************************************************************)
(* What the endpoints check before they write and no unique key enforces:  *)
(* coverages of a version, places of categories and of coverages, ISO      *)
(* codes, tokens of the configuration.                                     *)
(***************************************************************************)
KeysStayUnique ==
    /\ [](CoverageOnce /\ CategoryPlacesDiffer /\ CodesDiffer)
    /\ OrderTieHasACause /\ PlaceTieHasACause
    /\ TokenClashHasACause

(***************************************************************************)
(* A write leaves alone what its request was not about: the prices that    *)
(* others set, the texts in another language, the active version that it   *)
(* did not name, a template that is deleted.                               *)
(***************************************************************************)
OthersAreKept ==
    PriceKept /\ OtherTextsKept /\ OnlyNamedVersionIsDeactivated /\ DeletedTemplateRests
=============================================================================
