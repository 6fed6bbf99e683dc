---------------------------- MODULE PlanCountries ----------------------------
(***************************************************************************)
(* The countries, the zones that group them, and the two lists of          *)
(* countries of one plan version, where it sells (each at a price of its   *)
(* own or at none) and where it repatriates: countries_controller.py,      *)
(* zones_controller.py and plan_version_countries_controller.py.           *)
(***************************************************************************)
EXTENDS Integers, FiniteSets, Requests

CONSTANTS
    Country,   \* countries
    Code,      \* ISO codes
    Zone       \* zones

VARIABLES
    code,          \* countries: the ISO code of each, or "absent"
    zones,         \* zones: whether active, and countries (country_zone)
    sold,          \* plan_version_countries: "absent", "unpriced" or "priced"
    repatriation   \* plan_version_repatriation_countries

countryVars == <<code, zones, sold, repatriation>>

Lists == {"plan_version_countries", "plan_version_repatriation_countries"}

-----------------------------------------------------------------------------
(***************************************************************************)
(* Countries and zones.                                                    *)
(***************************************************************************)
Known == {c \in Country : code[c] # "absent"}

StoreCountry(p, c, iso) ==
    /\ Free(p)
    /\ c \notin Known
    /\ \A d \in Known : code[d] # iso
    /\ Go(p, Insert("countries", [country |-> c, code |-> iso]))
    /\ UNCHANGED <<raced, countryVars>>

UpdateCountry(p, c, iso) ==
    /\ Free(p)
    /\ c \in Known /\ code[c] # iso
    /\ \A d \in Known \ {c} : code[d] # iso
    /\ Go(p, Update("countries", c, [code |-> iso]))
    /\ UNCHANGED <<raced, countryVars>>

\* Ids come from a counter: an insert takes a row that nobody else has.
CommitCountry(p) ==
    /\ Pending(p, "countries")
    /\ \/ /\ request[p].op = "insert"
          /\ \E c \in Country \ Known : code' = [code EXCEPT ![c] = request[p].row.code]
       \/ /\ request[p].op = "update"
          /\ code' = [code EXCEPT ![request[p].id] = request[p].write.code]
    /\ Commit(p, "countries")
    /\ UNCHANGED <<zones, sold, repatriation>>

ToggleZone(z) ==
    /\ zones' = [zones EXCEPT ![z].active = ~@]
    /\ UNCHANGED <<request, raced, code, sold, repatriation>>

AttachToZone(z, c) ==
    /\ c \in Known \ zones[z].countries
    /\ zones' = [zones EXCEPT ![z].countries = @ \cup {c}]
    /\ UNCHANGED <<request, raced, code, sold, repatriation>>

DetachFromZone(z, c) ==
    /\ c \in zones[z].countries
    /\ zones' = [zones EXCEPT ![z].countries = @ \ {c}]
    /\ UNCHANGED <<request, raced, code, sold, repatriation>>

-----------------------------------------------------------------------------
(***************************************************************************)
(* The two lists.  An attach inserts the countries it saw missing, a       *)
(* detach deletes the ones it saw.                                         *)
(***************************************************************************)
Sold    == {c \in Country : sold[c] # "absent"}
In(t)   == IF t = "plan_version_countries" THEN Sold ELSE repatriation

Attach(p, t, S) ==
    /\ Free(p)
    /\ S \ In(t) # {}
    /\ Go(p, Insert(t, S \ In(t)))
    /\ UNCHANGED <<raced, countryVars>>

Detach(p, t, S) ==
    /\ Free(p)
    /\ S \cap In(t) # {}
    /\ Go(p, Delete(t, S \cap In(t)))
    /\ UNCHANGED <<raced, countryVars>>

Offered(z) == IF zones[z].active THEN zones[z].countries ELSE {}

AttachCountries(p, S)     == Attach(p, "plan_version_countries", S \cap Known)
AttachZone(p, z)          == Attach(p, "plan_version_countries", Offered(z))
DetachCountry(p, c)       == Detach(p, "plan_version_countries", {c})
DetachZone(p, z)          == Detach(p, "plan_version_countries", zones[z].countries)
AttachRepatriation(p, S)  == Attach(p, "plan_version_repatriation_countries", S \cap Known)
AttachRepatriationZone(p, z) ==
    Attach(p, "plan_version_repatriation_countries", Offered(z))
DetachRepatriation(p, c)  == Detach(p, "plan_version_repatriation_countries", {c})
DetachRepatriationZone(p, z) ==
    Detach(p, "plan_version_repatriation_countries", zones[z].countries)

SetPrice(p, c, price) ==
    /\ Free(p)
    /\ c \in Sold
    /\ Go(p, Update("plan_version_countries", c, [price |-> price]))
    /\ UNCHANGED <<raced, countryVars>>

CommitSoldMutant(p) ==
    /\ Pending(p, "plan_version_countries")
    /\ LET t == request[p] IN
       sold' = [c \in Country |->
         CASE t.op = "insert" /\ c \in t.row  -> "unpriced"
           [] t.op = "delete" /\ c \in t.id   -> "absent"
           [] t.op = "update" /\ c = t.id /\ c \in Sold -> t.write.price
           [] OTHER -> sold[c]]
    /\ Commit(p, "plan_version_countries")
    /\ UNCHANGED <<code, zones, repatriation>>

\* One country that is attached by now makes the whole INSERT fail; an UPDATE
\* of a country detached by now changes nothing, and is answered as done.
CommitSold(p) ==
    /\ Pending(p, "plan_version_countries")
    /\ LET t == request[p] IN
       sold' = [c \in Country |->
         CASE t.op = "insert" /\ c \in t.row /\ t.row \cap Sold = {} -> "unpriced"
           [] t.op = "delete" /\ c \in t.id   -> "absent"
           [] t.op = "update" /\ c = t.id /\ c \in Sold -> t.write.price
           [] OTHER -> sold[c]]
    /\ Commit(p, "plan_version_countries")
    /\ UNCHANGED <<code, zones, repatriation>>

CommitRepatriation(p) ==
    /\ Pending(p, "plan_version_repatriation_countries")
    /\ LET t == request[p] IN
       \/ /\ t.op = "insert"
          /\ repatriation' = IF t.row \cap repatriation = {}
                             THEN repatriation \cup t.row ELSE repatriation
       \/ /\ t.op = "delete"
          /\ repatriation' = repatriation \ t.id
    /\ Commit(p, "plan_version_repatriation_countries")
    /\ UNCHANGED <<code, zones, sold>>

-----------------------------------------------------------------------------
CountriesInit ==
    /\ code = [c \in Country |-> "absent"]
    /\ zones = [z \in Zone |-> [active |-> TRUE, countries |-> {}]]
    /\ sold = [c \in Country |-> "absent"]
    /\ repatriation = {}

CountriesNext(p) ==
    \/ \E c \in Country, iso \in Code : StoreCountry(p, c, iso) \/ UpdateCountry(p, c, iso)
    \/ CommitCountry(p)
    \/ \E z \in Zone : ToggleZone(z)
    \/ \E z \in Zone, c \in Country : AttachToZone(z, c) \/ DetachFromZone(z, c)

SoldNext(p) ==
    \/ \E S \in SUBSET Country : AttachCountries(p, S)
    \/ \E z \in Zone : AttachZone(p, z) \/ DetachZone(p, z)
    \/ \E c \in Country : DetachCountry(p, c)
    \/ \E c \in Country, price \in {"unpriced", "priced"} : SetPrice(p, c, price)
    \/ CommitSold(p)

RepatriationNext(p) ==
    \/ \E S \in SUBSET Country : AttachRepatriation(p, S)
    \/ \E z \in Zone : AttachRepatriationZone(p, z) \/ DetachRepatriationZone(p, z)
    \/ \E c \in Country : DetachRepatriation(p, c)
    \/ CommitRepatriation(p)

-----------------------------------------------------------------------------
(***************************************************************************)
(* Properties.                                                             *)
(***************************************************************************)
CountriesTypeOK ==
    /\ code \in [Country -> Code \cup {"absent"}]
    /\ zones \in [Zone -> [active : BOOLEAN, countries : SUBSET Country]]
    /\ sold \in [Country -> {"absent", "unpriced", "priced"}]
    /\ repatriation \subseteq Country

(***************************************************************************)
(* Two countries have the same ISO code only after a race: the columns     *)
(* have no unique key.                                                     *)
(***************************************************************************)
CodesDiffer ==
    "countries" \notin raced =>
        \A c, d \in Known : c # d => code[c] # code[d]

(***************************************************************************)
(* Attaching countries, one by one or by zone, never loses the price of a  *)
(* country that got one meanwhile: a price goes when somebody takes it     *)
(* away or detaches the country.                                           *)
(***************************************************************************)
PriceKept ==
    [][\A c \in Country : sold[c] = "priced" /\ sold'[c] # "priced" =>
         \E p \in Proc : /\ Pending(p, "plan_version_countries")
                         /\ request[p].op \in {"update", "delete"}
                         /\ request'[p] = Idle]_<<sold, request>>
=============================================================================
