---------------------------- MODULE Integrations ----------------------------
(***************************************************************************)
(* The two clients of outside services that share nothing but the process: *)
(* a behaviour is about one of them, part.                                 *)
(***************************************************************************)
EXTENDS Crm, IpCountry

VARIABLE part   \* what this behaviour is about

integrationVars == <<crmVars, ipVars, part>>

IntegrationsInit ==
    /\ CrmInit
    /\ IpInit
    /\ part \in {"subscriptions", "companies", "addresses"}
    /\ part # "addresses" => library = FALSE
    /\ part = "addresses" => configured = FALSE

IntegrationsNext ==
    /\ \/ part = "subscriptions" /\ SubscriptionsNext /\ UNCHANGED ipVars
       \/ part = "companies" /\ CompaniesNext /\ UNCHANGED ipVars
       \/ part = "addresses" /\ IpNext /\ UNCHANGED crmVars
    /\ UNCHANGED part

IntegrationsSpec == IntegrationsInit /\ [][IntegrationsNext]_integrationVars

IntegrationsTypeOK == CrmTypeOK /\ IpTypeOK

(***************************************************************************)
(* A subscription has one contact and one deal at Zoho and one log row for *)
(* each, through restarts, lost answers and dry runs, except where the     *)
(* named causes struck.                                                    *)
(***************************************************************************)
RecordsOnce == IntegrationsTypeOK /\ LogOnce /\ ContactOnce /\ DealOnce

(***************************************************************************)
(* The deal follows the subscription: what was synchronised is current,    *)
(* and a won deal is not taken back.                                       *)
(***************************************************************************)
DealsFollow == SyncedDealIsCurrent /\ WonDealStaysWon

(***************************************************************************)
(* What a request is told of an address comes from an installed database,  *)
(* through the cache or the shared reader.                                 *)
(***************************************************************************)
AnswersHaveASource == ReaderIsInstalled /\ CachedAnswerHasASource
=============================================================================
