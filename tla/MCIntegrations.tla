--------------------------- MODULE MCIntegrations ---------------------------
(* A small instance of Integrations for TLC: two subscriptions of one owner *)
(* and two addresses, of which the second database knows one more.          *)
EXTENDS Integrations, TLC

CONSTANTS s1, s2, c1, e1, ip1, ip2, cl, es, p1, p2, v1, v2

OneOwner == [s \in {s1, s2} |-> e1]
TwoLists ==
    <<[ip \in {ip1, ip2} |-> IF ip = ip1 THEN cl ELSE Unlisted],
      [ip \in {ip1, ip2} |-> IF ip = ip1 THEN es ELSE cl]>>

Symmetric ==
    Permutations({p1, p2}) \cup Permutations({s1, s2}) \cup Permutations({v1, v2})

\* Nothing is claimed of a subscription on which two requests worked at once:
\* what becomes of it is followed while it is the only one.  This cuts claims
\* about the other one as well, which the theorems make without the constraint.
Followed == overlapped \cap Sub # {} => \E s \in Sub : status[s] = "none"
=============================================================================
