---------------------------- MODULE MCRouteTable ----------------------------
(***************************************************************************)
(* RouteTable for model checking: what the provider reports.               *)
(***************************************************************************)
EXTENDS RouteTable

\* A provider reports up to MaxLen routes, each destination once and in the
\* form the table stores it.
MCCloudRoutes ==
    {rs \in BoundedSeq([type : RouteType, cidr : Key], MaxLen) :
        \A i, j \in DOMAIN rs : rs[i].cidr = rs[j].cidr => i = j}

\* A provider that also reports destinations with host bits.
MCCloudRoutesAsWritten ==
    MCCloudRoutes \cup {<<[type |-> System, cidr |-> <<n, "hostbits">>]>> :
                            n \in Subnet}

=============================================================================
