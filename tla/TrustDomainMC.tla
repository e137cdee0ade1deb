--------------------------- MODULE TrustDomainMC ---------------------------
(***************************************************************************)
(* Instances of TrustDomain for TLC.                                       *)
(***************************************************************************)
EXTENDS TrustDomain, TLC

CONSTANTS t1, t2, w1, c1, c2

\* Two trust domains; the authorities of the first expire within the bound, and
\* the SVIDs of its workload are longer lived than they are.
MCX509AuthorityTTL == (t1 :> 1) @@ (t2 :> 5)
MCJWTAuthorityTTL == (t1 :> 1) @@ (t2 :> 5)

\* One trust domain.
OneX509AuthorityTTL == t1 :> 1
OneJWTAuthorityTTL == t1 :> 1

\* One workload, in the first trust domain.
OneTrustDomainOf == w1 :> t1
OneX509SVIDTTL == w1 :> 2
OneJWTSVIDTTL == w1 :> 2

=============================================================================
