------------------------------ MODULE Lifetime ------------------------------
(***************************************************************************)
(* The arithmetic both signing authorities share: how long a new SVID may  *)
(* live.  internal/x509authority and internal/jwtauthority each hold a     *)
(* private copy of it (determineLifetime, determineExpiry).  Instants and  *)
(* durations are integers in one time unit.                                *)
(***************************************************************************)
EXTENDS Integers

\* "authority is expired": the cap is not strictly in the future.
CapPassed(now, cap) == ~(now < cap)

\* A plausible bug: the comparison the wrong way round.
CappedAtMost_max(now, ttl, cap) == IF now + ttl > cap THEN now + ttl ELSE cap

\* now + ttl, cut off at the expiry of the authority.
CappedAtMost(now, ttl, cap) == IF now + ttl > cap THEN cap ELSE now + ttl

\* The validity period of a new X509-SVID; defined when ~CapPassed(now, cap).
DetermineLifetime(now, ttl, cap, backdate) ==
  [notBefore |-> now - backdate, notAfter |-> CappedAtMost(now, ttl, cap)]

\* The expiry of a new JWT-SVID; defined when ~CapPassed(now, cap).
DetermineExpiry(now, ttl, cap) == CappedAtMost(now, ttl, cap)

=============================================================================
