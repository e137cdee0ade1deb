------------------------- MODULE TrustDomain_proofs -------------------------
(***************************************************************************)
(* Proofs about TrustDomain, for any number of trust domains, workloads    *)
(* and calls and any TTLs.  Inv is the inductive invariant; each of its    *)
(* conjuncts has a lemma saying that a step of Next preserves it, from the *)
(* conjuncts that matter to it.                                            *)
(***************************************************************************)
EXTENDS TrustDomain, TLAPS

\* td.mu is held for writing exactly around the appends of Run.
WriterInv ==
  \A td \in TDs :
    /\ muWriter[td] = "held" <=> run[td] \in {"appendX509", "keyJWT", "appendJWT"}
    /\ muWriter[td] = "waiting" => run[td] \in {"lockX509", "lockJWT"}

\* A call that reads under the lock is among its readers, and excludes the writer.
ReaderInv ==
  \A td \in TDs :
    /\ muWriter[td] = "held" => muReaders[td] = {}
    /\ \A c \in Calls :
         pc[c] \in {"copy", "readLocked"} /\ call[c].td = td => c \in muReaders[td]

\* What Run has prepared and what it has published, by where it is.
PhaseInv ==
  \A td \in TDs :
    /\ run[td] \in {"lockX509", "appendX509"} => newCert[td] \in X509Authority
    /\ run[td] = "appendJWT" => newKeyID[td] \in Nat \ {0}
    /\ run[td] \in {"rotateJWT", "lockJWT", "keyJWT", "appendJWT", "newWorkloads", "serving"}
         => x509Authorities[td] # <<>>
    /\ run[td] \in {"newWorkloads", "serving"} => jwtAuthorities[td] # <<>>

\* The reason the unlocked reads are safe: a workload listens after the rotations.
ListenInv == \A w \in listening : run[TrustDomainOf[w]] = "serving"

\* Where a call can be, by its method; a workload call came through a listener.
CallInv ==
  \A c \in Calls :
    /\ pc[c] = "idle" <=> call[c] = NoCall
    /\ pc[c] \in {"copy", "check", "mint"} => call[c].method \in {"FetchX509SVID", "FetchJWTSVID"}
    /\ pc[c] = "rlock" => call[c].method \in {"FetchX509SVID", "FetchJWTSVID", "ServeHTTP"}
    /\ pc[c] = "readUnlocked" => call[c].method \in {"FetchX509Bundles", "FetchJWTBundles"}
    /\ pc[c] = "readLocked" => call[c].method = "ServeHTTP"
    /\ call[c].method \in WorkloadMethods =>
         call[c].wl \in listening /\ call[c].td = TrustDomainOf[call[c].wl]

\* The copy a mint holds is not stale.
MintInv ==
  \A c \in Calls :
    /\ pc[c] \in {"check", "mint"} =>
         snapshot[c] = AuthoritiesFor(call[c].method, call[c].td)
    /\ status[c] \notin {"no authority", "panic"}

\* The counter bounds the key IDs in use, and the one about to be appended is new.
KeysCounted ==
  \A t \in TDs : \A i \in DOMAIN jwtAuthorities[t] : jwtAuthorities[t][i].keyID <= jwtKeyCounter

PendingKeyNew ==
  \A t \in TDs : run[t] = "appendJWT" =>
    /\ newKeyID[t] <= jwtKeyCounter
    /\ \A u \in TDs : \A i \in DOMAIN jwtAuthorities[u] : jwtAuthorities[u][i].keyID # newKeyID[t]
    /\ \A u \in TDs \ {t} : run[u] = "appendJWT" => newKeyID[u] # newKeyID[t]

KeyInv == KeysCounted /\ PendingKeyNew /\ JWTKeyIDsDistinct

Inv == TypeOK /\ WriterInv /\ ReaderInv /\ PhaseInv /\ ListenInv /\ CallInv /\ MintInv /\ X509WithinAuthority /\ KeyInv

-----------------------------------------------------------------------------
\* Facts about the sequences of authorities.
LEMMA ToSetSeq ==
  ASSUME NEW S, NEW s \in Seq(S)
  PROVE  ToSet(s) \subseteq S
BY DEF ToSet

\* The newest authority is an authority.
LEMMA LastSeq ==
  ASSUME NEW S, NEW s \in Seq(S), s # <<>>
  PROVE  Last(s) \in S
BY DEF Last

\* Appending keeps the type and never yields the empty sequence...
LEMMA AppendSeq ==
  ASSUME NEW S, NEW s \in Seq(S), NEW e \in S
  PROVE  Append(s, e) \in Seq(S) /\ Append(s, e) # <<>>
<1>1. Append(s, e) \in Seq(S)
  OBVIOUS
<1>2. Len(Append(s, e)) = Len(s) + 1 /\ Len(s) \in Nat
  OBVIOUS
<1>3. Len(<<>>) = 0
  OBVIOUS
<1> QED
  BY <1>1, <1>2, <1>3

\* ... whatever is appended.
LEMMA AppendNonEmpty ==
  ASSUME NEW S, NEW s \in Seq(S), NEW e
  PROVE  Append(s, e) # <<>>
<1>1. s \in Seq(S \cup {e})
  OBVIOUS
<1> QED
  BY <1>1, AppendSeq

\* Appending keeps the elements there are.
LEMMA AppendElements ==
  ASSUME NEW S, NEW s \in Seq(S), NEW e \in S
  PROVE  /\ DOMAIN Append(s, e) = DOMAIN s \cup {Len(s) + 1}
         /\ \A i \in DOMAIN s : Append(s, e)[i] = s[i]
         /\ Append(s, e)[Len(s) + 1] = e
         /\ Len(s) + 1 \notin DOMAIN s
OBVIOUS

\* determineLifetime and determineExpiry: the cap is respected, and what is
\* issued for a positive TTL under a cap not yet passed has not expired.
LEMMA CappedWithin ==
  ASSUME NEW t \in Int, NEW ttl \in Int, NEW cap \in Int
  PROVE  /\ CappedAtMost(t, ttl, cap) \in Int
         /\ CappedAtMost(t, ttl, cap) <= cap
         /\ ttl > 0 /\ ~CapPassed(t, cap) => t < CappedAtMost(t, ttl, cap)
BY DEF CappedAtMost, CapPassed

\* The certificate rotateX509Authority prepares is an authority.
LEMMA NewCertOK ==
  ASSUME TypeOK, NEW td \in TDs, RotateX509Authority(td)
  PROVE  run'[td] = "lockX509" => newCert'[td] \in X509Authority
<1> DEFINE cert == [td |-> td, n |-> Len(x509Authorities[td]) + 1,
                    notBefore |-> now - Backdate, notAfter |-> now + X509AuthorityTTL[td]]
<1>1. Len(x509Authorities[td]) + 1 \in Nat \ {0}
  BY DEF TypeOK
<1>2. now - Backdate \in Int /\ now + X509AuthorityTTL[td] \in Int
  BY ConfigAssumption DEF TypeOK
<1>3. cert \in X509Authority
  BY <1>1, <1>2 DEF X509Authority
<1>4. run'[td] = "lockX509" => newCert' = [newCert EXCEPT ![td] = cert]
  BY DEF RotateX509Authority, RunStep, TypeOK
<1> QED
  BY <1>3, <1>4 DEF TypeOK

\* What rotateJWTAuthority appends is an authority.
LEMMA NewJWTAuthority ==
  ASSUME TypeOK, PhaseInv, NEW td \in TDs, run[td] = "appendJWT"
  PROVE  [keyID |-> newKeyID[td], expiresAt |-> now + JWTAuthorityTTL[td]] \in JWTAuthority
<1>1. newKeyID[td] \in Nat \ {0}
  BY DEF PhaseInv
<1>2. now + JWTAuthorityTTL[td] \in Int
  BY ConfigAssumption DEF TypeOK
<1> QED
  BY <1>1, <1>2 DEF JWTAuthority

\* A call that has been made names a trust domain.
LEMMA CalledTD ==
  ASSUME TypeOK, CallInv, NEW c \in Calls, pc[c] # "idle"
  PROVE  call[c].td \in TDs
<1>1. call[c] \in CallRecord
  BY DEF TypeOK, CallInv
<1> QED
  BY <1>1 DEF CallRecord

\* The authorities of a mint exist: its workload listens, so Run is past the
\* two rotations.
LEMMA MintsFindAuthority ==
  ASSUME TypeOK, PhaseInv, ListenInv, CallInv, MintInv,
         NEW c \in Calls, pc[c] \in {"check", "mint"}
  PROVE  /\ call[c].td \in TDs /\ call[c].wl \in listening /\ call[c].wl \in Workloads
         /\ run[call[c].td] = "serving"
         /\ x509Authorities[call[c].td] # <<>> /\ jwtAuthorities[call[c].td] # <<>>
         /\ snapshot[c] = AuthoritiesFor(call[c].method, call[c].td)
         /\ snapshot[c] # <<>>
<1>1. call[c].td \in TDs
  BY CalledTD
<1>2. /\ call[c].wl \in listening /\ call[c].wl \in Workloads
      /\ call[c].td = TrustDomainOf[call[c].wl]
  BY DEF CallInv, WorkloadMethods, TypeOK
<1>3. run[call[c].td] = "serving"
  BY <1>2 DEF ListenInv
<1>4. x509Authorities[call[c].td] # <<>> /\ jwtAuthorities[call[c].td] # <<>>
  BY <1>1, <1>3 DEF PhaseInv
<1>5. snapshot[c] = AuthoritiesFor(call[c].method, call[c].td)
  BY DEF MintInv
<1> QED
  BY <1>1, <1>2, <1>3, <1>4, <1>5 DEF AuthoritiesFor

\* A mint ends with an SVID or an error, whatever signing does.
LEMMA Finishes ==
  ASSUME NEW c \in Calls, MintX509SVID(c) \/ MintJWTSVID(c)
  PROVE  \E err, s : Finish(c, err, s)
BY DEF MintX509SVID, MintJWTSVID

\* What a mint of an X.509-SVID returns: its errors in the order of the code.
X509SVIDOf(c) ==
  LET a == Last(snapshot[c])
      life == DetermineLifetime(now, X509SVIDTTL[call[c].wl], a.notAfter, SVIDBackdatePeriod) IN
  [kind |-> "x509", wl |-> call[c].wl, issuer |-> a, at |-> now,
   notBefore |-> life.notBefore, notAfter |-> life.notAfter]

MintErrors == {"invalid parameter", "authority is expired", "signing failed"}

LEMMA MintsX509 ==
  ASSUME NEW c \in Calls, MintX509SVID(c)
  PROVE  \E err \in MintErrors \cup {"ok"} :
           /\ Finish(c, err, X509SVIDOf(c))
           /\ err = "ok" => /\ ~(X509SVIDTTL[call[c].wl] <= 0)
                            /\ ~CapPassed(now, Last(snapshot[c]).notAfter)
<1>1. PICK signing \in Signing :
        Finish(c, IF X509SVIDTTL[call[c].wl] <= 0 THEN "invalid parameter"
                  ELSE IF CapPassed(now, Last(snapshot[c]).notAfter) THEN "authority is expired"
                  ELSE signing, X509SVIDOf(c))
  BY DEF MintX509SVID, X509SVIDOf
<1>2. CASE X509SVIDTTL[call[c].wl] <= 0
  <2>1. Finish(c, "invalid parameter", X509SVIDOf(c))
    BY <1>1, <1>2
  <2>2. "invalid parameter" \in MintErrors \cup {"ok"} /\ "invalid parameter" # "ok"
    BY DEF MintErrors
  <2> QED
    BY <2>1, <2>2, Zenon
<1>3. CASE ~(X509SVIDTTL[call[c].wl] <= 0) /\ CapPassed(now, Last(snapshot[c]).notAfter)
  <2>1. Finish(c, "authority is expired", X509SVIDOf(c))
    BY <1>1, <1>3
  <2>2. "authority is expired" \in MintErrors \cup {"ok"} /\ "authority is expired" # "ok"
    BY DEF MintErrors
  <2> QED
    BY <2>1, <2>2, Zenon
<1>4. CASE ~(X509SVIDTTL[call[c].wl] <= 0) /\ ~CapPassed(now, Last(snapshot[c]).notAfter)
  <2>1. Finish(c, signing, X509SVIDOf(c)) /\ signing \in MintErrors \cup {"ok"}
    BY <1>1, <1>4 DEF Signing, MintErrors
  <2> QED
    BY <1>4, <2>1
<1> QED
  BY <1>2, <1>3, <1>4

JWTSVIDOf(c) ==
  LET cap == now + JWTAuthorityTTL[call[c].td] IN
  [kind |-> "jwt", wl |-> call[c].wl, issuer |-> Last(snapshot[c]), at |-> now,
   notAfter |-> DetermineExpiry(now, JWTSVIDTTL[call[c].wl], cap)]

LEMMA MintsJWT ==
  ASSUME NEW c \in Calls, MintJWTSVID(c)
  PROVE  \E err \in MintErrors \cup {"ok"} : Finish(c, err, JWTSVIDOf(c))
<1>1. PICK signing \in Signing :
        Finish(c, IF call[c].aud # "valid" \/ JWTSVIDTTL[call[c].wl] <= 0 THEN "invalid parameter"
                  ELSE IF CapPassed(now, now + JWTAuthorityTTL[call[c].td]) THEN "authority is expired"
                  ELSE signing, JWTSVIDOf(c))
  BY DEF MintJWTSVID, JWTSVIDOf
<1> QED
  BY <1>1 DEF Signing, MintErrors

-----------------------------------------------------------------------------
\* Preservation, one lemma for each conjunct of Inv: the types.  A mint is well
\* typed because it finds an authority.
LEMMA TypeStep == TypeOK /\ PhaseInv /\ ListenInv /\ CallInv /\ MintInv /\ [Next]_vars => TypeOK'
<1> SUFFICES ASSUME TypeOK, PhaseInv, ListenInv, CallInv, MintInv, [Next]_vars PROVE TypeOK'
  OBVIOUS
<1> USE DEF TypeOK, authorityVars, muVars, runVars, callVars
<1>1. ASSUME NEW td \in TDs, RotateX509Authority(td) PROVE TypeOK'
  <2>1. /\ run' \in [TDs -> RunStates]
        /\ newCert' = newCert \/ newCert' = [newCert EXCEPT ![td] = newCert'[td]]
    BY <1>1 DEF RotateX509Authority, RunStep, RunStates
  <2>2. run'[td] = "lockX509" \/ newCert' = newCert
    BY <1>1 DEF RotateX509Authority, RunStep
  <2>3. newCert' \in [TDs -> X509Authority \cup {NoCert}]
    BY <1>1, <2>1, <2>2, NewCertOK
  <2> QED
    BY <1>1, <2>1, <2>3 DEF RotateX509Authority
<1>2. ASSUME NEW td \in TDs, RotateJWTAuthority(td) PROVE TypeOK'
  BY <1>2 DEF RotateJWTAuthority, RunStep, RunStates
<1>3. ASSUME NEW td \in TDs, LockAnnounce(td) PROVE TypeOK'
  BY <1>3 DEF LockAnnounce, RunStep
<1>4. ASSUME NEW td \in TDs, LockAcquire(td) PROVE TypeOK'
  BY <1>4 DEF LockAcquire, RunStep, RunStates
<1>5. ASSUME NEW td \in TDs, AppendX509(td) PROVE TypeOK'
  BY <1>5, AppendSeq DEF AppendX509, RunStep, PhaseInv, RunStates
<1>6. ASSUME NEW td \in TDs, NewJWTKeyID(td) PROVE TypeOK'
  <2>1. jwtKeyCounter' \in Nat /\ jwtKeyCounter + 1 \in Nat
    BY <1>6 DEF NewJWTKeyID
  <2>2. newKeyID' \in [TDs -> Nat] /\ run' \in [TDs -> RunStates]
    BY <1>6, <2>1 DEF NewJWTKeyID, RunStep, RunStates, CallStates, Outcomes
  <2> QED
    BY <1>6, <2>1, <2>2 DEF NewJWTKeyID
<1>7. ASSUME NEW td \in TDs, AppendJWT(td) PROVE TypeOK'
  <2>1. run[td] = "appendJWT"
    BY <1>7 DEF AppendJWT, RunStep
  <2>2. [keyID |-> newKeyID[td], expiresAt |-> now + JWTAuthorityTTL[td]] \in JWTAuthority
    BY <2>1, NewJWTAuthority
  <2>3. jwtAuthorities' \in [TDs -> Seq(JWTAuthority)]
    BY <1>7, <2>2, AppendSeq DEF AppendJWT
  <2>4. run' \in [TDs -> RunStates] /\ muWriter' \in [TDs -> {"free", "waiting", "held"}]
    BY <1>7 DEF AppendJWT, RunStep, RunStates, CallStates, Outcomes
  <2> QED
    BY <1>7, <2>3, <2>4 DEF AppendJWT
<1>8. ASSUME NEW td \in TDs, NewWorkloads(td) PROVE TypeOK'
  BY <1>8 DEF NewWorkloads, RunStep, RunStates
<1>9. ASSUME NEW w \in Workloads, Listen(w) PROVE TypeOK'
  BY <1>9 DEF Listen
<1>10. ASSUME NEW c \in Calls, Call(c) PROVE TypeOK'
  <2>1. PICK m \in WorkloadMethods, w \in listening, a \in Audiences :
          /\ call' = [call EXCEPT ![c] = [method |-> m, td |-> TrustDomainOf[w], wl |-> w, aud |-> a]]
          /\ CallStep(c, "idle", IF m \in Mints THEN "rlock" ELSE "readUnlocked")
    BY <1>10 DEF Call
  <2>2. [method |-> m, td |-> TrustDomainOf[w], wl |-> w, aud |-> a] \in CallRecord
    BY ConfigAssumption DEF CallRecord
  <2>3. call' \in [Calls -> CallRecord \cup {NoCall}]
    BY <2>1, <2>2
  <2>4. pc' \in [Calls -> CallStates]
    BY <2>1 DEF CallStep, RunStates, CallStates, Outcomes
  <2> QED
    BY <1>10, <2>3, <2>4 DEF Call
<1>11. ASSUME NEW c \in Calls, CallFederation(c) PROVE TypeOK'
  <2>1. PICK td \in TDs : call' = [call EXCEPT ![c] = [method |-> "ServeHTTP", td |-> td]]
    BY <1>11 DEF CallFederation
  <2>2. [method |-> "ServeHTTP", td |-> td] \in CallRecord
    BY DEF CallRecord
  <2>3. call' \in [Calls -> CallRecord \cup {NoCall}]
    BY <2>1, <2>2
  <2>4. pc' \in [Calls -> CallStates]
    BY <1>11 DEF CallFederation, CallStep, RunStates, CallStates, Outcomes
  <2> QED
    BY <1>11, <2>3, <2>4 DEF CallFederation
<1>12. ASSUME NEW c \in Calls, RLock(c) PROVE TypeOK'
  BY <1>12 DEF RLock, CallStep, CallStates
<1>13. ASSUME NEW c \in Calls, CopyAuthorities(c) PROVE TypeOK'
  <2>1. call[c].td \in TDs
    BY <1>13, CalledTD DEF CopyAuthorities, CallStep
  <2>2. AuthoritiesFor(call[c].method, call[c].td) \in Seq(X509Authority) \cup Seq(JWTAuthority)
    BY <2>1 DEF AuthoritiesFor
  <2>3. snapshot' \in [Calls -> Seq(X509Authority) \cup Seq(JWTAuthority)]
    BY <1>13, <2>2 DEF CopyAuthorities
  <2>4. pc' \in [Calls -> CallStates] /\ muReaders' \in [TDs -> SUBSET Calls]
    BY <1>13 DEF CopyAuthorities, CallStep, RunStates, CallStates, Outcomes
  <2> QED
    BY <1>13, <2>3, <2>4 DEF CopyAuthorities
<1>14. ASSUME NEW c \in Calls, CheckAuthorities(c) PROVE TypeOK'
  BY <1>14 DEF CheckAuthorities, CallStep, CallStates, Outcomes
<1>15. ASSUME NEW c \in Calls, MintX509SVID(c) PROVE TypeOK'
  <2>1. /\ call[c].td \in TDs /\ call[c].wl \in Workloads
        /\ snapshot[c] = x509Authorities[call[c].td]
        /\ x509Authorities[call[c].td] # <<>>
    BY <1>15, MintsFindAuthority DEF MintX509SVID, Finish, CallStep, AuthoritiesFor
  <2>2. Last(snapshot[c]) \in X509Authority
    BY <2>1, LastSeq
  <2>8. Last(snapshot[c]).notAfter \in Int
    BY ONLY <2>2 DEF X509Authority
  <2>9. X509SVIDTTL[call[c].wl] \in Int
    BY ONLY <2>1, ConfigAssumption
  <2>6. now - SVIDBackdatePeriod \in Int /\ now \in Int
    BY ConfigAssumption
  <2>7. CappedAtMost(now, X509SVIDTTL[call[c].wl], Last(snapshot[c]).notAfter) \in Int
    BY ONLY <2>6, <2>8, <2>9, CappedWithin
  <2>3. X509SVIDOf(c) \in SVID
    BY <2>1, <2>2, <2>6, <2>7 DEF X509SVIDOf, SVID, DetermineLifetime
  <2>10. PICK err \in MintErrors \cup {"ok"} :
          /\ Finish(c, err, X509SVIDOf(c))
          /\ err = "ok" => /\ ~(X509SVIDTTL[call[c].wl] <= 0)
                           /\ ~CapPassed(now, Last(snapshot[c]).notAfter)
    BY <1>15, MintsX509
  <2>4. svid' \in [Calls -> SVID \cup {NoSVID}]
    BY <2>3, <2>10 DEF Finish
  <2>5. pc' \in [Calls -> CallStates] /\ status' \in [Calls -> Outcomes]
    BY <2>10 DEF Finish, CallStep, CallStates, Outcomes, MintErrors
  <2> QED
    BY <2>4, <2>5, <2>10 DEF Finish
<1>16. ASSUME NEW c \in Calls, MintJWTSVID(c) PROVE TypeOK'
  <2>1. /\ call[c].td \in TDs /\ call[c].wl \in Workloads
        /\ snapshot[c] = jwtAuthorities[call[c].td]
        /\ jwtAuthorities[call[c].td] # <<>>
    BY <1>16, MintsFindAuthority DEF MintJWTSVID, Finish, CallStep, AuthoritiesFor
  <2>2. Last(snapshot[c]) \in JWTAuthority
    BY <2>1, LastSeq
  <2>6. JWTSVIDTTL[call[c].wl] \in Int /\ now + JWTAuthorityTTL[call[c].td] \in Int
        /\ now \in Int
    BY <2>1, ConfigAssumption
  <2>7. CappedAtMost(now, JWTSVIDTTL[call[c].wl], now + JWTAuthorityTTL[call[c].td]) \in Int
    BY ONLY <2>6, CappedWithin
  <2>3. JWTSVIDOf(c) \in SVID
    BY <2>1, <2>2, <2>6, <2>7 DEF JWTSVIDOf, SVID, DetermineExpiry
  <2>10. PICK err \in MintErrors \cup {"ok"} :
          Finish(c, err, JWTSVIDOf(c))
    BY <1>16, MintsJWT
  <2>4. svid' \in [Calls -> SVID \cup {NoSVID}]
    BY <2>3, <2>10 DEF Finish
  <2>5. pc' \in [Calls -> CallStates] /\ status' \in [Calls -> Outcomes]
    BY <2>10 DEF Finish, CallStep, CallStates, Outcomes, MintErrors
  <2> QED
    BY <2>4, <2>5, <2>10 DEF Finish
<1>17. ASSUME NEW c \in Calls, X509Bundles(c) PROVE TypeOK'
  <2>1. call[c].td \in TDs
    BY <1>17, CalledTD DEF X509Bundles, ReturnBundle, CallStep
  <2>2. ToSet(x509Authorities[call[c].td]) \subseteq X509Authority
    BY <2>1, ToSetSeq
  <2>3. bundle' \in [Calls -> SUBSET (X509Authority \cup JWTAuthority)]
    BY <1>17, <2>2 DEF X509Bundles, ReturnBundle
  <2>4. pc' \in [Calls -> CallStates] /\ status' \in [Calls -> Outcomes]
    BY <1>17 DEF X509Bundles, ReturnBundle, CallStep, RunStates, CallStates, Outcomes
  <2> QED
    BY <1>17, <2>3, <2>4 DEF X509Bundles
<1>18. ASSUME NEW c \in Calls, JWTBundles(c) PROVE TypeOK'
  <2>1. call[c].td \in TDs
    BY <1>18, CalledTD DEF JWTBundles, ReturnBundle, CallStep
  <2>2. ToSet(jwtAuthorities[call[c].td]) \subseteq JWTAuthority
    BY <2>1, ToSetSeq
  <2>3. bundle' \in [Calls -> SUBSET (X509Authority \cup JWTAuthority)]
    BY <1>18, <2>2 DEF JWTBundles, ReturnBundle
  <2>4. pc' \in [Calls -> CallStates] /\ status' \in [Calls -> Outcomes]
    BY <1>18 DEF JWTBundles, ReturnBundle, CallStep, RunStates, CallStates, Outcomes
  <2> QED
    BY <1>18, <2>3, <2>4 DEF JWTBundles
<1>19. ASSUME NEW c \in Calls, Bundle(c) PROVE TypeOK'
  <2>1. call[c].td \in TDs
    BY <1>19, CalledTD DEF Bundle, ReturnBundle, CallStep
  <2>2. /\ ToSet(x509Authorities[call[c].td]) \subseteq X509Authority
        /\ ToSet(jwtAuthorities[call[c].td]) \subseteq JWTAuthority
    BY <2>1, ToSetSeq
  <2>3. bundle' \in [Calls -> SUBSET (X509Authority \cup JWTAuthority)]
    BY <1>19, <2>2 DEF Bundle, ReturnBundle
  <2>4. /\ pc' \in [Calls -> CallStates] /\ status' \in [Calls -> Outcomes]
        /\ muReaders' \in [TDs -> SUBSET Calls]
    BY <1>19 DEF Bundle, ReturnBundle, CallStep, RunStates, CallStates, Outcomes
  <2> QED
    BY <1>19, <2>3, <2>4 DEF Bundle
<1>20. CASE Tick
  <2>1. now' \in Nat
    BY <1>20 DEF Tick
  <2> QED
    BY <1>20, <2>1 DEF Tick
<1>21. CASE UNCHANGED vars
  BY <1>21 DEF vars
<1>22. QED
  BY <1>1, <1>2, <1>3, <1>4, <1>5, <1>6, <1>7, <1>8, <1>9, <1>10, <1>11, <1>12, <1>13, <1>14, <1>15, <1>16, <1>17, <1>18, <1>19, <1>20, <1>21 DEF Next, RunNext, CallNext, Quiescent

\* The lock, writing side.
LEMMA WriterStep == TypeOK /\ WriterInv /\ [Next]_vars => WriterInv'
<1> SUFFICES ASSUME TypeOK, WriterInv, [Next]_vars PROVE WriterInv'
  OBVIOUS
<1> USE DEF TypeOK, WriterInv, authorityVars, muVars, runVars, callVars
<1>1. ASSUME NEW td \in TDs, RotateX509Authority(td) PROVE WriterInv'
  BY <1>1 DEF RotateX509Authority, RunStep
<1>2. ASSUME NEW td \in TDs, RotateJWTAuthority(td) PROVE WriterInv'
  BY <1>2 DEF RotateJWTAuthority, RunStep
<1>3. ASSUME NEW td \in TDs, LockAnnounce(td) PROVE WriterInv'
  BY <1>3 DEF LockAnnounce, RunStep
<1>4. ASSUME NEW td \in TDs, LockAcquire(td) PROVE WriterInv'
  BY <1>4 DEF LockAcquire, RunStep
<1>5. ASSUME NEW td \in TDs, AppendX509(td) PROVE WriterInv'
  BY <1>5 DEF AppendX509, RunStep
<1>6. ASSUME NEW td \in TDs, NewJWTKeyID(td) PROVE WriterInv'
  BY <1>6 DEF NewJWTKeyID, RunStep
<1>7. ASSUME NEW td \in TDs, AppendJWT(td) PROVE WriterInv'
  BY <1>7 DEF AppendJWT, RunStep
<1>8. ASSUME NEW td \in TDs, NewWorkloads(td) PROVE WriterInv'
  BY <1>8 DEF NewWorkloads, RunStep
<1>9. ASSUME NEW w \in Workloads, Listen(w) PROVE WriterInv'
  BY <1>9 DEF Listen
<1>10. ASSUME NEW c \in Calls, Call(c) PROVE WriterInv'
  BY <1>10 DEF Call, CallStep
<1>11. ASSUME NEW c \in Calls, CallFederation(c) PROVE WriterInv'
  BY <1>11 DEF CallFederation, CallStep
<1>12. ASSUME NEW c \in Calls, RLock(c) PROVE WriterInv'
  BY <1>12 DEF RLock, CallStep
<1>13. ASSUME NEW c \in Calls, CopyAuthorities(c) PROVE WriterInv'
  BY <1>13 DEF CopyAuthorities, CallStep
<1>14. ASSUME NEW c \in Calls, CheckAuthorities(c) PROVE WriterInv'
  BY <1>14 DEF CheckAuthorities, CallStep
<1>15. ASSUME NEW c \in Calls, MintX509SVID(c) PROVE WriterInv'
  BY <1>15 DEF MintX509SVID, Finish, CallStep
<1>16. ASSUME NEW c \in Calls, MintJWTSVID(c) PROVE WriterInv'
  BY <1>16 DEF MintJWTSVID, Finish, CallStep
<1>17. ASSUME NEW c \in Calls, X509Bundles(c) PROVE WriterInv'
  BY <1>17 DEF X509Bundles, ReturnBundle, CallStep
<1>18. ASSUME NEW c \in Calls, JWTBundles(c) PROVE WriterInv'
  BY <1>18 DEF JWTBundles, ReturnBundle, CallStep
<1>19. ASSUME NEW c \in Calls, Bundle(c) PROVE WriterInv'
  BY <1>19 DEF Bundle, ReturnBundle, CallStep
<1>20. CASE Tick
  BY <1>20 DEF Tick
<1>21. CASE UNCHANGED vars
  BY <1>21 DEF vars
<1>22. QED
  BY <1>1, <1>2, <1>3, <1>4, <1>5, <1>6, <1>7, <1>8, <1>9, <1>10, <1>11, <1>12, <1>13, <1>14, <1>15, <1>16, <1>17, <1>18, <1>19, <1>20, <1>21 DEF Next, RunNext, CallNext, Quiescent

\* The lock, reading side.
LEMMA ReaderStep == TypeOK /\ WriterInv /\ ReaderInv /\ CallInv /\ [Next]_vars => ReaderInv'
<1> SUFFICES ASSUME TypeOK, WriterInv, ReaderInv, CallInv, [Next]_vars PROVE ReaderInv'
  OBVIOUS
<1> USE DEF TypeOK, ReaderInv, authorityVars, muVars, runVars, callVars
<1>1. ASSUME NEW td \in TDs, RotateX509Authority(td) PROVE ReaderInv'
  BY <1>1 DEF RotateX509Authority, RunStep
<1>2. ASSUME NEW td \in TDs, RotateJWTAuthority(td) PROVE ReaderInv'
  BY <1>2 DEF RotateJWTAuthority, RunStep
<1>3. ASSUME NEW td \in TDs, LockAnnounce(td) PROVE ReaderInv'
  BY <1>3 DEF LockAnnounce, RunStep
<1>4. ASSUME NEW td \in TDs, LockAcquire(td) PROVE ReaderInv'
  BY <1>4 DEF LockAcquire, RunStep
<1>5. ASSUME NEW td \in TDs, AppendX509(td) PROVE ReaderInv'
  BY <1>5 DEF AppendX509, RunStep
<1>6. ASSUME NEW td \in TDs, NewJWTKeyID(td) PROVE ReaderInv'
  BY <1>6 DEF NewJWTKeyID, RunStep
<1>7. ASSUME NEW td \in TDs, AppendJWT(td) PROVE ReaderInv'
  BY <1>7 DEF AppendJWT, RunStep
<1>8. ASSUME NEW td \in TDs, NewWorkloads(td) PROVE ReaderInv'
  BY <1>8 DEF NewWorkloads, RunStep
<1>9. ASSUME NEW w \in Workloads, Listen(w) PROVE ReaderInv'
  BY <1>9 DEF Listen
<1>10. ASSUME NEW c \in Calls, Call(c) PROVE ReaderInv'
  BY <1>10 DEF Call, CallStep
<1>11. ASSUME NEW c \in Calls, CallFederation(c) PROVE ReaderInv'
  BY <1>11 DEF CallFederation, CallStep
<1>12. ASSUME NEW c \in Calls, RLock(c) PROVE ReaderInv'
  BY <1>12 DEF RLock, CallStep
<1>13. ASSUME NEW c \in Calls, CopyAuthorities(c) PROVE ReaderInv'
  BY <1>13 DEF CopyAuthorities, CallStep
<1>14. ASSUME NEW c \in Calls, CheckAuthorities(c) PROVE ReaderInv'
  BY <1>14 DEF CheckAuthorities, CallStep
<1>15. ASSUME NEW c \in Calls, MintX509SVID(c) PROVE ReaderInv'
  <2>1. PICK err, s : Finish(c, err, s)
    BY <1>15, Finishes
  <2> QED
    BY <2>1 DEF Finish, CallStep
<1>16. ASSUME NEW c \in Calls, MintJWTSVID(c) PROVE ReaderInv'
  <2>1. PICK err, s : Finish(c, err, s)
    BY <1>16, Finishes
  <2> QED
    BY <2>1 DEF Finish, CallStep
<1>17. ASSUME NEW c \in Calls, X509Bundles(c) PROVE ReaderInv'
  BY <1>17 DEF X509Bundles, ReturnBundle, CallStep
<1>18. ASSUME NEW c \in Calls, JWTBundles(c) PROVE ReaderInv'
  BY <1>18 DEF JWTBundles, ReturnBundle, CallStep
<1>19. ASSUME NEW c \in Calls, Bundle(c) PROVE ReaderInv'
  BY <1>19 DEF Bundle, ReturnBundle, CallStep
<1>20. CASE Tick
  BY <1>20 DEF Tick
<1>21. CASE UNCHANGED vars
  BY <1>21 DEF vars
<1>22. QED
  BY <1>1, <1>2, <1>3, <1>4, <1>5, <1>6, <1>7, <1>8, <1>9, <1>10, <1>11, <1>12, <1>13, <1>14, <1>15, <1>16, <1>17, <1>18, <1>19, <1>20, <1>21 DEF Next, RunNext, CallNext, Quiescent

\* The progress of Run.
LEMMA PhaseStep == TypeOK /\ PhaseInv /\ [Next]_vars => PhaseInv'
<1> SUFFICES ASSUME TypeOK, PhaseInv, [Next]_vars PROVE PhaseInv'
  OBVIOUS
<1> USE DEF TypeOK, PhaseInv, authorityVars, muVars, runVars, callVars
<1>1. ASSUME NEW td \in TDs, RotateX509Authority(td) PROVE PhaseInv'
  <2>1. run'[td] = "lockX509" => newCert'[td] \in X509Authority
    BY <1>1, NewCertOK
  <2>2. run'[td] \in {"lockX509", "failed"}
    BY <1>1 DEF RotateX509Authority, RunStep
  <2>3. \A u \in TDs \ {td} : run'[u] = run[u] /\ newCert'[u] = newCert[u]
    BY <1>1 DEF RotateX509Authority, RunStep
  <2> QED
    BY <1>1, <2>1, <2>2, <2>3 DEF RotateX509Authority
<1>2. ASSUME NEW td \in TDs, RotateJWTAuthority(td) PROVE PhaseInv'
  BY <1>2 DEF RotateJWTAuthority, RunStep
<1>3. ASSUME NEW td \in TDs, LockAnnounce(td) PROVE PhaseInv'
  BY <1>3 DEF LockAnnounce, RunStep
<1>4. ASSUME NEW td \in TDs, LockAcquire(td) PROVE PhaseInv'
  BY <1>4 DEF LockAcquire, RunStep
<1>5. ASSUME NEW td \in TDs, AppendX509(td) PROVE PhaseInv'
  BY <1>5, AppendNonEmpty DEF AppendX509, RunStep
<1>6. ASSUME NEW td \in TDs, NewJWTKeyID(td) PROVE PhaseInv'
  BY <1>6 DEF NewJWTKeyID, RunStep
<1>7. ASSUME NEW td \in TDs, AppendJWT(td) PROVE PhaseInv'
  <2>1. jwtAuthorities'[td] # <<>>
    BY <1>7, AppendNonEmpty DEF AppendJWT
  <2>2. run'[td] = "newWorkloads" /\ run[td] = "appendJWT"
    BY <1>7 DEF AppendJWT, RunStep
  <2>3. \A u \in TDs \ {td} : run'[u] = run[u] /\ jwtAuthorities'[u] = jwtAuthorities[u]
    BY <1>7 DEF AppendJWT, RunStep
  <2> QED
    BY <1>7, <2>1, <2>2, <2>3 DEF AppendJWT
<1>8. ASSUME NEW td \in TDs, NewWorkloads(td) PROVE PhaseInv'
  BY <1>8 DEF NewWorkloads, RunStep
<1>9. ASSUME NEW w \in Workloads, Listen(w) PROVE PhaseInv'
  BY <1>9 DEF Listen
<1>10. ASSUME NEW c \in Calls, Call(c) PROVE PhaseInv'
  BY <1>10 DEF Call, CallStep
<1>11. ASSUME NEW c \in Calls, CallFederation(c) PROVE PhaseInv'
  BY <1>11 DEF CallFederation, CallStep
<1>12. ASSUME NEW c \in Calls, RLock(c) PROVE PhaseInv'
  BY <1>12 DEF RLock, CallStep
<1>13. ASSUME NEW c \in Calls, CopyAuthorities(c) PROVE PhaseInv'
  BY <1>13 DEF CopyAuthorities, CallStep
<1>14. ASSUME NEW c \in Calls, CheckAuthorities(c) PROVE PhaseInv'
  BY <1>14 DEF CheckAuthorities, CallStep
<1>15. ASSUME NEW c \in Calls, MintX509SVID(c) PROVE PhaseInv'
  BY <1>15 DEF MintX509SVID, Finish, CallStep
<1>16. ASSUME NEW c \in Calls, MintJWTSVID(c) PROVE PhaseInv'
  BY <1>16 DEF MintJWTSVID, Finish, CallStep
<1>17. ASSUME NEW c \in Calls, X509Bundles(c) PROVE PhaseInv'
  BY <1>17 DEF X509Bundles, ReturnBundle, CallStep
<1>18. ASSUME NEW c \in Calls, JWTBundles(c) PROVE PhaseInv'
  BY <1>18 DEF JWTBundles, ReturnBundle, CallStep
<1>19. ASSUME NEW c \in Calls, Bundle(c) PROVE PhaseInv'
  BY <1>19 DEF Bundle, ReturnBundle, CallStep
<1>20. CASE Tick
  BY <1>20 DEF Tick
<1>21. CASE UNCHANGED vars
  BY <1>21 DEF vars
<1>22. QED
  BY <1>1, <1>2, <1>3, <1>4, <1>5, <1>6, <1>7, <1>8, <1>9, <1>10, <1>11, <1>12, <1>13, <1>14, <1>15, <1>16, <1>17, <1>18, <1>19, <1>20, <1>21 DEF Next, RunNext, CallNext, Quiescent

\* Run does not leave "serving".
LEMMA ListenStep == TypeOK /\ ListenInv /\ [Next]_vars => ListenInv'
<1> SUFFICES ASSUME TypeOK, ListenInv, [Next]_vars PROVE ListenInv'
  OBVIOUS
<1> USE ConfigAssumption DEF TypeOK, ListenInv, authorityVars, muVars, runVars, callVars
<1>1. ASSUME NEW td \in TDs, RotateX509Authority(td) PROVE ListenInv'
  BY <1>1 DEF RotateX509Authority, RunStep
<1>2. ASSUME NEW td \in TDs, RotateJWTAuthority(td) PROVE ListenInv'
  BY <1>2 DEF RotateJWTAuthority, RunStep
<1>3. ASSUME NEW td \in TDs, LockAnnounce(td) PROVE ListenInv'
  BY <1>3 DEF LockAnnounce, RunStep
<1>4. ASSUME NEW td \in TDs, LockAcquire(td) PROVE ListenInv'
  BY <1>4 DEF LockAcquire, RunStep
<1>5. ASSUME NEW td \in TDs, AppendX509(td) PROVE ListenInv'
  BY <1>5 DEF AppendX509, RunStep
<1>6. ASSUME NEW td \in TDs, NewJWTKeyID(td) PROVE ListenInv'
  BY <1>6 DEF NewJWTKeyID, RunStep
<1>7. ASSUME NEW td \in TDs, AppendJWT(td) PROVE ListenInv'
  BY <1>7 DEF AppendJWT, RunStep
<1>8. ASSUME NEW td \in TDs, NewWorkloads(td) PROVE ListenInv'
  BY <1>8 DEF NewWorkloads, RunStep
<1>9. ASSUME NEW w \in Workloads, Listen(w) PROVE ListenInv'
  BY <1>9 DEF Listen
<1>10. ASSUME NEW c \in Calls, Call(c) PROVE ListenInv'
  BY <1>10 DEF Call, CallStep
<1>11. ASSUME NEW c \in Calls, CallFederation(c) PROVE ListenInv'
  BY <1>11 DEF CallFederation, CallStep
<1>12. ASSUME NEW c \in Calls, RLock(c) PROVE ListenInv'
  BY <1>12 DEF RLock, CallStep
<1>13. ASSUME NEW c \in Calls, CopyAuthorities(c) PROVE ListenInv'
  BY <1>13 DEF CopyAuthorities, CallStep
<1>14. ASSUME NEW c \in Calls, CheckAuthorities(c) PROVE ListenInv'
  BY <1>14 DEF CheckAuthorities, CallStep
<1>15. ASSUME NEW c \in Calls, MintX509SVID(c) PROVE ListenInv'
  BY <1>15 DEF MintX509SVID, Finish, CallStep
<1>16. ASSUME NEW c \in Calls, MintJWTSVID(c) PROVE ListenInv'
  BY <1>16 DEF MintJWTSVID, Finish, CallStep
<1>17. ASSUME NEW c \in Calls, X509Bundles(c) PROVE ListenInv'
  BY <1>17 DEF X509Bundles, ReturnBundle, CallStep
<1>18. ASSUME NEW c \in Calls, JWTBundles(c) PROVE ListenInv'
  BY <1>18 DEF JWTBundles, ReturnBundle, CallStep
<1>19. ASSUME NEW c \in Calls, Bundle(c) PROVE ListenInv'
  BY <1>19 DEF Bundle, ReturnBundle, CallStep
<1>20. CASE Tick
  BY <1>20 DEF Tick
<1>21. CASE UNCHANGED vars
  BY <1>21 DEF vars
<1>22. QED
  BY <1>1, <1>2, <1>3, <1>4, <1>5, <1>6, <1>7, <1>8, <1>9, <1>10, <1>11, <1>12, <1>13, <1>14, <1>15, <1>16, <1>17, <1>18, <1>19, <1>20, <1>21 DEF Next, RunNext, CallNext, Quiescent

\* The calls.
LEMMA CallsStep == TypeOK /\ CallInv /\ [Next]_vars => CallInv'
<1> SUFFICES ASSUME TypeOK, CallInv, [Next]_vars PROVE CallInv'
  OBVIOUS
<1> USE DEF TypeOK, CallInv, authorityVars, muVars, runVars, callVars, Mints, WorkloadMethods, NoCall
<1>1. ASSUME NEW td \in TDs, RotateX509Authority(td) PROVE CallInv'
  BY <1>1 DEF RotateX509Authority, RunStep
<1>2. ASSUME NEW td \in TDs, RotateJWTAuthority(td) PROVE CallInv'
  BY <1>2 DEF RotateJWTAuthority, RunStep
<1>3. ASSUME NEW td \in TDs, LockAnnounce(td) PROVE CallInv'
  BY <1>3 DEF LockAnnounce, RunStep
<1>4. ASSUME NEW td \in TDs, LockAcquire(td) PROVE CallInv'
  BY <1>4 DEF LockAcquire, RunStep
<1>5. ASSUME NEW td \in TDs, AppendX509(td) PROVE CallInv'
  BY <1>5 DEF AppendX509, RunStep
<1>6. ASSUME NEW td \in TDs, NewJWTKeyID(td) PROVE CallInv'
  BY <1>6 DEF NewJWTKeyID, RunStep
<1>7. ASSUME NEW td \in TDs, AppendJWT(td) PROVE CallInv'
  BY <1>7 DEF AppendJWT, RunStep
<1>8. ASSUME NEW td \in TDs, NewWorkloads(td) PROVE CallInv'
  BY <1>8 DEF NewWorkloads, RunStep
<1>9. ASSUME NEW w \in Workloads, Listen(w) PROVE CallInv'
  BY <1>9 DEF Listen
<1>10. ASSUME NEW c \in Calls, Call(c) PROVE CallInv'
  BY <1>10 DEF Call, CallStep
<1>11. ASSUME NEW c \in Calls, CallFederation(c) PROVE CallInv'
  BY <1>11 DEF CallFederation, CallStep
<1>12. ASSUME NEW c \in Calls, RLock(c) PROVE CallInv'
  BY <1>12 DEF RLock, CallStep
<1>13. ASSUME NEW c \in Calls, CopyAuthorities(c) PROVE CallInv'
  BY <1>13 DEF CopyAuthorities, CallStep
<1>14. ASSUME NEW c \in Calls, CheckAuthorities(c) PROVE CallInv'
  BY <1>14 DEF CheckAuthorities, CallStep
<1>15. ASSUME NEW c \in Calls, MintX509SVID(c) PROVE CallInv'
  <2>1. PICK err, s : Finish(c, err, s)
    BY <1>15, Finishes
  <2> QED
    BY <2>1 DEF Finish, CallStep
<1>16. ASSUME NEW c \in Calls, MintJWTSVID(c) PROVE CallInv'
  <2>1. PICK err, s : Finish(c, err, s)
    BY <1>16, Finishes
  <2> QED
    BY <2>1 DEF Finish, CallStep
<1>17. ASSUME NEW c \in Calls, X509Bundles(c) PROVE CallInv'
  BY <1>17 DEF X509Bundles, ReturnBundle, CallStep
<1>18. ASSUME NEW c \in Calls, JWTBundles(c) PROVE CallInv'
  BY <1>18 DEF JWTBundles, ReturnBundle, CallStep
<1>19. ASSUME NEW c \in Calls, Bundle(c) PROVE CallInv'
  BY <1>19 DEF Bundle, ReturnBundle, CallStep
<1>20. CASE Tick
  BY <1>20 DEF Tick
<1>21. CASE UNCHANGED vars
  BY <1>21 DEF vars
<1>22. QED
  BY <1>1, <1>2, <1>3, <1>4, <1>5, <1>6, <1>7, <1>8, <1>9, <1>10, <1>11, <1>12, <1>13, <1>14, <1>15, <1>16, <1>17, <1>18, <1>19, <1>20, <1>21 DEF Next, RunNext, CallNext, Quiescent

\* A call that begins copies nothing, and disturbs no other.
LEMMA MintKept ==
  ASSUME MintInv, NEW c \in Calls, pc'[c] \notin {"check", "mint"},
         \A d \in Calls \ {c} : pc'[d] = pc[d] /\ call'[d] = call[d],
         UNCHANGED <<x509Authorities, jwtAuthorities, snapshot, status>>
  PROVE  MintInv'
<1> SUFFICES ASSUME NEW d \in Calls
             PROVE  /\ pc'[d] \in {"check", "mint"} =>
                         (snapshot[d] = AuthoritiesFor(call[d].method, call[d].td))'
                    /\ status'[d] \notin {"no authority", "panic"}
  BY DEF MintInv, AuthoritiesFor
<1>1. CASE d = c
  BY <1>1 DEF MintInv
<1>2. CASE d # c
  BY <1>2 DEF MintInv, AuthoritiesFor
<1> QED
  BY <1>1, <1>2

\* A rotation cannot happen between the copy and the mint.
LEMMA MintStep == TypeOK /\ PhaseInv /\ ListenInv /\ CallInv /\ MintInv /\ [Next]_vars => MintInv'
<1> SUFFICES ASSUME TypeOK, PhaseInv, ListenInv, CallInv, MintInv, [Next]_vars PROVE MintInv'
  OBVIOUS
<1> USE DEF TypeOK, MintInv, authorityVars, muVars, runVars, callVars, AuthoritiesFor
<1>1. ASSUME NEW td \in TDs, RotateX509Authority(td) PROVE MintInv'
  BY <1>1 DEF RotateX509Authority, RunStep
<1>2. ASSUME NEW td \in TDs, RotateJWTAuthority(td) PROVE MintInv'
  BY <1>2 DEF RotateJWTAuthority, RunStep
<1>3. ASSUME NEW td \in TDs, LockAnnounce(td) PROVE MintInv'
  BY <1>3 DEF LockAnnounce, RunStep
<1>4. ASSUME NEW td \in TDs, LockAcquire(td) PROVE MintInv'
  BY <1>4 DEF LockAcquire, RunStep
<1>5. ASSUME NEW td \in TDs, AppendX509(td) PROVE MintInv'
  <2>1. \A c \in Calls : pc[c] \in {"check", "mint"} => call[c].td \in TDs \ {td}
    BY <1>5, MintsFindAuthority DEF AppendX509, RunStep
  <2>2. \A u \in TDs \ {td} : x509Authorities'[u] = x509Authorities[u]
    BY <1>5 DEF AppendX509
  <2> QED
    BY <1>5, <2>1, <2>2 DEF AppendX509
<1>6. ASSUME NEW td \in TDs, NewJWTKeyID(td) PROVE MintInv'
  BY <1>6 DEF NewJWTKeyID, RunStep
<1>7. ASSUME NEW td \in TDs, AppendJWT(td) PROVE MintInv'
  <2>1. \A c \in Calls : pc[c] \in {"check", "mint"} => call[c].td \in TDs \ {td}
    BY <1>7, MintsFindAuthority DEF AppendJWT, RunStep
  <2>2. \A u \in TDs \ {td} : jwtAuthorities'[u] = jwtAuthorities[u]
    BY <1>7 DEF AppendJWT
  <2> QED
    BY <1>7, <2>1, <2>2 DEF AppendJWT
<1>8. ASSUME NEW td \in TDs, NewWorkloads(td) PROVE MintInv'
  BY <1>8 DEF NewWorkloads, RunStep
<1>9. ASSUME NEW w \in Workloads, Listen(w) PROVE MintInv'
  BY <1>9 DEF Listen
<1>10. ASSUME NEW c \in Calls, Call(c) PROVE MintInv'
  <2>1. UNCHANGED <<x509Authorities, jwtAuthorities, snapshot, status>>
    BY <1>10 DEF Call
  <2>2. PICK step \in {"rlock", "readUnlocked"} : pc' = [pc EXCEPT ![c] = step]
    BY <1>10 DEF Call, CallStep
  <2>3. \A d \in Calls \ {c} : pc'[d] = pc[d] /\ call'[d] = call[d]
    BY <1>10, <2>2 DEF Call
  <2>4. pc'[c] \in {"rlock", "readUnlocked"}
    BY <2>2
  <2> QED
    BY <2>1, <2>3, <2>4, MintKept
<1>11. ASSUME NEW c \in Calls, CallFederation(c) PROVE MintInv'
  <2>1. /\ pc'[c] = "rlock"
        /\ \A d \in Calls \ {c} : pc'[d] = pc[d] /\ call'[d] = call[d]
    BY <1>11 DEF CallFederation, CallStep
  <2>2. UNCHANGED <<x509Authorities, jwtAuthorities, snapshot, status>>
    BY <1>11 DEF CallFederation
  <2> QED
    BY <2>1, <2>2, MintKept
<1>12. ASSUME NEW c \in Calls, RLock(c) PROVE MintInv'
  BY <1>12 DEF RLock, CallStep
<1>13. ASSUME NEW c \in Calls, CopyAuthorities(c) PROVE MintInv'
  BY <1>13 DEF CopyAuthorities, CallStep
<1>14. ASSUME NEW c \in Calls, CheckAuthorities(c) PROVE MintInv'
  <2>1. AuthoritiesFor(call[c].method, call[c].td) # <<>>
    BY <1>14, MintsFindAuthority DEF CheckAuthorities, CallStep
  <2> QED
    BY <1>14, <2>1 DEF CheckAuthorities, CallStep
<1>15. ASSUME NEW c \in Calls, MintX509SVID(c) PROVE MintInv'
  <2>1. snapshot[c] # <<>> /\ pc'[c] = "done"
    BY <1>15, MintsFindAuthority DEF MintX509SVID, Finish, CallStep
  <2>10. PICK err \in MintErrors \cup {"ok"} :
          /\ Finish(c, err, X509SVIDOf(c))
          /\ err = "ok" => /\ ~(X509SVIDTTL[call[c].wl] <= 0)
                           /\ ~CapPassed(now, Last(snapshot[c]).notAfter)
    BY <1>15, MintsX509
  <2>2. \A d \in Calls \ {c} : pc'[d] = pc[d] /\ status'[d] = status[d]
    BY <2>10 DEF Finish, CallStep
  <2>3. status'[c] \in MintErrors \cup {"ok"}
    BY <2>1, <2>10 DEF Finish
  <2> QED
    BY <2>1, <2>2, <2>3, <2>10 DEF Finish, MintErrors
<1>16. ASSUME NEW c \in Calls, MintJWTSVID(c) PROVE MintInv'
  <2>1. snapshot[c] # <<>> /\ pc'[c] = "done"
    BY <1>16, MintsFindAuthority DEF MintJWTSVID, Finish, CallStep
  <2>10. PICK err \in MintErrors \cup {"ok"} :
          Finish(c, err, JWTSVIDOf(c))
    BY <1>16, MintsJWT
  <2>2. \A d \in Calls \ {c} : pc'[d] = pc[d] /\ status'[d] = status[d]
    BY <2>10 DEF Finish, CallStep
  <2>3. status'[c] \in MintErrors \cup {"ok"}
    BY <2>1, <2>10 DEF Finish
  <2> QED
    BY <2>1, <2>2, <2>3, <2>10 DEF Finish, MintErrors
<1>17. ASSUME NEW c \in Calls, X509Bundles(c) PROVE MintInv'
  BY <1>17 DEF X509Bundles, ReturnBundle, CallStep
<1>18. ASSUME NEW c \in Calls, JWTBundles(c) PROVE MintInv'
  BY <1>18 DEF JWTBundles, ReturnBundle, CallStep
<1>19. ASSUME NEW c \in Calls, Bundle(c) PROVE MintInv'
  BY <1>19 DEF Bundle, ReturnBundle, CallStep
<1>20. CASE Tick
  BY <1>20 DEF Tick
<1>21. CASE UNCHANGED vars
  BY <1>21 DEF vars
<1>22. QED
  BY <1>1, <1>2, <1>3, <1>4, <1>5, <1>6, <1>7, <1>8, <1>9, <1>10, <1>11, <1>12, <1>13, <1>14, <1>15, <1>16, <1>17, <1>18, <1>19, <1>20, <1>21 DEF Next, RunNext, CallNext, Quiescent

\* Only a mint creates an SVID.
LEMMA X509Step == TypeOK /\ PhaseInv /\ ListenInv /\ CallInv /\ MintInv /\ X509WithinAuthority /\ [Next]_vars => X509WithinAuthority'
<1> SUFFICES ASSUME TypeOK, PhaseInv, ListenInv, CallInv, MintInv, X509WithinAuthority, [Next]_vars PROVE X509WithinAuthority'
  OBVIOUS
<1> USE DEF TypeOK, X509WithinAuthority, authorityVars, muVars, runVars, callVars
<1>1. ASSUME NEW td \in TDs, RotateX509Authority(td) PROVE X509WithinAuthority'
  BY <1>1 DEF RotateX509Authority, RunStep
<1>2. ASSUME NEW td \in TDs, RotateJWTAuthority(td) PROVE X509WithinAuthority'
  BY <1>2 DEF RotateJWTAuthority, RunStep
<1>3. ASSUME NEW td \in TDs, LockAnnounce(td) PROVE X509WithinAuthority'
  BY <1>3 DEF LockAnnounce, RunStep
<1>4. ASSUME NEW td \in TDs, LockAcquire(td) PROVE X509WithinAuthority'
  BY <1>4 DEF LockAcquire, RunStep
<1>5. ASSUME NEW td \in TDs, AppendX509(td) PROVE X509WithinAuthority'
  BY <1>5 DEF AppendX509, RunStep
<1>6. ASSUME NEW td \in TDs, NewJWTKeyID(td) PROVE X509WithinAuthority'
  BY <1>6 DEF NewJWTKeyID, RunStep
<1>7. ASSUME NEW td \in TDs, AppendJWT(td) PROVE X509WithinAuthority'
  BY <1>7 DEF AppendJWT, RunStep
<1>8. ASSUME NEW td \in TDs, NewWorkloads(td) PROVE X509WithinAuthority'
  BY <1>8 DEF NewWorkloads, RunStep
<1>9. ASSUME NEW w \in Workloads, Listen(w) PROVE X509WithinAuthority'
  BY <1>9 DEF Listen
<1>10. ASSUME NEW c \in Calls, Call(c) PROVE X509WithinAuthority'
  BY <1>10 DEF Call, CallStep
<1>11. ASSUME NEW c \in Calls, CallFederation(c) PROVE X509WithinAuthority'
  BY <1>11 DEF CallFederation, CallStep
<1>12. ASSUME NEW c \in Calls, RLock(c) PROVE X509WithinAuthority'
  BY <1>12 DEF RLock, CallStep
<1>13. ASSUME NEW c \in Calls, CopyAuthorities(c) PROVE X509WithinAuthority'
  BY <1>13 DEF CopyAuthorities, CallStep
<1>14. ASSUME NEW c \in Calls, CheckAuthorities(c) PROVE X509WithinAuthority'
  BY <1>14 DEF CheckAuthorities, CallStep
<1>15. ASSUME NEW c \in Calls, MintX509SVID(c) PROVE X509WithinAuthority'
  <2> DEFINE a == Last(snapshot[c])
             ttl == X509SVIDTTL[call[c].wl]
  <2>1. /\ call[c].wl \in Workloads /\ call[c].td \in TDs
        /\ snapshot[c] = x509Authorities[call[c].td] /\ snapshot[c] # <<>>
    BY <1>15, MintsFindAuthority DEF MintX509SVID, Finish, CallStep, AuthoritiesFor
  <2>2. a \in X509Authority
    BY <2>1, LastSeq
  <2>3. a.notAfter \in Int
    BY ONLY <2>2 DEF X509Authority
  <2>4. ttl \in Int /\ now \in Int
    BY <2>1, ConfigAssumption
  <2>10. PICK err \in MintErrors \cup {"ok"} :
          /\ Finish(c, err, X509SVIDOf(c))
          /\ err = "ok" => /\ ~(X509SVIDTTL[call[c].wl] <= 0)
                           /\ ~CapPassed(now, Last(snapshot[c]).notAfter)
    BY <1>15, MintsX509
  <2>5. svid'[c] = svid[c] \/
          /\ ~(ttl <= 0) /\ ~CapPassed(now, a.notAfter)
          /\ svid'[c].at = now /\ svid'[c].issuer = a
          /\ svid'[c].notAfter = CappedAtMost(now, ttl, a.notAfter)
    BY <2>1, <2>10 DEF Finish, X509SVIDOf, DetermineLifetime
  <2>6. svid'[c] = svid[c] \/
          /\ svid'[c].at < svid'[c].issuer.notAfter /\ svid'[c].at < svid'[c].notAfter
          /\ svid'[c].notAfter <= svid'[c].issuer.notAfter
    <3>1. ~(ttl <= 0) => ttl > 0
      BY ONLY <2>4
    <3>2. ~CapPassed(now, a.notAfter) => now < a.notAfter
      BY ONLY <2>3, <2>4 DEF CapPassed
    <3>3. /\ CappedAtMost(now, ttl, a.notAfter) <= a.notAfter
          /\ ttl > 0 /\ ~CapPassed(now, a.notAfter) => now < CappedAtMost(now, ttl, a.notAfter)
      BY ONLY <2>3, <2>4, CappedWithin
    <3> HIDE DEF a, ttl
    <3> QED
      BY ONLY <2>5, <3>1, <3>2, <3>3
  <2>7. \A d \in Calls \ {c} : svid'[d] = svid[d]
    BY <1>15 DEF MintX509SVID, Finish
  <2> QED
    BY <2>6, <2>7 DEF X509WithinAuthority
<1>16. ASSUME NEW c \in Calls, MintJWTSVID(c) PROVE X509WithinAuthority'
  <2>10. PICK err \in MintErrors \cup {"ok"} :
          Finish(c, err, JWTSVIDOf(c))
    BY <1>16, MintsJWT
  <2>1. svid'[c] = svid[c] \/ svid'[c].kind = "jwt"
    BY <2>10 DEF Finish, JWTSVIDOf
  <2>2. \A d \in Calls \ {c} : svid'[d] = svid[d]
    BY <1>16 DEF MintJWTSVID, Finish
  <2> QED
    BY <2>1, <2>2 DEF X509WithinAuthority
<1>17. ASSUME NEW c \in Calls, X509Bundles(c) PROVE X509WithinAuthority'
  BY <1>17 DEF X509Bundles, ReturnBundle, CallStep
<1>18. ASSUME NEW c \in Calls, JWTBundles(c) PROVE X509WithinAuthority'
  BY <1>18 DEF JWTBundles, ReturnBundle, CallStep
<1>19. ASSUME NEW c \in Calls, Bundle(c) PROVE X509WithinAuthority'
  BY <1>19 DEF Bundle, ReturnBundle, CallStep
<1>20. CASE Tick
  BY <1>20 DEF Tick
<1>21. CASE UNCHANGED vars
  BY <1>21 DEF vars
<1>22. QED
  BY <1>1, <1>2, <1>3, <1>4, <1>5, <1>6, <1>7, <1>8, <1>9, <1>10, <1>11, <1>12, <1>13, <1>14, <1>15, <1>16, <1>17, <1>18, <1>19, <1>20, <1>21 DEF Next, RunNext, CallNext, Quiescent

\* Key IDs, through the window between the counter and the append.
LEMMA KeyStep == TypeOK /\ PhaseInv /\ KeyInv /\ [Next]_vars => KeyInv'
<1> SUFFICES ASSUME TypeOK, PhaseInv, KeyInv, [Next]_vars PROVE KeyInv'
  OBVIOUS
<1> USE DEF KeyInv, KeysCounted, PendingKeyNew, JWTKeyIDsDistinct, authorityVars, muVars, runVars, callVars
<1>1. ASSUME NEW td \in TDs, RotateX509Authority(td) PROVE KeyInv'
  BY <1>1 DEF RotateX509Authority, RunStep, TypeOK
<1>2. ASSUME NEW td \in TDs, RotateJWTAuthority(td) PROVE KeyInv'
  BY <1>2 DEF RotateJWTAuthority, RunStep, TypeOK
<1>3. ASSUME NEW td \in TDs, LockAnnounce(td) PROVE KeyInv'
  BY <1>3 DEF LockAnnounce, RunStep
<1>4. ASSUME NEW td \in TDs, LockAcquire(td) PROVE KeyInv'
  BY <1>4 DEF LockAcquire, RunStep, TypeOK
<1>5. ASSUME NEW td \in TDs, AppendX509(td) PROVE KeyInv'
  BY <1>5 DEF AppendX509, RunStep
<1>6. ASSUME NEW td \in TDs, NewJWTKeyID(td) PROVE KeyInv'
  <2>1. /\ jwtKeyCounter' = jwtKeyCounter + 1 /\ jwtKeyCounter \in Nat
        /\ newKeyID' = [newKeyID EXCEPT ![td] = jwtKeyCounter'] /\ newKeyID \in [TDs -> Nat]
        /\ run' = [run EXCEPT ![td] = "appendJWT"] /\ run[td] = "keyJWT" /\ run \in [TDs -> RunStates]
        /\ jwtAuthorities' = jwtAuthorities
    BY <1>6 DEF NewJWTKeyID, RunStep, TypeOK
  <2>2. \A u \in TDs : \A i \in DOMAIN jwtAuthorities[u] : jwtAuthorities[u][i].keyID \in Nat
    <3>1. \A u \in TDs : \A i \in DOMAIN jwtAuthorities[u] : jwtAuthorities[u][i] \in JWTAuthority
      BY DEF TypeOK
    <3> QED
      BY <3>1 DEF JWTAuthority
  <2>3. KeysCounted'
    BY <2>1, <2>2
  <2>4. PendingKeyNew'
    BY <2>1, <2>2
  <2> QED
    BY <2>1, <2>3, <2>4
<1>7. ASSUME NEW td \in TDs, AppendJWT(td) PROVE KeyInv'
  <2> DEFINE a == [keyID |-> newKeyID[td], expiresAt |-> now + JWTAuthorityTTL[td]]
             s == jwtAuthorities[td]
  <2>1. /\ run[td] = "appendJWT" /\ run' = [run EXCEPT ![td] = "newWorkloads"]
        /\ run \in [TDs -> RunStates]
        /\ newKeyID' = newKeyID /\ jwtKeyCounter' = jwtKeyCounter
    BY <1>7 DEF AppendJWT, RunStep, TypeOK
  <2>2. a \in JWTAuthority /\ s \in Seq(JWTAuthority) /\ a.keyID = newKeyID[td]
    BY <2>1, NewJWTAuthority DEF TypeOK
  <2>3. /\ DOMAIN jwtAuthorities'[td] = DOMAIN s \cup {Len(s) + 1}
        /\ \A i \in DOMAIN s : jwtAuthorities'[td][i] = s[i]
        /\ jwtAuthorities'[td][Len(s) + 1].keyID = newKeyID[td]
        /\ Len(s) + 1 \notin DOMAIN s
    BY <1>7, <2>2, AppendElements DEF AppendJWT, TypeOK
  <2>4. \A u \in TDs \ {td} : jwtAuthorities'[u] = jwtAuthorities[u] /\ run'[u] = run[u]
    BY <1>7, <2>1 DEF AppendJWT, TypeOK
  <2>5. KeysCounted'
    BY <2>1, <2>3, <2>4
  <2>6. PendingKeyNew'
    BY <2>1, <2>3, <2>4
  <2>7. JWTKeyIDsDistinct'
    BY <2>1, <2>3, <2>4
  <2> QED
    BY <2>5, <2>6, <2>7
<1>8. ASSUME NEW td \in TDs, NewWorkloads(td) PROVE KeyInv'
  BY <1>8 DEF NewWorkloads, RunStep, TypeOK
<1>9. ASSUME NEW w \in Workloads, Listen(w) PROVE KeyInv'
  BY <1>9 DEF Listen
<1>10. ASSUME NEW c \in Calls, Call(c) PROVE KeyInv'
  BY <1>10 DEF Call, CallStep
<1>11. ASSUME NEW c \in Calls, CallFederation(c) PROVE KeyInv'
  BY <1>11 DEF CallFederation, CallStep
<1>12. ASSUME NEW c \in Calls, RLock(c) PROVE KeyInv'
  BY <1>12 DEF RLock, CallStep
<1>13. ASSUME NEW c \in Calls, CopyAuthorities(c) PROVE KeyInv'
  BY <1>13 DEF CopyAuthorities, CallStep
<1>14. ASSUME NEW c \in Calls, CheckAuthorities(c) PROVE KeyInv'
  <2>1. UNCHANGED <<jwtAuthorities, jwtKeyCounter, run, newKeyID>>
    BY <1>14 DEF CheckAuthorities
  <2> QED
    BY <2>1
<1>15. ASSUME NEW c \in Calls, MintX509SVID(c) PROVE KeyInv'
  <2>1. UNCHANGED <<jwtAuthorities, jwtKeyCounter, run, newKeyID>>
    BY <1>15 DEF MintX509SVID, Finish
  <2> QED
    BY <2>1
<1>16. ASSUME NEW c \in Calls, MintJWTSVID(c) PROVE KeyInv'
  <2>1. UNCHANGED <<jwtAuthorities, jwtKeyCounter, run, newKeyID>>
    BY <1>16 DEF MintJWTSVID, Finish
  <2> QED
    BY <2>1
<1>17. ASSUME NEW c \in Calls, X509Bundles(c) PROVE KeyInv'
  BY <1>17 DEF X509Bundles, ReturnBundle, CallStep
<1>18. ASSUME NEW c \in Calls, JWTBundles(c) PROVE KeyInv'
  BY <1>18 DEF JWTBundles, ReturnBundle, CallStep
<1>19. ASSUME NEW c \in Calls, Bundle(c) PROVE KeyInv'
  BY <1>19 DEF Bundle, ReturnBundle, CallStep
<1>20. CASE Tick
  BY <1>20 DEF Tick
<1>21. CASE UNCHANGED vars
  BY <1>21 DEF vars
<1>22. QED
  BY <1>1, <1>2, <1>3, <1>4, <1>5, <1>6, <1>7, <1>8, <1>9, <1>10, <1>11, <1>12, <1>13, <1>14, <1>15, <1>16, <1>17, <1>18, <1>19, <1>20, <1>21 DEF Next, RunNext, CallNext, Quiescent

-----------------------------------------------------------------------------
\* The inductive invariant holds in every reachable state.
THEOREM InvHolds == Spec => []Inv
<1>1. Init => Inv
  <2> SUFFICES ASSUME Init PROVE Inv
    OBVIOUS
  <2> USE DEF Init
  <2>1. TypeOK
    BY ConfigAssumption DEF TypeOK, RunStates, CallStates, Outcomes
  <2>2. WriterInv /\ ReaderInv /\ PhaseInv /\ ListenInv
    BY DEF WriterInv, ReaderInv, PhaseInv, ListenInv
  <2>3. CallInv /\ MintInv
    BY DEF CallInv, MintInv, NoCall, WorkloadMethods
  <2>4. X509WithinAuthority /\ KeyInv
    BY DEF X509WithinAuthority, KeyInv, KeysCounted, PendingKeyNew, JWTKeyIDsDistinct, NoSVID
  <2> QED
    BY <2>1, <2>2, <2>3, <2>4 DEF Inv
<1>2. Inv /\ [Next]_vars => Inv'
  BY TypeStep, WriterStep, ReaderStep, PhaseStep, ListenStep, CallsStep, MintStep, X509Step, KeyStep
  DEF Inv
<1> QED
  BY <1>1, <1>2, PTL DEF Spec

\* Every variable keeps its type; TypeOK is not inductive alone: that what
\* Run appends is a proper authority is PhaseInv's.
THEOREM TypeCorrect == Spec => []TypeOK
<1>1. Inv => TypeOK
  BY DEF Inv
<1> QED
  BY <1>1, InvHolds, PTL

\* The unlocked reads never race with the appends of Run, for any number of
\* trust domains, workloads and calls.
THEOREM RaceFreedom == Spec => []NoDataRace
<1>1. Inv => NoDataRace
  <2> SUFFICES ASSUME Inv, NEW td \in TDs, NEW c \in Calls, NEW slice \in {"x509", "jwt"},
                      Writing(td, slice), Reading(c, td, slice)
               PROVE  FALSE
    BY DEF NoDataRace
  <2>1. run[td] \in {"appendX509", "appendJWT"}
    BY DEF Writing
  <2>2. muWriter[td] = "held" /\ muReaders[td] = {}
    BY <2>1 DEF Inv, WriterInv, ReaderInv
  <2>3. CASE pc[c] \in {"copy", "readLocked"}
    BY <2>2, <2>3 DEF Reading, Inv, ReaderInv
  <2>4. CASE pc[c] \in {"check", "readUnlocked"}
    <3>1. call[c].method \in WorkloadMethods
      BY <2>4 DEF Inv, CallInv, WorkloadMethods
    <3>2. run[td] = "serving"
      BY <3>1 DEF Reading, Inv, CallInv, ListenInv
    <3> QED
      BY <3>2, <2>1
  <2> QED
    BY <2>3, <2>4 DEF Reading
<1> QED
  BY <1>1, InvHolds, PTL

\* No mint ever fails for want of an authority, nor indexes an empty copy.
THEOREM MintsSucceed == Spec => []MintFindsAuthority
<1>1. Inv => MintFindsAuthority
  BY DEF Inv, MintInv, MintFindsAuthority
<1> QED
  BY <1>1, InvHolds, PTL

\* X509-SVIDs expire with their authority at the latest, whatever the TTLs of
\* the configuration, negative ones included.
THEOREM X509Contained == Spec => []X509WithinAuthority
<1>1. Inv => X509WithinAuthority
  BY DEF Inv
<1> QED
  BY <1>1, InvHolds, PTL

\* No two JWT authorities share a key ID, however the rotations of the trust
\* domains interleave on the shared counter.
THEOREM KeyIDsDistinct == Spec => []JWTKeyIDsDistinct
<1>1. Inv => JWTKeyIDsDistinct
  BY DEF Inv, KeyInv
<1> QED
  BY <1>1, InvHolds, PTL


=============================================================================
