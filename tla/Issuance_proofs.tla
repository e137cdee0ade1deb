--------------------------- MODULE Issuance_proofs --------------------------
(***************************************************************************)
(* That TrustDomain implements Issuance, for any number of trust domains,  *)
(* workloads and calls: each step is a step of Issuance under the mapping  *)
(* Abstract, or changes nothing a caller sees.  And that a bundle which a  *)
(* workload was given stays current.                                       *)
(***************************************************************************)
EXTENDS TrustDomain_proofs

\* An answer is the last thing that happens to a call.
AnsweredInv == \A c \in Calls : status[c] = "ok" => pc[c] = "done"

\* What the callers see of a trust domain and of a call, before the mapping.
SameAuthorities == UNCHANGED <<now, x509Authorities, jwtAuthorities>>
SameReplies == \A c \in Calls : ReplyOf(c)' = ReplyOf(c)
OthersSame(c) == \A d \in Calls \ {c} : ReplyOf(d)' = ReplyOf(d)

-----------------------------------------------------------------------------
(* The steps of Issuance, in terms of the mapping.                         *)

\* A step no caller sees is a stutter of Issuance.
LEMMA Stutter ==
  ASSUME SameAuthorities, SameReplies
  PROVE  UNCHANGED Abstract!vars
BY DEF SameAuthorities, SameReplies, Abstract!vars

\* A step that gives one call its reply, and changes nothing else a caller sees,
\* is the answer of Issuance.
LEMMA Answers ==
  ASSUME NEW c \in Calls, NEW r, SameAuthorities, OthersSame(c),
         ReplyOf(c) = NoReply, ReplyOf(c)' = r
  PROVE  Abstract!Answer(c, r)
<1>1. [d \in Calls |-> ReplyOf(d)]' = [[d \in Calls |-> ReplyOf(d)] EXCEPT ![c] = r]
  BY DEF OthersSame
<1> QED
  BY <1>1 DEF SameAuthorities, Abstract!Answer

\* A call that is not over has no reply.
LEMMA NoReplyYet ==
  ASSUME NEW c \in Calls, status[c] # "ok"
  PROVE  ReplyOf(c) = NoReply
BY DEF ReplyOf

\* Only the call itself changes its reply.
LEMMA OthersUnchanged ==
  ASSUME NEW c \in Calls,
         \A d \in Calls \ {c} : /\ call'[d] = call[d] /\ status'[d] = status[d]
                                /\ svid'[d] = svid[d] /\ bundle'[d] = bundle[d]
  PROVE  OthersSame(c)
BY DEF OthersSame, ReplyOf

-----------------------------------------------------------------------------
(* Steps no caller sees.                                                   *)

\* A step that changes no authority, and no call that has been answered.
LEMMA HiddenStep ==
  ASSUME SameAuthorities,
         \A c \in Calls :
           \/ call'[c] = call[c] /\ status'[c] = status[c] /\ svid'[c] = svid[c]
                /\ bundle'[c] = bundle[c]
           \/ status[c] # "ok" /\ status'[c] # "ok"
  PROVE  UNCHANGED Abstract!vars
<1>1. SameReplies
  BY DEF SameReplies, ReplyOf
<1> QED
  BY <1>1, Stutter

\* Of td.Run, callers see the two appends only.
LEMMA RunHidden ==
  ASSUME NEW td \in TDs,
         RotateX509Authority(td) \/ RotateJWTAuthority(td) \/ LockAnnounce(td)
           \/ LockAcquire(td) \/ NewJWTKeyID(td) \/ NewWorkloads(td)
  PROVE  UNCHANGED Abstract!vars
<1>1. SameAuthorities /\ UNCHANGED callVars
  BY DEF RotateX509Authority, RotateJWTAuthority, LockAnnounce, LockAcquire,
     NewJWTKeyID, NewWorkloads, authorityVars, muVars, SameAuthorities
<1> QED
  BY <1>1, HiddenStep DEF callVars

\* Nor do they see a workload listen.
LEMMA ListenHidden ==
  ASSUME NEW w \in Workloads, Listen(w)
  PROVE  UNCHANGED Abstract!vars
BY HiddenStep DEF Listen, authorityVars, callVars, SameAuthorities

\* A call is made, takes the lock, or copies the slice.
LEMMA CallHidden ==
  ASSUME TypeOK, AnsweredInv, NEW c \in Calls,
         Call(c) \/ CallFederation(c) \/ RLock(c) \/ CopyAuthorities(c)
  PROVE  UNCHANGED Abstract!vars
<1>1. SameAuthorities /\ UNCHANGED <<svid, bundle, status>>
  BY DEF Call, CallFederation, RLock, CopyAuthorities, authorityVars, SameAuthorities
<1>2. status[c] # "ok"
  BY DEF AnsweredInv, Call, CallFederation, RLock, CopyAuthorities, CallStep
<1>3. \A d \in Calls \ {c} : call'[d] = call[d]
  <2>1. call \in [Calls -> CallRecord \cup {NoCall}]
    BY DEF TypeOK
  <2>2. CASE Call(c)
    BY <2>1, <2>2 DEF Call
  <2>3. CASE CallFederation(c)
    BY <2>1, <2>3 DEF CallFederation
  <2>4. CASE RLock(c) \/ CopyAuthorities(c)
    BY <2>4 DEF RLock, CopyAuthorities
  <2> QED
    BY <2>2, <2>3, <2>4
<1> QED
  BY <1>1, <1>2, <1>3, HiddenStep

\* The emptiness check always finds an authority.
LEMMA CheckHidden ==
  ASSUME Inv, AnsweredInv, NEW c \in Calls, CheckAuthorities(c)
  PROVE  UNCHANGED Abstract!vars
<1>1. SameAuthorities /\ UNCHANGED <<call, svid, bundle>>
  BY DEF CheckAuthorities, authorityVars, SameAuthorities
<1>2. status[c] # "ok"
  BY DEF AnsweredInv, CheckAuthorities, CallStep
<1>3. /\ status'[c] = "no authority" \/ status'[c] = status[c]
      /\ \A d \in Calls \ {c} : status'[d] = status[d]
  BY DEF CheckAuthorities, Inv, TypeOK
<1> QED
  BY <1>1, <1>2, <1>3, HiddenStep

-----------------------------------------------------------------------------
(* Authorities are published.                                              *)

\* Whoever has been answered by a workload of td was called through a
\* listener, and Run of td is past its appends.
LEMMA AnsweredServes ==
  ASSUME Inv, AnsweredInv, NEW td \in TDs, Abstract!Answered(td)
  PROVE  run[td] = "serving"
<1>1. PICK c \in Calls : /\ ReplyOf(c) # NoReply /\ ReplyOf(c).td = td
                         /\ ReplyOf(c).to = "workload"
  BY DEF Abstract!Answered
<1>2. /\ status[c] = "ok" /\ call[c].td = td /\ call[c].method # "ServeHTTP"
  BY <1>1 DEF ReplyOf
<1>3. pc[c] = "done" /\ call[c] # NoCall
  BY <1>2 DEF AnsweredInv, Inv, CallInv
<1>4. call[c].method \in WorkloadMethods
  BY <1>2, <1>3 DEF Inv, TypeOK, CallRecord
<1>5. call[c].wl \in listening /\ td = TrustDomainOf[call[c].wl]
  BY <1>2, <1>4 DEF Inv, CallInv
<1> QED
  BY <1>5 DEF Inv, ListenInv

\* A set of authorities grows by what is appended to the slice.
LEMMA ToSetAppend ==
  ASSUME NEW S, NEW s \in Seq(S), NEW e \in S
  PROVE  ToSet(Append(s, e)) = ToSet(s) \cup {e}
<1>1. /\ DOMAIN Append(s, e) = DOMAIN s \cup {Len(s) + 1}
      /\ \A i \in DOMAIN s : Append(s, e)[i] = s[i]
      /\ Append(s, e)[Len(s) + 1] = e
  BY AppendElements
<1> QED
  BY <1>1 DEF ToSet

\* The newest authority is one of them.
LEMMA LastIsElement ==
  ASSUME NEW S, NEW s \in Seq(S), s # <<>>
  PROVE  Last(s) \in ToSet(s)
<1>1. Len(s) \in DOMAIN s
  OBVIOUS
<1> QED
  BY <1>1 DEF Last, ToSet

\* The append of an authority is its publication.
LEMMA AppendX509Publishes ==
  ASSUME Inv, AnsweredInv, NEW td \in TDs, AppendX509(td)
  PROVE  Abstract!PublishX509(td)
<1> DEFINE x509 == [u \in TDs |-> ToSet(x509Authorities[u])]
           a == newCert[td]
<1>1. /\ run[td] = "appendX509"
      /\ x509Authorities' = [x509Authorities EXCEPT ![td] = Append(x509Authorities[td], a)]
      /\ UNCHANGED <<now, jwtAuthorities, call, status, svid, bundle>>
  BY DEF AppendX509, RunStep, callVars
<1>2. /\ a \in X509Authority /\ x509Authorities \in [TDs -> Seq(X509Authority)]
  BY <1>1 DEF Inv, PhaseInv, TypeOK
<1>3. ToSet(x509Authorities'[td]) = ToSet(x509Authorities[td]) \cup {a}
  BY <1>1, <1>2, ToSetAppend
<1>4. \A u \in TDs \ {td} : x509Authorities'[u] = x509Authorities[u]
  BY <1>1, <1>2
<1>5. x509' = [x509 EXCEPT ![td] = x509[td] \cup {a}] /\ a \in x509'[td]
  BY <1>3, <1>4
<1>6. ~Abstract!Answered(td)
  BY <1>1, AnsweredServes
<1>7. \A c \in Calls : ReplyOf(c)' = ReplyOf(c)
  BY <1>1 DEF ReplyOf
<1> QED
  BY <1>1, <1>2, <1>5, <1>6, <1>7 DEF Abstract!PublishX509

\* The same for the JWT authority.
LEMMA AppendJWTPublishes ==
  ASSUME Inv, AnsweredInv, NEW td \in TDs, AppendJWT(td)
  PROVE  Abstract!PublishJWT(td)
<1> DEFINE jwt == [u \in TDs |-> ToSet(jwtAuthorities[u])]
           a == [keyID |-> newKeyID[td], expiresAt |-> now + JWTAuthorityTTL[td]]
<1>1. /\ run[td] = "appendJWT"
      /\ jwtAuthorities' = [jwtAuthorities EXCEPT ![td] = Append(jwtAuthorities[td], a)]
      /\ UNCHANGED <<now, x509Authorities, call, status, svid, bundle>>
  BY DEF AppendJWT, RunStep, callVars
<1>2. a \in JWTAuthority /\ jwtAuthorities \in [TDs -> Seq(JWTAuthority)]
  BY <1>1, NewJWTAuthority DEF Inv, TypeOK
<1>3. \A u \in TDs : \A b \in jwt[u] : b.keyID # a.keyID
  BY <1>1 DEF Inv, KeyInv, PendingKeyNew, ToSet
<1> HIDE DEF a
<1>4. ToSet(jwtAuthorities'[td]) = ToSet(jwtAuthorities[td]) \cup {a}
  BY <1>1, <1>2, ToSetAppend
<1>5. \A u \in TDs \ {td} : jwtAuthorities'[u] = jwtAuthorities[u]
  BY <1>1, <1>2
<1>6. jwt' = [jwt EXCEPT ![td] = jwt[td] \cup {a}] /\ a \in jwt'[td]
  BY <1>4, <1>5
<1>7. ~Abstract!Answered(td)
  BY <1>1, AnsweredServes
<1>8. \A c \in Calls : ReplyOf(c)' = ReplyOf(c)
  BY <1>1 DEF ReplyOf
<1> QED
  BY <1>1, <1>2, <1>3, <1>6, <1>7, <1>8 DEF Abstract!PublishJWT

-----------------------------------------------------------------------------
(* Calls are answered.                                                     *)

\* The call of a workload, seen from Issuance.
LEMMA WorkloadCall ==
  ASSUME Inv, NEW c \in Calls, pc[c] # "idle", call[c].method \in WorkloadMethods
  PROVE  /\ call[c].wl \in Workloads /\ call[c].td = TrustDomainOf[call[c].wl]
         /\ call[c].td \in TDs
BY CalledTD DEF Inv, CallInv, TypeOK

\* A mint that succeeds is an answer computed from the newest authority of now,
\* although it used the slice as it was when it was copied.
LEMMA MintX509Issues ==
  ASSUME Inv, AnsweredInv, NEW c \in Calls, MintX509SVID(c)
  PROVE  Abstract!IssueX509(c) \/ UNCHANGED Abstract!vars
<1> DEFINE td == call[c].td
           a == Last(snapshot[c])
<1>1. /\ pc[c] = "mint" /\ call[c].method = "FetchX509SVID" /\ status[c] # "ok"
      /\ UNCHANGED <<call, bundle>> /\ SameAuthorities
  BY DEF MintX509SVID, Finish, CallStep, AnsweredInv, authorityVars, SameAuthorities
<1>2. /\ snapshot[c] = x509Authorities[td] /\ snapshot[c] # <<>>
      /\ td \in TDs /\ call[c].wl \in Workloads /\ td = TrustDomainOf[call[c].wl]
  BY <1>1, MintsFindAuthority, WorkloadCall DEF Inv, AuthoritiesFor, WorkloadMethods
<1>3. a \in ToSet(x509Authorities[td])
  BY <1>2, LastIsElement DEF Inv, TypeOK
<1>4. \A d \in Calls \ {c} : status'[d] = status[d] /\ svid'[d] = svid[d]
  BY DEF MintX509SVID, Finish, Inv, TypeOK
<1>5. CASE status'[c] = "ok"
  <2>6. PICK err \in MintErrors \cup {"ok"} :
          /\ Finish(c, err, X509SVIDOf(c))
          /\ err = "ok" => /\ ~(X509SVIDTTL[call[c].wl] <= 0)
                           /\ ~CapPassed(now, Last(snapshot[c]).notAfter)
    BY MintsX509
  <2>1. ~CapPassed(now, a.notAfter) /\ svid'[c].issuer = a
    BY <1>2, <1>5, <2>6 DEF Finish, X509SVIDOf, Inv, TypeOK
  <2>2. ReplyOf(c)' = [td |-> td, to |-> "workload", what |-> "x509-svid", from |-> {a}]
    <3>1. What["FetchX509SVID"] = "x509-svid" /\ "FetchX509SVID" \in Mints /\ "FetchX509SVID" # "ServeHTTP"
      BY DEF What, Mints
    <3>2. call'[c] = call[c] /\ call[c].method = "FetchX509SVID"
      BY <1>1
    <3> QED
      BY <1>5, <2>1, <3>1, <3>2 DEF ReplyOf
  <2>3. ReplyOf(c) = NoReply /\ OthersSame(c)
    BY <1>1, <1>4, NoReplyYet, OthersUnchanged
  <2>4. Abstract!Answer(c, [td |-> td, to |-> "workload", what |-> "x509-svid", from |-> {a}])
    BY <1>1, <2>2, <2>3, Answers
  <2>5. now < a.notAfter
    BY <2>1 DEF CapPassed
  <2> QED
    BY <1>2, <1>3, <2>4, <2>5 DEF Abstract!IssueX509
<1>6. CASE status'[c] # "ok"
  BY <1>1, <1>4, <1>6, HiddenStep
<1> QED
  BY <1>5, <1>6

\* The same for a token.
LEMMA MintJWTIssues ==
  ASSUME Inv, AnsweredInv, NEW c \in Calls, MintJWTSVID(c)
  PROVE  Abstract!IssueJWT(c) \/ UNCHANGED Abstract!vars
<1> DEFINE td == call[c].td
           a == Last(snapshot[c])
<1>1. /\ pc[c] = "mint" /\ call[c].method = "FetchJWTSVID" /\ status[c] # "ok"
      /\ UNCHANGED <<call, bundle>> /\ SameAuthorities
  BY DEF MintJWTSVID, Finish, CallStep, AnsweredInv, authorityVars, SameAuthorities
<1>2. /\ snapshot[c] = jwtAuthorities[td] /\ snapshot[c] # <<>>
      /\ td \in TDs /\ call[c].wl \in Workloads /\ td = TrustDomainOf[call[c].wl]
  BY <1>1, MintsFindAuthority, WorkloadCall DEF Inv, AuthoritiesFor, WorkloadMethods
<1>3. a \in ToSet(jwtAuthorities[td])
  BY <1>2, LastIsElement DEF Inv, TypeOK
<1>4. \A d \in Calls \ {c} : status'[d] = status[d] /\ svid'[d] = svid[d]
  BY DEF MintJWTSVID, Finish, Inv, TypeOK
<1>5. CASE status'[c] = "ok"
  <2>5. PICK err \in MintErrors \cup {"ok"} : Finish(c, err, JWTSVIDOf(c))
    BY MintsJWT
  <2>1. svid'[c].issuer = a
    BY <1>2, <1>5, <2>5 DEF Finish, JWTSVIDOf, Inv, TypeOK
  <2>2. ReplyOf(c)' = [td |-> td, to |-> "workload", what |-> "jwt-svid", from |-> {a}]
    <3>1. What["FetchJWTSVID"] = "jwt-svid" /\ "FetchJWTSVID" \in Mints /\ "FetchJWTSVID" # "ServeHTTP"
      BY DEF What, Mints
    <3>2. call'[c] = call[c] /\ call[c].method = "FetchJWTSVID"
      BY <1>1
    <3> QED
      BY <1>5, <2>1, <3>1, <3>2 DEF ReplyOf
  <2>3. ReplyOf(c) = NoReply /\ OthersSame(c)
    BY <1>1, <1>4, NoReplyYet, OthersUnchanged
  <2>4. Abstract!Answer(c, [td |-> td, to |-> "workload", what |-> "jwt-svid", from |-> {a}])
    BY <1>1, <2>2, <2>3, Answers
  <2> QED
    BY <1>2, <1>3, <2>4 DEF Abstract!IssueJWT
<1>6. CASE status'[c] # "ok"
  BY <1>1, <1>4, <1>6, HiddenStep
<1> QED
  BY <1>5, <1>6

\* What a bundle method does, whichever it is.
LEMMA ReturnBundleEffect ==
  ASSUME Inv, AnsweredInv, NEW c \in Calls, NEW from \in {"readUnlocked", "readLocked"}, NEW b,
         ReturnBundle(c, from, b), UNCHANGED <<call, svid>>
  PROVE  /\ pc[c] = from /\ status[c] # "ok" /\ status'[c] = "ok" /\ bundle'[c] = b
         /\ ReplyOf(c) = NoReply /\ OthersSame(c)
<1>1. pc[c] = from /\ status[c] # "ok"
  BY DEF ReturnBundle, CallStep, AnsweredInv
<1>2. /\ status'[c] = "ok" /\ bundle'[c] = b
      /\ \A d \in Calls \ {c} : status'[d] = status[d] /\ bundle'[d] = bundle[d]
  BY DEF ReturnBundle, Inv, TypeOK
<1> QED
  BY <1>1, <1>2, NoReplyYet, OthersUnchanged

\* The bundle methods answer with all the authorities there are.
LEMMA X509BundlesServes ==
  ASSUME Inv, AnsweredInv, NEW c \in Calls, X509Bundles(c)
  PROVE  Abstract!ServeX509(c)
<1> DEFINE td == call[c].td
           b == ToSet(x509Authorities[td])
           r == [td |-> td, to |-> "workload", what |-> "x509-bundle", from |-> b]
<1>1. /\ call[c].method = "FetchX509Bundles" /\ ReturnBundle(c, "readUnlocked", b)
      /\ UNCHANGED <<call, svid>> /\ SameAuthorities
  BY DEF X509Bundles, authorityVars, SameAuthorities
<1>2. /\ pc[c] = "readUnlocked" /\ status'[c] = "ok" /\ bundle'[c] = b
      /\ ReplyOf(c) = NoReply /\ OthersSame(c)
  BY <1>1, ReturnBundleEffect
<1>3. call[c].wl \in Workloads /\ td = TrustDomainOf[call[c].wl] /\ td \in TDs
  BY <1>1, <1>2, WorkloadCall DEF WorkloadMethods
<1>4. ReplyOf(c)' = r
  BY <1>1, <1>2 DEF ReplyOf, What, Mints
<1>5. Abstract!Answer(c, r)
  BY <1>1, <1>2, <1>4, Answers
<1> QED
  BY <1>3, <1>5 DEF Abstract!ServeX509

\* The same without the lock, for the other slice.
LEMMA JWTBundlesServes ==
  ASSUME Inv, AnsweredInv, NEW c \in Calls, JWTBundles(c)
  PROVE  Abstract!ServeJWT(c)
<1> DEFINE td == call[c].td
           b == ToSet(jwtAuthorities[td])
           r == [td |-> td, to |-> "workload", what |-> "jwt-bundle", from |-> b]
<1>1. /\ call[c].method = "FetchJWTBundles" /\ ReturnBundle(c, "readUnlocked", b)
      /\ UNCHANGED <<call, svid>> /\ SameAuthorities
  BY DEF JWTBundles, authorityVars, SameAuthorities
<1>2. /\ pc[c] = "readUnlocked" /\ status'[c] = "ok" /\ bundle'[c] = b
      /\ ReplyOf(c) = NoReply /\ OthersSame(c)
  BY <1>1, ReturnBundleEffect
<1>3. call[c].wl \in Workloads /\ td = TrustDomainOf[call[c].wl] /\ td \in TDs
  BY <1>1, <1>2, WorkloadCall DEF WorkloadMethods
<1>4. ReplyOf(c)' = r
  BY <1>1, <1>2 DEF ReplyOf, What, Mints
<1>5. Abstract!Answer(c, r)
  BY <1>1, <1>2, <1>4, Answers
<1> QED
  BY <1>3, <1>5 DEF Abstract!ServeJWT

\* The same for both slices, and a federation request.
LEMMA BundleFederates ==
  ASSUME Inv, AnsweredInv, NEW c \in Calls, Bundle(c)
  PROVE  Abstract!Federate(c)
<1> DEFINE td == call[c].td
           b == ToSet(x509Authorities[td]) \cup ToSet(jwtAuthorities[td])
           r == [td |-> td, to |-> "peer", what |-> "bundle", from |-> b]
<1>1. /\ ReturnBundle(c, "readLocked", b) /\ UNCHANGED <<call, svid>> /\ SameAuthorities
  BY DEF Bundle, authorityVars, SameAuthorities
<1>2. /\ pc[c] = "readLocked" /\ status'[c] = "ok" /\ bundle'[c] = b
      /\ ReplyOf(c) = NoReply /\ OthersSame(c)
  BY <1>1, ReturnBundleEffect
<1>3. call[c].method = "ServeHTTP" /\ td \in TDs
  BY <1>2, CalledTD DEF Inv, CallInv
<1>4. ReplyOf(c)' = r
  BY <1>1, <1>2, <1>3 DEF ReplyOf, What, Mints
<1>5. Abstract!Answer(c, r)
  BY <1>1, <1>2, <1>4, Answers
<1> QED
  BY <1>3, <1>5 DEF Abstract!Federate

-----------------------------------------------------------------------------
(* The invariants of this module.                                          *)

\* A call that is over does nothing more, and no other step answers it.
LEMMA AnsweredStep ==
  ASSUME TypeOK, AnsweredInv, [Next]_vars
  PROVE  AnsweredInv'
<1>1. CASE UNCHANGED <<pc, status>>
  BY <1>1 DEF AnsweredInv
<1>2. ASSUME NEW c \in Calls,
             Call(c) \/ CallFederation(c) \/ RLock(c) \/ CopyAuthorities(c)
      PROVE  AnsweredInv'
  <2>1. /\ pc[c] # "done" /\ status' = status
        /\ \A d \in Calls \ {c} : pc'[d] = pc[d]
    BY <1>2 DEF Call, CallFederation, RLock, CopyAuthorities, CallStep, TypeOK
  <2> QED
    BY <2>1 DEF AnsweredInv
<1>3. ASSUME NEW c \in Calls, CheckAuthorities(c)
      PROVE  AnsweredInv'
  <2>1. /\ pc[c] # "done" /\ (status'[c] = status[c] \/ status'[c] = "no authority")
        /\ \A d \in Calls \ {c} : pc'[d] = pc[d] /\ status'[d] = status[d]
    BY <1>3 DEF CheckAuthorities, CallStep, TypeOK
  <2> QED
    BY <2>1 DEF AnsweredInv
<1>4. ASSUME NEW c \in Calls, NEW err, NEW s, Finish(c, err, s)
      PROVE  AnsweredInv'
  <2>1. /\ pc'[c] = "done" \/ status'[c] = "panic"
        /\ \A d \in Calls \ {c} : pc'[d] = pc[d] /\ status'[d] = status[d]
    BY <1>4 DEF Finish, CallStep, TypeOK
  <2> QED
    BY <2>1 DEF AnsweredInv
<1>5. ASSUME NEW c \in Calls, NEW from, NEW b, ReturnBundle(c, from, b)
      PROVE  AnsweredInv'
  <2>1. /\ pc'[c] = "done"
        /\ \A d \in Calls \ {c} : pc'[d] = pc[d] /\ status'[d] = status[d]
    BY <1>5 DEF ReturnBundle, CallStep, TypeOK
  <2> QED
    BY <2>1 DEF AnsweredInv
<1>6. ASSUME NEW td \in TDs, RunNext(td)
      PROVE  UNCHANGED <<pc, status>>
  BY <1>6 DEF RunNext, RotateX509Authority, RotateJWTAuthority, LockAnnounce, LockAcquire,
     AppendX509, NewJWTKeyID, AppendJWT, NewWorkloads, callVars
<1>7. ASSUME NEW w \in Workloads, Listen(w)
      PROVE  UNCHANGED <<pc, status>>
  BY <1>7 DEF Listen, callVars
<1>8. ASSUME NEW c \in Calls, CallNext(c)
      PROVE  AnsweredInv'
  BY <1>2, <1>3, <1>4, <1>5, <1>8
  DEF CallNext, MintX509SVID, MintJWTSVID, X509Bundles, JWTBundles, Bundle
<1>9. ASSUME Tick \/ Quiescent \/ UNCHANGED vars
      PROVE  UNCHANGED <<pc, status>>
  BY <1>9 DEF Tick, Quiescent, vars, callVars
<1> QED
  BY <1>1, <1>2, <1>6, <1>7, <1>8, <1>9 DEF Next

\* Both invariants hold together.
LEMMA AnsweredHolds == Spec => [](Inv /\ AnsweredInv)
<1>1. Init => AnsweredInv
  BY DEF Init, AnsweredInv
<1>2. Inv /\ AnsweredInv /\ [Next]_vars => AnsweredInv'
  BY AnsweredStep DEF Inv
<1> QED
  BY <1>1, <1>2, InvHolds, PTL DEF Spec

\* What a workload was given is what there is, and who signed is published.
IssuedInv ==
  \A c \in Calls : svid[c] # NoSVID =>
    /\ pc[c] = "done"
    /\ svid[c].issuer \in ToSet(IF svid[c].kind = "x509" THEN x509Authorities[call[c].td]
                                                         ELSE jwtAuthorities[call[c].td])

\* How a step changes the authorities: not at all, or of one trust domain, which
\* has not yet answered a workload.
Publishes ==
  \/ UNCHANGED <<x509Authorities, jwtAuthorities>>
  \/ \E td \in TDs :
       /\ run[td] # "serving"
       /\ \A u \in TDs \ {td} : /\ x509Authorities'[u] = x509Authorities[u]
                                /\ jwtAuthorities'[u] = jwtAuthorities[u]
       /\ ToSet(x509Authorities[td]) \subseteq ToSet(x509Authorities'[td])
       /\ ToSet(jwtAuthorities[td]) \subseteq ToSet(jwtAuthorities'[td])

\* A slice changes only by one append, before anybody has been answered.
LEMMA StepPublishes ==
  ASSUME Inv, [Next]_vars
  PROVE  Publishes
<1>1. ASSUME NEW td \in TDs, AppendX509(td)
      PROVE  Publishes
  <2>1. /\ run[td] = "appendX509" /\ newCert[td] \in X509Authority
        /\ x509Authorities' = [x509Authorities EXCEPT ![td] = Append(x509Authorities[td], newCert[td])]
        /\ jwtAuthorities' = jwtAuthorities
    BY <1>1 DEF AppendX509, RunStep, Inv, PhaseInv
  <2>2. x509Authorities \in [TDs -> Seq(X509Authority)]
    BY DEF Inv, TypeOK
  <2>3. ToSet(x509Authorities'[td]) = ToSet(x509Authorities[td]) \cup {newCert[td]}
    BY <2>1, <2>2, ToSetAppend
  <2> QED
    BY <2>1, <2>2, <2>3 DEF Publishes
<1>2. ASSUME NEW td \in TDs, AppendJWT(td)
      PROVE  Publishes
  <2> DEFINE a == [keyID |-> newKeyID[td], expiresAt |-> now + JWTAuthorityTTL[td]]
  <2>1. /\ run[td] = "appendJWT"
        /\ jwtAuthorities' = [jwtAuthorities EXCEPT ![td] = Append(jwtAuthorities[td], a)]
        /\ x509Authorities' = x509Authorities
    BY <1>2 DEF AppendJWT, RunStep
  <2>2. jwtAuthorities \in [TDs -> Seq(JWTAuthority)] /\ a \in JWTAuthority
    BY <2>1, NewJWTAuthority DEF Inv, TypeOK
  <2> HIDE DEF a
  <2>3. ToSet(jwtAuthorities'[td]) = ToSet(jwtAuthorities[td]) \cup {a}
    BY <2>1, <2>2, ToSetAppend
  <2> QED
    BY <2>1, <2>2, <2>3 DEF Publishes
<1>3. ASSUME NEW td \in TDs, RunNext(td)
      PROVE  Publishes
  <2>1. AppendX509(td) \/ AppendJWT(td) \/ UNCHANGED <<x509Authorities, jwtAuthorities>>
    BY <1>3 DEF RunNext, RotateX509Authority, RotateJWTAuthority, LockAnnounce,
       LockAcquire, NewJWTKeyID, NewWorkloads, authorityVars
  <2> QED
    BY <1>1, <1>2, <2>1 DEF Publishes
<1>4. ASSUME NEW c \in Calls, Call(c) \/ CallFederation(c) \/ CallNext(c)
      PROVE  UNCHANGED <<x509Authorities, jwtAuthorities>>
  BY <1>4 DEF Call, CallFederation, CallNext, RLock, CopyAuthorities, CheckAuthorities,
     MintX509SVID, MintJWTSVID, Finish, X509Bundles, JWTBundles, Bundle, authorityVars
<1>5. ASSUME Tick \/ Quiescent \/ UNCHANGED vars \/ \E w \in Workloads : Listen(w)
      PROVE  UNCHANGED <<x509Authorities, jwtAuthorities>>
  BY <1>5 DEF Tick, Quiescent, vars, Listen, authorityVars
<1> QED
  BY <1>3, <1>4, <1>5 DEF Next, Publishes

\* How a step changes the calls: not at all, or one that was not over.
LEMMA StepCalls ==
  ASSUME Inv, [Next]_vars
  PROVE  \/ UNCHANGED <<pc, call, svid, bundle, status>>
         \/ \E c \in Calls :
              /\ pc[c] # "done"
              /\ \A d \in Calls \ {c} : /\ pc'[d] = pc[d] /\ call'[d] = call[d]
                                        /\ svid'[d] = svid[d] /\ bundle'[d] = bundle[d]
                                        /\ status'[d] = status[d]
<1> DEFINE One(c) ==
      /\ pc[c] # "done"
      /\ \A d \in Calls \ {c} : /\ pc'[d] = pc[d] /\ call'[d] = call[d]
                                /\ svid'[d] = svid[d] /\ bundle'[d] = bundle[d]
                                /\ status'[d] = status[d]
<1>1. ASSUME NEW c \in Calls, Call(c) PROVE One(c)
  BY <1>1 DEF Call, CallStep, Inv, TypeOK
<1>2. ASSUME NEW c \in Calls, CallFederation(c) PROVE One(c)
  BY <1>2 DEF CallFederation, CallStep, Inv, TypeOK
<1>3. ASSUME NEW c \in Calls, RLock(c) \/ CopyAuthorities(c) PROVE One(c)
  BY <1>3 DEF RLock, CopyAuthorities, CallStep, Inv, TypeOK
<1>4. ASSUME NEW c \in Calls, CheckAuthorities(c) PROVE One(c)
  BY <1>4 DEF CheckAuthorities, CallStep, Inv, TypeOK
<1>5. ASSUME NEW c \in Calls, NEW err, NEW s, Finish(c, err, s) PROVE One(c)
  BY <1>5 DEF Finish, CallStep, Inv, TypeOK
<1>6. ASSUME NEW c \in Calls, NEW from \in {"readUnlocked", "readLocked"}, NEW b,
             ReturnBundle(c, from, b), UNCHANGED <<call, svid>>
      PROVE  One(c)
  BY <1>6 DEF ReturnBundle, CallStep, Inv, TypeOK
<1> HIDE DEF One
<1>7. ASSUME NEW c \in Calls, CallNext(c) PROVE One(c)
  BY <1>3, <1>4, <1>5, <1>6, <1>7
  DEF CallNext, MintX509SVID, MintJWTSVID, X509Bundles, JWTBundles, Bundle
<1>8. ASSUME NEW td \in TDs, RunNext(td) PROVE UNCHANGED <<pc, call, svid, bundle, status>>
  BY <1>8 DEF RunNext, RotateX509Authority, RotateJWTAuthority, LockAnnounce, LockAcquire,
     AppendX509, NewJWTKeyID, AppendJWT, NewWorkloads, callVars
<1>9. ASSUME Tick \/ Quiescent \/ UNCHANGED vars \/ \E w \in Workloads : Listen(w)
      PROVE  UNCHANGED <<pc, call, svid, bundle, status>>
  BY <1>9 DEF Tick, Quiescent, vars, Listen, callVars
<1>10. (\E c \in Calls : One(c)) \/ UNCHANGED <<pc, call, svid, bundle, status>>
  BY <1>1, <1>2, <1>7, <1>8, <1>9 DEF Next
<1> QED
  BY <1>10 DEF One

\* Only the three bundle methods give out a bundle.
LEMMA NewlyServed ==
  ASSUME Inv, AnsweredInv, [Next]_vars, NEW c \in Calls, c \in Served', c \notin Served
  PROVE  X509Bundles(c) \/ JWTBundles(c) \/ Bundle(c)
<1>1. status'[c] = "ok" /\ call'[c].method \notin Mints
  BY DEF Served
<1>2. status[c] # "ok" \/ call[c].method \in Mints
  BY DEF Served
<1>3. CASE UNCHANGED <<pc, call, svid, bundle, status>>
  BY <1>1, <1>2, <1>3
<1>4. CASE ~UNCHANGED <<pc, call, svid, bundle, status>>
  <2>1. pc[c] # "done"
    BY <1>1, <1>2, <1>4, StepCalls
  <2>2. status[c] # "ok"
    BY <2>1 DEF AnsweredInv
  <2>3. PICK d \in Calls : Call(d) \/ CallFederation(d) \/ CallNext(d)
    <3>1. ~(\E td \in TDs : RunNext(td))
      BY <1>4 DEF RunNext, RotateX509Authority, RotateJWTAuthority, LockAnnounce,
         LockAcquire, AppendX509, NewJWTKeyID, AppendJWT, NewWorkloads, callVars
    <3>2. ~(Tick \/ Quiescent \/ UNCHANGED vars \/ \E w \in Workloads : Listen(w))
      BY <1>4 DEF Tick, Quiescent, vars, Listen, callVars
    <3> QED
      BY <3>1, <3>2 DEF Next
  <2>4. status' # status
    BY <1>1, <2>2
  <2>5. ~(Call(d) \/ CallFederation(d) \/ RLock(d) \/ CopyAuthorities(d))
    BY <2>4 DEF Call, CallFederation, RLock, CopyAuthorities
  <2>6. ~CheckAuthorities(d)
    BY <1>1, <2>2 DEF CheckAuthorities, Inv, TypeOK
  <2>7. CASE MintX509SVID(d) \/ MintJWTSVID(d)
    <3>1. call' = call /\ call[d].method \in Mints
      BY <2>7 DEF MintX509SVID, MintJWTSVID, Finish, Mints
    <3>2. d # c
      BY <1>1, <3>1
    <3>3. status'[c] = status[c]
      BY <2>7, <3>2 DEF MintX509SVID, MintJWTSVID, Finish, Inv, TypeOK
    <3> QED
      BY <1>1, <2>2, <3>3
  <2>8. CASE X509Bundles(d) \/ JWTBundles(d) \/ Bundle(d)
    <3>1. d # c => status'[c] = status[c]
      BY <2>8 DEF X509Bundles, JWTBundles, Bundle, ReturnBundle, Inv, TypeOK
    <3> QED
      BY <1>1, <2>2, <2>8, <3>1
  <2> QED
    BY <2>3, <2>5, <2>6, <2>7, <2>8 DEF CallNext
<1> QED
  BY <1>3, <1>4

\* Only the two mints create an SVID, from the newest authority.
LEMMA NewlyMinted ==
  ASSUME Inv, [Next]_vars, NEW c \in Calls, svid[c] = NoSVID, svid'[c] # NoSVID
  PROVE  /\ pc'[c] = "done"
         /\ svid'[c].issuer \in ToSet(IF svid'[c].kind = "x509" THEN x509Authorities'[call'[c].td]
                                                                ELSE jwtAuthorities'[call'[c].td])
<1>1. PICK d \in Calls : MintX509SVID(d) \/ MintJWTSVID(d)
  <2>1. svid' # svid
    OBVIOUS
  <2>2. ~(\E td \in TDs : RunNext(td))
    BY <2>1 DEF RunNext, RotateX509Authority, RotateJWTAuthority, LockAnnounce,
       LockAcquire, AppendX509, NewJWTKeyID, AppendJWT, NewWorkloads, callVars
  <2>3. ~(Tick \/ Quiescent \/ UNCHANGED vars \/ \E w \in Workloads : Listen(w))
    BY <2>1 DEF Tick, Quiescent, vars, Listen, callVars
  <2>4. ~(\E d \in Calls : \/ Call(d) \/ CallFederation(d) \/ RLock(d) \/ CopyAuthorities(d)
                           \/ CheckAuthorities(d) \/ X509Bundles(d) \/ JWTBundles(d) \/ Bundle(d))
    BY <2>1 DEF Call, CallFederation, RLock, CopyAuthorities, CheckAuthorities,
       X509Bundles, JWTBundles, Bundle
  <2> QED
    BY <2>2, <2>3, <2>4 DEF Next, CallNext
<1>2. d = c
  BY <1>1 DEF MintX509SVID, MintJWTSVID, Finish, Inv, TypeOK
<1>3. /\ pc[c] = "mint" /\ call' = call
      /\ UNCHANGED <<x509Authorities, jwtAuthorities>>
  BY <1>1, <1>2 DEF MintX509SVID, MintJWTSVID, Finish, CallStep, authorityVars
<1>4. /\ snapshot[c] = AuthoritiesFor(call[c].method, call[c].td) /\ snapshot[c] # <<>>
      /\ call[c].td \in TDs
  BY <1>3, MintsFindAuthority DEF Inv
<1>5. pc'[c] = "done" /\ svid'[c].issuer = Last(snapshot[c])
      /\ svid'[c].kind = IF call[c].method = "FetchX509SVID" THEN "x509" ELSE "jwt"
  <2>1. DOMAIN svid = Calls /\ DOMAIN pc = Calls
    BY DEF Inv, TypeOK
  <2>2. pc'[c] = "done"
    BY <1>1, <1>2, <1>4, <2>1 DEF MintX509SVID, MintJWTSVID, Finish, CallStep
  <2>3. ASSUME NEW err, NEW s, Finish(c, err, s)
        PROVE  svid'[c] = s
    BY <2>1, <2>3 DEF Finish
  <2>4. CASE MintX509SVID(c)
    <3>1. call[c].method = "FetchX509SVID"
      BY <2>4 DEF MintX509SVID
    <3>2. PICK err, life :
            Finish(c, err, [kind |-> "x509", wl |-> call[c].wl, issuer |-> Last(snapshot[c]),
                            at |-> now, notBefore |-> life.notBefore, notAfter |-> life.notAfter])
      BY <2>4, Zenon DEF MintX509SVID
    <3>3. svid'[c] = [kind |-> "x509", wl |-> call[c].wl, issuer |-> Last(snapshot[c]),
                      at |-> now, notBefore |-> life.notBefore, notAfter |-> life.notAfter]
      BY <2>3, <3>2
    <3> QED
      BY <2>2, <3>1, <3>3
  <2>5. CASE MintJWTSVID(c)
    <3>1. call[c].method = "FetchJWTSVID"
      BY <2>5 DEF MintJWTSVID
    <3>2. PICK err, expiry :
            Finish(c, err, [kind |-> "jwt", wl |-> call[c].wl, issuer |-> Last(snapshot[c]),
                            at |-> now, notAfter |-> expiry])
      BY <2>5, Zenon DEF MintJWTSVID
    <3>3. svid'[c] = [kind |-> "jwt", wl |-> call[c].wl, issuer |-> Last(snapshot[c]),
                      at |-> now, notAfter |-> expiry]
      BY <2>3, <3>2
    <3> QED
      BY <2>2, <3>1, <3>3
  <2> QED
    BY <1>1, <1>2, <2>4, <2>5
<1>6. Last(snapshot[c]) \in ToSet(AuthoritiesFor(call[c].method, call[c].td))
  <2>1. /\ x509Authorities[call[c].td] \in Seq(X509Authority)
        /\ jwtAuthorities[call[c].td] \in Seq(JWTAuthority)
    BY <1>4 DEF Inv, TypeOK
  <2> QED
    BY <1>4, <2>1, LastIsElement DEF AuthoritiesFor
<1> QED
  BY <1>3, <1>5, <1>6 DEF AuthoritiesFor

\* An SVID that has been issued stays with an authority that is published.
LEMMA IssuedStep ==
  ASSUME Inv, IssuedInv, [Next]_vars
  PROVE  IssuedInv'
<1>1. SUFFICES ASSUME NEW c \in Calls, svid'[c] # NoSVID
               PROVE  /\ pc'[c] = "done"
                      /\ svid'[c].issuer \in
                           ToSet(IF svid'[c].kind = "x509" THEN x509Authorities'[call'[c].td]
                                                           ELSE jwtAuthorities'[call'[c].td])
  BY DEF IssuedInv
<1>2. CASE svid[c] = NoSVID
  BY <1>1, <1>2, NewlyMinted
<1>3. CASE svid[c] # NoSVID
  <2>1. /\ pc[c] = "done"
        /\ svid[c].issuer \in ToSet(IF svid[c].kind = "x509" THEN x509Authorities[call[c].td]
                                                             ELSE jwtAuthorities[call[c].td])
    BY <1>3 DEF IssuedInv
  <2>2. pc'[c] = "done" /\ call'[c] = call[c] /\ svid'[c] = svid[c]
    BY <2>1, StepCalls
  <2>3. call[c].td \in TDs
    BY <2>1, CalledTD DEF Inv
  <2>4. /\ ToSet(x509Authorities[call[c].td]) \subseteq ToSet(x509Authorities'[call[c].td])
        /\ ToSet(jwtAuthorities[call[c].td]) \subseteq ToSet(jwtAuthorities'[call[c].td])
    BY <2>3, StepPublishes DEF Publishes
  <2> QED
    BY <2>1, <2>2, <2>4
<1> QED
  BY <1>2, <1>3

\* The bundle of a workload stays current: its trust domain publishes no more.
LEMMA CurrentStep ==
  ASSUME Inv, AnsweredInv, WorkloadBundleCurrent, [Next]_vars
  PROVE  WorkloadBundleCurrent'
<1> DEFINE Current(c) ==
      /\ call[c].method = "FetchX509Bundles" => bundle[c] = ToSet(x509Authorities[call[c].td])
      /\ call[c].method = "FetchJWTBundles" => bundle[c] = ToSet(jwtAuthorities[call[c].td])
<1>1. SUFFICES ASSUME NEW c \in Calls, c \in Served'
               PROVE  Current(c)'
  BY DEF WorkloadBundleCurrent, Served
<1>2. CASE c \notin Served
  <2>1. X509Bundles(c) \/ JWTBundles(c) \/ Bundle(c)
    BY <1>1, <1>2, NewlyServed
  <2>2. call' = call /\ UNCHANGED <<x509Authorities, jwtAuthorities>>
    BY <2>1 DEF X509Bundles, JWTBundles, Bundle, authorityVars
  <2>3. CASE X509Bundles(c)
    BY <2>2, <2>3 DEF X509Bundles, ReturnBundle, Inv, TypeOK
  <2>4. CASE JWTBundles(c)
    BY <2>2, <2>4 DEF JWTBundles, ReturnBundle, Inv, TypeOK
  <2>5. CASE Bundle(c)
    <3>1. call[c].method = "ServeHTTP"
      BY <2>5 DEF Bundle, ReturnBundle, CallStep, Inv, CallInv
    <3> QED
      BY <2>2, <3>1
  <2> QED
    BY <2>1, <2>3, <2>4, <2>5
<1>3. CASE c \in Served
  <2>1. Current(c) /\ pc[c] = "done"
    BY <1>3 DEF WorkloadBundleCurrent, Served, AnsweredInv
  <2>2. call'[c] = call[c] /\ bundle'[c] = bundle[c]
    BY <2>1, StepCalls
  <2>3. CASE call[c].method \in WorkloadMethods
    <3>1. call[c].td \in TDs /\ run[call[c].td] = "serving"
      BY <2>1, <2>3, CalledTD DEF Inv, CallInv, ListenInv
    <3>2. /\ x509Authorities'[call[c].td] = x509Authorities[call[c].td]
          /\ jwtAuthorities'[call[c].td] = jwtAuthorities[call[c].td]
      BY <3>1, StepPublishes DEF Publishes
    <3> QED
      BY <2>1, <2>2, <3>2
  <2>4. CASE call[c].method \notin WorkloadMethods
    BY <2>2, <2>4 DEF WorkloadMethods
  <2> QED
    BY <2>3, <2>4
<1> QED
  BY <1>2, <1>3

-----------------------------------------------------------------------------
(* The theorems.                                                           *)

\* The trust domains with their locks, copies and unlocked reads implement
\* Issuance: to its callers a trust domain answers in one instant, from what is
\* published in that instant, and publishes nothing once a workload is answered.
THEOREM Implements == Spec => ImplementsIssuance
<1>1. Init => Abstract!Init
  BY DEF Init, Abstract!Init, ToSet, ReplyOf
<1>2. Inv /\ AnsweredInv /\ [Next]_vars => [Abstract!Next]_Abstract!vars
  <2>1. SUFFICES ASSUME Inv, AnsweredInv, [Next]_vars
                 PROVE  Abstract!Next \/ UNCHANGED Abstract!vars
    OBVIOUS
  <2>2. ASSUME NEW td \in TDs, RunNext(td)
        PROVE  Abstract!Next \/ UNCHANGED Abstract!vars
    BY <2>1, <2>2, RunHidden, AppendX509Publishes, AppendJWTPublishes
    DEF RunNext, Abstract!Next
  <2>3. ASSUME NEW c \in Calls, Call(c) \/ CallFederation(c) \/ CallNext(c)
        PROVE  Abstract!Next \/ UNCHANGED Abstract!vars
    <3>1. CASE Call(c) \/ CallFederation(c) \/ RLock(c) \/ CopyAuthorities(c)
                 \/ CheckAuthorities(c)
      BY <2>1, <3>1, CallHidden, CheckHidden DEF Inv
    <3>2. CASE MintX509SVID(c) \/ MintJWTSVID(c) \/ X509Bundles(c) \/ JWTBundles(c) \/ Bundle(c)
      BY <2>1, <3>2, MintX509Issues, MintJWTIssues, X509BundlesServes, JWTBundlesServes,
         BundleFederates DEF Abstract!Next
    <3> QED
      BY <2>3, <3>1, <3>2 DEF CallNext
  <2>4. CASE Tick
    <3>1. Abstract!Tick
      BY <2>4 DEF Tick, Abstract!Tick, authorityVars, callVars, ReplyOf
    <3> QED
      BY <3>1 DEF Abstract!Next
  <2>5. CASE Quiescent \/ UNCHANGED vars
    BY <2>5, HiddenStep DEF Quiescent, vars, authorityVars, callVars, SameAuthorities
  <2> QED
    BY <2>1, <2>2, <2>3, <2>4, <2>5, ListenHidden DEF Next
<1> QED
  BY <1>1, <1>2, AnsweredHolds, PTL DEF Spec, ImplementsIssuance

\* The bundle streams send once and never again; what they sent is current all
\* the same, for any number of trust domains, workloads and calls.
THEOREM BundlesStayCurrent == Spec => []WorkloadBundleCurrent
<1>1. Init => WorkloadBundleCurrent
  BY DEF Init, WorkloadBundleCurrent, Served
<1>2. Inv /\ AnsweredInv /\ WorkloadBundleCurrent /\ [Next]_vars => WorkloadBundleCurrent'
  BY CurrentStep
<1> QED
  BY <1>1, <1>2, AnsweredHolds, PTL DEF Spec

\* A bundle verifies every SVID that was issued before it was handed out,
\* whichever method, locked or not, produced the one and the other.
THEOREM BundlesVerify == Spec => BundleVerifiesIssued
<1>1. Init => IssuedInv
  BY DEF Init, IssuedInv
<1>2. Inv /\ IssuedInv /\ [Next]_vars => IssuedInv'
  BY IssuedStep
<1> DEFINE Verifies ==
      \A c \in Calls : c \in Served' \ Served =>
        \A d \in Minted : call[d].td = call[c].td =>
          svid[d].issuer \in bundle'[c]
            \/ (svid[d].kind = "x509" /\ call[c].method = "FetchJWTBundles")
            \/ (svid[d].kind = "jwt" /\ call[c].method = "FetchX509Bundles")
<1>3. Inv /\ AnsweredInv /\ IssuedInv /\ [Next]_vars => [Verifies]_vars
  <2>1. SUFFICES ASSUME Inv, AnsweredInv, IssuedInv, [Next]_vars,
                        NEW c \in Calls, c \in Served', c \notin Served,
                        NEW d \in Calls, svid[d] # NoSVID, call[d].td = call[c].td
                 PROVE  \/ svid[d].issuer \in bundle'[c]
                        \/ (svid[d].kind = "x509" /\ call[c].method = "FetchJWTBundles")
                        \/ (svid[d].kind = "jwt" /\ call[c].method = "FetchX509Bundles")
    BY DEF Minted
  <2>2. X509Bundles(c) \/ JWTBundles(c) \/ Bundle(c)
    BY <2>1, NewlyServed
  <2>3. svid[d].kind \in {"x509", "jwt"}
    BY <2>1 DEF Inv, TypeOK, SVID
  <2>4. svid[d].issuer \in ToSet(IF svid[d].kind = "x509" THEN x509Authorities[call[c].td]
                                                          ELSE jwtAuthorities[call[c].td])
    BY <2>1 DEF IssuedInv
  <2>5. DOMAIN bundle = Calls
    <3>1. bundle \in [Calls -> SUBSET (X509Authority \cup JWTAuthority)]
      BY <2>1 DEF Inv, TypeOK
    <3> QED
      BY <3>1
  <2>6. CASE X509Bundles(c)
    <3>1. /\ call[c].method = "FetchX509Bundles"
          /\ bundle' = [bundle EXCEPT ![c] = ToSet(x509Authorities[call[c].td])]
      BY <2>6 DEF X509Bundles, ReturnBundle
    <3>2. bundle'[c] = ToSet(x509Authorities[call[c].td])
      BY <2>5, <3>1
    <3> QED
      BY <2>3, <2>4, <3>1, <3>2
  <2>7. CASE JWTBundles(c)
    <3>1. /\ call[c].method = "FetchJWTBundles"
          /\ bundle' = [bundle EXCEPT ![c] = ToSet(jwtAuthorities[call[c].td])]
      BY <2>7 DEF JWTBundles, ReturnBundle
    <3>2. bundle'[c] = ToSet(jwtAuthorities[call[c].td])
      BY <2>5, <3>1
    <3> QED
      BY <2>3, <2>4, <3>1, <3>2
  <2>8. CASE Bundle(c)
    <3>1. /\ bundle' = [bundle EXCEPT ![c] = ToSet(x509Authorities[call[c].td]) \cup ToSet(jwtAuthorities[call[c].td])]
      BY <2>8 DEF Bundle, ReturnBundle
    <3>2. bundle'[c] = ToSet(x509Authorities[call[c].td]) \cup ToSet(jwtAuthorities[call[c].td])
      BY <2>5, <3>1
    <3> QED
      BY <2>3, <2>4, <3>1, <3>2
  <2> QED
    BY <2>2, <2>6, <2>7, <2>8
<1> QED
  BY <1>1, <1>2, <1>3, AnsweredHolds, PTL DEF Spec, BundleVerifiesIssued

=============================================================================
