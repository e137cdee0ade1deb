---------------------------- MODULE TrustDomain ----------------------------
(***************************************************************************)
(* The trust domains of the development Workload API server                *)
(* (internal/wlapi/trustdomain.go) and the calls that use them             *)
(* concurrently: TrustDomain.Run creates the X.509 and the JWT authority,  *)
(* then the workloads, then serves; a call to a workload socket or to the  *)
(* federation endpoint runs in a goroutine of its own and reads the        *)
(* authorities, under td.mu or without it, as the code does.               *)
(*                                                                         *)
(* A step is what happens between two points where another goroutine can   *)
(* be observed: a lock operation, an access to a slice of authorities, the *)
(* atomic counter.  Each call of Calls is made at most once, which bounds  *)
(* the number of calls; MaxTime bounds the clock.  Workload shutdown is    *)
(* the subject of module Server: it only removes behaviours of this one.   *)
(***************************************************************************)
EXTENDS Integers, SequencesExt, Lifetime

CONSTANTS
  TDs,                \* the trust domains of the configuration
  Workloads,          \* the workloads of all trust domains
  Calls,              \* the calls that may be made, each at most once
  TrustDomainOf,      \* [Workloads -> TDs]
  X509AuthorityTTL,   \* [TDs -> Int]
  JWTAuthorityTTL,    \* [TDs -> Int]
  X509SVIDTTL,        \* [Workloads -> Int]
  JWTSVIDTTL,         \* [Workloads -> Int]
  Backdate,           \* how far rotateX509Authority backdates an authority
  SVIDBackdatePeriod, \* how far MintX509SVID backdates an SVID
  Federation,         \* whether the configuration has a federation port
  MaxTime             \* bound on the clock

\* LoadConfig replaces a TTL of zero by a default and accepts every other one.
ASSUME ConfigAssumption ==
  /\ TrustDomainOf \in [Workloads -> TDs]
  /\ X509AuthorityTTL \in [TDs -> Int]
  /\ JWTAuthorityTTL \in [TDs -> Int]
  /\ X509SVIDTTL \in [Workloads -> Int]
  /\ JWTSVIDTTL \in [Workloads -> Int]
  /\ Backdate \in Nat
  /\ SVIDBackdatePeriod \in Nat
  /\ Federation \in BOOLEAN
  /\ MaxTime \in Nat

VARIABLES
  now,              \* time.Now()
  x509Authorities,  \* td.x509Authorities: what each certificate says
  jwtAuthorities,   \* td.jwtAuthorities: key ID and expiry
  muWriter,         \* td.mu, the writing side: free, waiting for readers, held
  muReaders,        \* td.mu, the calls that hold it for reading
  jwtKeyCounter,    \* the counter all trust domains share
  run,              \* where td.Run is
  newCert,          \* rotateX509Authority's certificate, before it is appended
  newKeyID,         \* rotateJWTAuthority's key ID, before it is appended
  listening,        \* the workloads that accept calls
  pc,               \* where a call is
  call,             \* what was called
  snapshot,         \* the slice of authorities a mint copied under the lock
  svid,             \* the SVID a call returned
  bundle,           \* the authorities a call returned
  status            \* how a call ended

authorityVars == <<x509Authorities, jwtAuthorities, jwtKeyCounter>>
muVars == <<muWriter, muReaders>>
runVars == <<run, newCert, newKeyID, listening>>
callVars == <<pc, call, snapshot, svid, bundle, status>>
vars == <<now, authorityVars, muVars, runVars, callVars>>

WorkloadMethods == {"FetchX509SVID", "FetchJWTSVID", "FetchX509Bundles", "FetchJWTBundles"}
Audiences == {"valid", "unset", "empty"}
Mints == {"FetchX509SVID", "FetchJWTSVID"}

\* A call to a workload socket, or a GET of the federation endpoint.
NoCall == [method |-> "none"]
CallRecord ==
  [method : WorkloadMethods, td : TDs, wl : Workloads, aud : Audiences]
    \cup [method : {"ServeHTTP"}, td : TDs]

NoSVID == [kind |-> "none"]
NoCert == [n |-> 0]
\* An authority as a verifier knows it: the trust domain's n-th X.509
\* certificate, or a JWT key ID.
X509Authority == [td : TDs, n : Nat \ {0}, notBefore : Int, notAfter : Int]
JWTAuthority == [keyID : Nat \ {0}, expiresAt : Int]
SVID ==
  [kind : {"x509"}, wl : Workloads, issuer : X509Authority, at : Int, notBefore : Int, notAfter : Int]
    \cup [kind : {"jwt"}, wl : Workloads, issuer : JWTAuthority, at : Int, notAfter : Int]

Init ==
  /\ now = 0
  /\ x509Authorities = [td \in TDs |-> <<>>]
  /\ jwtAuthorities = [td \in TDs |-> <<>>]
  /\ muWriter = [td \in TDs |-> "free"]
  /\ muReaders = [td \in TDs |-> {}]
  /\ jwtKeyCounter = 0
  /\ run = [td \in TDs |-> "rotateX509"]
  /\ newCert = [td \in TDs |-> NoCert]
  /\ newKeyID = [td \in TDs |-> 0]
  /\ listening = {}
  /\ pc = [c \in Calls |-> "idle"]
  /\ call = [c \in Calls |-> NoCall]
  /\ snapshot = [c \in Calls |-> <<>>]
  /\ svid = [c \in Calls |-> NoSVID]
  /\ bundle = [c \in Calls |-> {}]
  /\ status = [c \in Calls |-> "none"]

-----------------------------------------------------------------------------
(* td.Run: one goroutine for each trust domain.                            *)

RunStep(td, from, to) == run[td] = from /\ run' = [run EXCEPT ![td] = to]

\* generateKey and createRootCertificate, outside the lock; either may fail,
\* and Run then returns the error.
RotateX509Authority(td) ==
  /\ \/ /\ RunStep(td, "rotateX509", "lockX509")
        /\ newCert' = [newCert EXCEPT ![td] =
             [td |-> td, n |-> Len(x509Authorities[td]) + 1,
              notBefore |-> now - Backdate,
              notAfter |-> now + X509AuthorityTTL[td]]]
     \/ RunStep(td, "rotateX509", "failed") /\ UNCHANGED newCert
  /\ UNCHANGED <<now, authorityVars, muVars, newKeyID, listening, callVars>>

\* The append under td.mu, and the deferred Unlock.
AppendX509(td) ==
  /\ RunStep(td, "appendX509", "rotateJWT")
  /\ x509Authorities' = [x509Authorities EXCEPT ![td] = Append(@, newCert[td])]
  /\ muWriter' = [muWriter EXCEPT ![td] = "free"]
  /\ UNCHANGED <<now, jwtAuthorities, jwtKeyCounter, muReaders, newCert, newKeyID, listening, callVars>>

RotateJWTAuthority(td) ==
  /\ \/ RunStep(td, "rotateJWT", "lockJWT")
     \/ RunStep(td, "rotateJWT", "failed")
  /\ UNCHANGED <<now, authorityVars, muVars, newCert, newKeyID, listening, callVars>>

\* mu.Lock, first half: from now on RLock blocks.
LockAnnounce(td) ==
  /\ run[td] \in {"lockX509", "lockJWT"}
  /\ muWriter[td] = "free"
  /\ muWriter' = [muWriter EXCEPT ![td] = "waiting"]
  /\ UNCHANGED <<now, authorityVars, muReaders, runVars, callVars>>

\* A plausible bug: RLock where Lock was meant, so readers are not excluded.
LockAcquire_shared(td) ==
  /\ muWriter[td] = "waiting"
  /\ muWriter' = [muWriter EXCEPT ![td] = "held"]
  /\ \/ RunStep(td, "lockX509", "appendX509")
     \/ RunStep(td, "lockJWT", "keyJWT")
  /\ UNCHANGED <<now, authorityVars, muReaders, newCert, newKeyID, listening, callVars>>

\* mu.Lock, second half: the readers that came before are gone.
LockAcquire(td) ==
  /\ muWriter[td] = "waiting"
  /\ muReaders[td] = {}
  /\ muWriter' = [muWriter EXCEPT ![td] = "held"]
  /\ \/ RunStep(td, "lockX509", "appendX509")
     \/ RunStep(td, "lockJWT", "keyJWT")
  /\ UNCHANGED <<now, authorityVars, muReaders, newCert, newKeyID, listening, callVars>>

\* A plausible bug: each trust domain counts its own keys.
NewJWTKeyID_perDomain(td) ==
  /\ RunStep(td, "keyJWT", "appendJWT")
  /\ newKeyID' = [newKeyID EXCEPT ![td] = Len(jwtAuthorities[td]) + 1]
  /\ UNCHANGED <<now, authorityVars, muVars, newCert, listening, callVars>>

\* A plausible bug: the key ID is the value before the increment.
NewJWTKeyID_old(td) ==
  /\ RunStep(td, "keyJWT", "appendJWT")
  /\ jwtKeyCounter' = jwtKeyCounter + 1
  /\ newKeyID' = [newKeyID EXCEPT ![td] = jwtKeyCounter]
  /\ UNCHANGED <<now, x509Authorities, jwtAuthorities, muVars, newCert, listening, callVars>>

\* jwtKeyCounter.Add(1): td.mu does not protect it, the trust domains share it.
NewJWTKeyID(td) ==
  /\ RunStep(td, "keyJWT", "appendJWT")
  /\ jwtKeyCounter' = jwtKeyCounter + 1
  /\ newKeyID' = [newKeyID EXCEPT ![td] = jwtKeyCounter + 1]
  /\ UNCHANGED <<now, x509Authorities, jwtAuthorities, muVars, newCert, listening, callVars>>

AppendJWT(td) ==
  /\ RunStep(td, "appendJWT", "newWorkloads")
  /\ jwtAuthorities' = [jwtAuthorities EXCEPT ![td] =
       Append(@, [keyID |-> newKeyID[td], expiresAt |-> now + JWTAuthorityTTL[td]])]
  /\ muWriter' = [muWriter EXCEPT ![td] = "free"]
  /\ UNCHANGED <<now, x509Authorities, jwtKeyCounter, muReaders, newCert, newKeyID, listening, callVars>>

\* NewWorkload for every workload of the trust domain: an error ends Run.
NewWorkloads(td) ==
  /\ \/ RunStep(td, "newWorkloads", "serving")
     \/ RunStep(td, "newWorkloads", "failed")
  /\ UNCHANGED <<now, authorityVars, muVars, newCert, newKeyID, listening, callVars>>

\* A plausible bug: the workloads are started before the authorities exist.
Listen_early(w) ==
  /\ run[TrustDomainOf[w]] # "failed"
  /\ w \notin listening
  /\ listening' = listening \cup {w}
  /\ UNCHANGED <<now, authorityVars, muVars, run, newCert, newKeyID, callVars>>

\* workload.Run in the errgroup: net.Listen, then Serve.
Listen(w) ==
  /\ run[TrustDomainOf[w]] = "serving"
  /\ w \notin listening
  /\ listening' = listening \cup {w}
  /\ UNCHANGED <<now, authorityVars, muVars, run, newCert, newKeyID, callVars>>

-----------------------------------------------------------------------------
(* The calls: handlers of the Workload API and of the federation endpoint. *)

CallStep(c, from, to) == pc[c] = from /\ pc' = [pc EXCEPT ![c] = to]

\* The two mints start with RLock, the two bundle methods read at once.
Call(c) ==
  /\ \E m \in WorkloadMethods, w \in listening, a \in Audiences :
       /\ a # "valid" => m = "FetchJWTSVID"
       /\ call' = [call EXCEPT ![c] = [method |-> m, td |-> TrustDomainOf[w], wl |-> w, aud |-> a]]
       /\ CallStep(c, "idle", IF m \in Mints THEN "rlock" ELSE "readUnlocked")
  /\ UNCHANGED <<now, authorityVars, muVars, runVars, snapshot, svid, bundle, status>>

\* GET /<trustdomain>: the endpoint serves from the moment the process starts.
CallFederation(c) ==
  /\ Federation
  /\ \E td \in TDs :
       call' = [call EXCEPT ![c] =
         [method |-> "ServeHTTP", td |-> td]]
  /\ CallStep(c, "idle", "rlock")
  /\ UNCHANGED <<now, authorityVars, muVars, runVars, snapshot, svid, bundle, status>>

\* mu.RLock: blocks while a writer holds the lock or waits for it.
RLock(c) ==
  /\ CallStep(c, "rlock", IF call[c].method \in Mints THEN "copy" ELSE "readLocked")
  /\ muWriter[call[c].td] = "free"
  /\ muReaders' = [muReaders EXCEPT ![call[c].td] = @ \cup {c}]
  /\ UNCHANGED <<now, authorityVars, muWriter, runVars, call, snapshot, svid, bundle, status>>

\* The slice of authorities a call uses.
AuthoritiesFor(m, td) == IF m = "FetchX509SVID" THEN x509Authorities[td] ELSE jwtAuthorities[td]

\* The copy of the slice under the lock, and RUnlock.
CopyAuthorities(c) ==
  /\ CallStep(c, "copy", "check")
  /\ snapshot' = [snapshot EXCEPT ![c] = AuthoritiesFor(call[c].method, call[c].td)]
  /\ muReaders' = [muReaders EXCEPT ![call[c].td] = @ \ {c}]
  /\ UNCHANGED <<now, authorityVars, muWriter, runVars, call, svid, bundle, status>>

\* len(td.x509Authorities) == 0: the field itself, no longer under the lock.
CheckAuthorities(c) ==
  LET none == AuthoritiesFor(call[c].method, call[c].td) = <<>> IN
  /\ CallStep(c, "check", IF none THEN "done" ELSE "mint")
  /\ status' = [status EXCEPT ![c] = IF none THEN "no authority" ELSE @]
  /\ UNCHANGED <<now, authorityVars, muVars, runVars, call, snapshot, svid, bundle>>

\* A mint ends: with an error, with an SVID, or, the copy of the slice being
\* empty when it is indexed at len-1, with a panic of the process.
Finish(c, err, s) ==
  /\ CallStep(c, "mint", IF snapshot[c] = <<>> THEN "panicked" ELSE "done")
  /\ status' = [status EXCEPT ![c] = IF snapshot[c] = <<>> THEN "panic" ELSE err]
  /\ svid' = [svid EXCEPT ![c] = IF snapshot[c] = <<>> \/ err # "ok" THEN @ ELSE s]
  /\ UNCHANGED <<now, authorityVars, muVars, runVars, call, snapshot, bundle>>

\* Signing fails when there are no random numbers, or with a key it cannot use.
Signing == {"ok", "signing failed"}

\* The newest authority of the copy signs; x509authority checks the TTL, then
\* that the authority has not expired, and caps the SVID at its expiry.
MintX509SVID(c) ==
  LET a == Last(snapshot[c])
      ttl == X509SVIDTTL[call[c].wl]
      life == DetermineLifetime(now, ttl, a.notAfter, SVIDBackdatePeriod) IN
  /\ call[c].method = "FetchX509SVID"
  /\ \E signing \in Signing :
       Finish(c, IF ttl <= 0 THEN "invalid parameter"
                 ELSE IF CapPassed(now, a.notAfter) THEN "authority is expired" ELSE signing,
              [kind |-> "x509", wl |-> call[c].wl, issuer |-> a, at |-> now,
               notBefore |-> life.notBefore, notAfter |-> life.notAfter])

\* The newest authority of the copy signs, but the cap is the one of an
\* authority created at this moment, not the expiry the copy holds.
MintJWTSVID(c) ==
  LET a == Last(snapshot[c])
      ttl == JWTSVIDTTL[call[c].wl]
      cap == now + JWTAuthorityTTL[call[c].td] IN
  /\ call[c].method = "FetchJWTSVID"
  /\ \E signing \in Signing :
       Finish(c, IF call[c].aud # "valid" \/ ttl <= 0 THEN "invalid parameter"
                 ELSE IF CapPassed(now, cap) THEN "authority is expired" ELSE signing,
              [kind |-> "jwt", wl |-> call[c].wl, issuer |-> a, at |-> now,
               notAfter |-> DetermineExpiry(now, ttl, cap)])

ReturnBundle(c, from, b) ==
  /\ CallStep(c, from, "done")
  /\ bundle' = [bundle EXCEPT ![c] = b]
  /\ status' = [status EXCEPT ![c] = "ok"]

\* A plausible bug: the loop stops before the newest authority.
X509Bundles_short(c) ==
  /\ call[c].method = "FetchX509Bundles"
  /\ ReturnBundle(c, "readUnlocked", ToSet(Front(x509Authorities[call[c].td])))
  /\ UNCHANGED <<now, authorityVars, muVars, runVars, call, snapshot, svid>>

\* X509Bundles and JWTBundles range over the field without taking the lock.
X509Bundles(c) ==
  /\ call[c].method = "FetchX509Bundles"
  /\ ReturnBundle(c, "readUnlocked", ToSet(x509Authorities[call[c].td]))
  /\ UNCHANGED <<now, authorityVars, muVars, runVars, call, snapshot, svid>>

JWTBundles(c) ==
  /\ call[c].method = "FetchJWTBundles"
  /\ ReturnBundle(c, "readUnlocked", ToSet(jwtAuthorities[call[c].td]))
  /\ UNCHANGED <<now, authorityVars, muVars, runVars, call, snapshot, svid>>

\* A plausible bug: no deferred RUnlock.
Bundle_locked(c) ==
  LET td == call[c].td IN
  /\ ReturnBundle(c, "readLocked", ToSet(x509Authorities[td]) \cup ToSet(jwtAuthorities[td]))
  /\ UNCHANGED <<now, authorityVars, muVars, runVars, call, snapshot, svid>>

\* Bundle reads both slices under the lock; the deferred RUnlock.
Bundle(c) ==
  LET td == call[c].td IN
  /\ ReturnBundle(c, "readLocked", ToSet(x509Authorities[td]) \cup ToSet(jwtAuthorities[td]))
  /\ muReaders' = [muReaders EXCEPT ![td] = @ \ {c}]
  /\ UNCHANGED <<now, authorityVars, muWriter, runVars, call, snapshot, svid>>

-----------------------------------------------------------------------------
Tick ==
  /\ now < MaxTime
  /\ now' = now + 1
  /\ UNCHANGED <<authorityVars, muVars, runVars, callVars>>

\* Nothing left to do within the bounds: every Run is serving or has failed,
\* every call is over or has nobody to call.
Quiescent ==
  /\ \A td \in TDs : run[td] \in {"serving", "failed"}
  /\ \A w \in Workloads : run[TrustDomainOf[w]] = "serving" => w \in listening
  /\ \A c \in Calls : pc[c] \in {"idle", "done", "panicked"}
  /\ UNCHANGED vars

RunNext(td) ==
  \/ RotateX509Authority(td) \/ RotateJWTAuthority(td)
  \/ LockAnnounce(td) \/ LockAcquire(td)
  \/ AppendX509(td) \/ NewJWTKeyID(td) \/ AppendJWT(td)
  \/ NewWorkloads(td)

\* What the goroutine of a call does, once it has been made.
CallNext(c) ==
  \/ RLock(c) \/ CopyAuthorities(c) \/ CheckAuthorities(c)
  \/ MintX509SVID(c) \/ MintJWTSVID(c)
  \/ X509Bundles(c) \/ JWTBundles(c) \/ Bundle(c)

Next ==
  \/ Tick
  \/ \E td \in TDs : RunNext(td)
  \/ \E w \in Workloads : Listen(w)
  \/ \E c \in Calls : Call(c) \/ CallFederation(c) \/ CallNext(c)
  \/ Quiescent

Spec == Init /\ [][Next]_vars

\* The Go scheduler runs every goroutine that can run; nobody has to call.
Fairness ==
  /\ \A td \in TDs : WF_vars(RunNext(td))
  /\ \A w \in Workloads : WF_vars(Listen(w))
  /\ \A c \in Calls : WF_vars(CallNext(c))

FairSpec == Spec /\ Fairness

-----------------------------------------------------------------------------
(* Properties.                                                             *)

RunStates == {"rotateX509", "lockX509", "appendX509", "rotateJWT", "lockJWT",
              "keyJWT", "appendJWT", "newWorkloads", "serving", "failed"}
CallStates == {"idle", "rlock", "copy", "check", "mint", "readUnlocked", "readLocked",
               "done", "panicked"}
Outcomes == {"none", "ok", "invalid parameter", "authority is expired", "signing failed",
             "no authority", "panic"}

\* Every variable has the type the code declares for it; in particular a key
\* ID that is appended was handed out by the counter, which starts at one.
TypeOK ==
  /\ now \in Nat
  /\ x509Authorities \in [TDs -> Seq(X509Authority)]
  /\ jwtAuthorities \in [TDs -> Seq(JWTAuthority)]
  /\ muWriter \in [TDs -> {"free", "waiting", "held"}]
  /\ muReaders \in [TDs -> SUBSET Calls]
  /\ jwtKeyCounter \in Nat
  /\ run \in [TDs -> RunStates]
  /\ newCert \in [TDs -> X509Authority \cup {NoCert}]
  /\ newKeyID \in [TDs -> Nat]
  /\ listening \subseteq Workloads
  /\ pc \in [Calls -> CallStates]
  /\ call \in [Calls -> CallRecord \cup {NoCall}]
  /\ snapshot \in [Calls -> Seq(X509Authority) \cup Seq(JWTAuthority)]
  /\ svid \in [Calls -> SVID \cup {NoSVID}]
  /\ bundle \in [Calls -> SUBSET (X509Authority \cup JWTAuthority)]
  /\ status \in [Calls -> Outcomes]

\* Whether a goroutine is about to write, or to read, a slice of td.
Writing(td, slice) == run[td] = IF slice = "x509" THEN "appendX509" ELSE "appendJWT"
Reading(c, td, slice) ==
  /\ call[c] # NoCall /\ call[c].td = td
  /\ \/ /\ pc[c] \in {"copy", "check"}
        /\ call[c].method = IF slice = "x509" THEN "FetchX509SVID" ELSE "FetchJWTSVID"
     \/ /\ pc[c] = "readUnlocked"
        /\ call[c].method = IF slice = "x509" THEN "FetchX509Bundles" ELSE "FetchJWTBundles"
     \/ pc[c] = "readLocked"

\* Half of the reads of the two slices do not hold td.mu.  No append can
\* nevertheless race with a read: those reads only happen on behalf of a
\* workload, and a workload only listens once Run has done its appends.
NoDataRace ==
  \A td \in TDs, c \in Calls, slice \in {"x509", "jwt"} :
    ~(Writing(td, slice) /\ Reading(c, td, slice))

\* The two branches the code marks "unexpected", and the panic they leave
\* open (the emptiness check looks at the field, the index is into the copy),
\* are unreachable: a mint always finds an authority.
MintFindsAuthority ==
  \A c \in Calls : status[c] \notin {"no authority", "panic"}

\* An X509-SVID does not outlive the authority that signed it, and is never
\* signed with an authority that has expired.
X509WithinAuthority ==
  \A c \in Calls : svid[c].kind = "x509" =>
    /\ svid[c].at < svid[c].issuer.notAfter
    /\ svid[c].at < svid[c].notAfter
    /\ svid[c].notAfter <= svid[c].issuer.notAfter

\* The key IDs of all trust domains are distinct: the JWT bundles of several
\* trust domains can be put in one key set.
JWTKeyIDsDistinct ==
  \A t, u \in TDs : \A i \in DOMAIN jwtAuthorities[t], j \in DOMAIN jwtAuthorities[u] :
    jwtAuthorities[t][i].keyID = jwtAuthorities[u][j].keyID => t = u /\ i = j

\* The calls that returned an SVID, and those that returned a bundle.
Minted == {c \in Calls : svid[c] # NoSVID}
Served == {c \in Calls : status[c] = "ok" /\ call[c].method \notin Mints}

\* Whoever is handed a bundle after an SVID of the trust domain was issued
\* finds the authority that signed the SVID in it, whichever of the bundle
\* methods (locked or not) it asked.
BundleVerifiesIssued ==
  [][\A c \in Calls : c \in Served' \ Served =>
       \A d \in Minted : call[d].td = call[c].td =>
         svid[d].issuer \in bundle'[c]
           \/ (svid[d].kind = "x509" /\ call[c].method = "FetchJWTBundles")
           \/ (svid[d].kind = "jwt" /\ call[c].method = "FetchX509Bundles")]_vars

\* The bundle streams send once and never again (the TODO in the handlers):
\* a workload's bundle is nevertheless always the current one.
WorkloadBundleCurrent ==
  \A c \in Served :
    /\ call[c].method = "FetchX509Bundles" => bundle[c] = ToSet(x509Authorities[call[c].td])
    /\ call[c].method = "FetchJWTBundles" => bundle[c] = ToSet(jwtAuthorities[call[c].td])

\* No one waits for ever: Run of every trust domain ends up serving, or returns an
\* error, however the federation endpoint is used meanwhile, and so does every call.
EverythingReturns ==
  /\ \A td \in TDs : <>(run[td] \in {"serving", "failed"})
  /\ \A c \in Calls : (pc[c] # "idle") ~> (pc[c] = "done")

\* The refinement mapping to Issuance: the authorities as sets, and what each
\* call that succeeded returned.
What == [FetchX509SVID |-> "x509-svid", FetchJWTSVID |-> "jwt-svid",
         FetchX509Bundles |-> "x509-bundle", FetchJWTBundles |-> "jwt-bundle",
         ServeHTTP |-> "bundle"]
NoReply == [what |-> "none"]
ReplyOf(c) ==
  IF status[c] # "ok" THEN NoReply
  ELSE [td |-> call[c].td,
        to |-> IF call[c].method = "ServeHTTP" THEN "peer" ELSE "workload",
        what |-> What[call[c].method],
        from |-> IF call[c].method \in Mints THEN {svid[c].issuer} ELSE bundle[c]]

Abstract == INSTANCE Issuance WITH
  x509 <- [td \in TDs |-> ToSet(x509Authorities[td])],
  jwt <- [td \in TDs |-> ToSet(jwtAuthorities[td])],
  reply <- [c \in Calls |-> ReplyOf(c)]

\* Locks, copies and unlocked reads are invisible: what the callers see is
\* the atomic Issuance.  In particular the copy a mint signs from is not stale.
ImplementsIssuance == Abstract!Init /\ [][Abstract!Next]_Abstract!vars

\* What cmd/dev.toml says of jwt_authority_ttl: that it is the expiration of
\* the JWT authority.  A JWT-SVID is then not signed with an authority that
\* has expired and does not outlive it, as TestExpiredAuthority has it.
JWTWithinAuthority ==
  \A c \in Calls : svid[c].kind = "jwt" =>
    /\ svid[c].at < svid[c].issuer.expiresAt
    /\ svid[c].notAfter <= svid[c].issuer.expiresAt

=============================================================================
