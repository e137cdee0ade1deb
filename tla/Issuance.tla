------------------------------ MODULE Issuance ------------------------------
(***************************************************************************)
(* What the trust domains of the development server promise their callers, *)
(* without locks, slices, copies and goroutines: an SVID or a bundle is    *)
(* produced at one instant from the authorities of that instant, an SVID   *)
(* is signed by an authority that is published, and once a workload of a   *)
(* trust domain has been answered its authorities never change, so that    *)
(* what it holds stays current.  TrustDomain is shown to implement it.     *)
(***************************************************************************)
EXTENDS Integers

CONSTANTS
  TDs, Workloads, Calls, TrustDomainOf,
  X509Authority, JWTAuthority,  \* the authorities that may be published
  NoReply

VARIABLES
  now,    \* the clock
  x509,   \* [TDs -> the X.509 authorities published]
  jwt,    \* [TDs -> the JWT authorities published]
  reply   \* [Calls -> what the call returned, if it returned anything]

vars == <<now, x509, jwt, reply>>

Init ==
  /\ now = 0
  /\ x509 = [td \in TDs |-> {}]
  /\ jwt = [td \in TDs |-> {}]
  /\ reply = [c \in Calls |-> NoReply]

\* Some workload of td has been answered.
Answered(td) ==
  \E c \in Calls : reply[c] # NoReply /\ reply[c].td = td /\ reply[c].to = "workload"

\* A new authority; a JWT key ID is new among all trust domains.  The bound
\* is on x509' so that TLC evaluates the step without enumerating authorities.
PublishX509(td) ==
  /\ ~Answered(td)
  /\ \E a \in x509'[td] : a \in X509Authority /\ x509' = [x509 EXCEPT ![td] = @ \cup {a}]
  /\ UNCHANGED <<now, jwt, reply>>

PublishJWT(td) ==
  /\ ~Answered(td)
  /\ \E a \in jwt'[td] :
       /\ a \in JWTAuthority
       /\ \A u \in TDs : \A b \in jwt[u] : b.keyID # a.keyID
       /\ jwt' = [jwt EXCEPT ![td] = @ \cup {a}]
  /\ UNCHANGED <<now, x509, reply>>

Answer(c, r) ==
  /\ reply[c] = NoReply
  /\ reply' = [reply EXCEPT ![c] = r]
  /\ UNCHANGED <<now, x509, jwt>>

\* An X509-SVID: from a published authority that has not expired, and within
\* its lifetime.
IssueX509(c) ==
  \E w \in Workloads : \E a \in x509[TrustDomainOf[w]] :
    /\ now < a.notAfter
    /\ Answer(c, [td |-> TrustDomainOf[w], to |-> "workload", what |-> "x509-svid", from |-> {a}])

\* A JWT-SVID: from a published authority.  That the authority has not
\* expired is not promised.
IssueJWT(c) ==
  \E w \in Workloads : \E a \in jwt[TrustDomainOf[w]] :
    Answer(c, [td |-> TrustDomainOf[w], to |-> "workload", what |-> "jwt-svid", from |-> {a}])

\* A bundle: all the authorities of the instant.
ServeX509(c) ==
  \E w \in Workloads : LET td == TrustDomainOf[w] IN
    Answer(c, [td |-> td, to |-> "workload", what |-> "x509-bundle", from |-> x509[td]])

ServeJWT(c) ==
  \E w \in Workloads : LET td == TrustDomainOf[w] IN
    Answer(c, [td |-> td, to |-> "workload", what |-> "jwt-bundle", from |-> jwt[td]])

\* The federation endpoint answers at any time, with whatever there is.
Federate(c) ==
  \E td \in TDs :
    Answer(c, [td |-> td, to |-> "peer", what |-> "bundle", from |-> x509[td] \cup jwt[td]])

Tick == now' = now + 1 /\ UNCHANGED <<x509, jwt, reply>>

Next ==
  \/ Tick
  \/ \E td \in TDs : PublishX509(td) \/ PublishJWT(td)
  \/ \E c \in Calls :
       IssueX509(c) \/ IssueJWT(c) \/ ServeX509(c) \/ ServeJWT(c) \/ Federate(c)

Spec == Init /\ [][Next]_vars

=============================================================================
