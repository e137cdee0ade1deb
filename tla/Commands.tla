------------------------------ MODULE Commands ------------------------------
(***************************************************************************)
(* The commands that use a running server, or the files that other ones    *)
(* wrote: get, verify and inspect.  Each gives its Workload API client a   *)
(* context of five seconds; requests over HTTP have none.  go-spiffe's     *)
(* sources are modelled from their use: they dial until the context is     *)
(* done, and while they are open they follow the server at their socket.   *)
(***************************************************************************)
EXTENDS Startup, Tokens

CONSTANTS
  Web,          \* what else there is to be read over HTTP
  SystemRoots,  \* the signers in the system's trust store
  Minted        \* the minute in which everything is minted and verified

\* A file of certificates, of a private key, of one JWT, of JWT keys.
Certs(format, certs) == [kind |-> "certs", format |-> format, data |-> certs]
Key(svid) == [kind |-> "key", data |-> svid]
Jwt(tok) == [kind |-> "jwt", data |-> tok]
Jwks(keys) == [kind |-> "jwks", data |-> keys]

\* A source, that is a server and a trust domain, stands for the one authority of
\* each kind that the server has for it.
Authority(source) == [ca |-> TRUE, to |-> source, by |-> source]
X509SVID(p, source) == [ca |-> FALSE, to |-> [by |-> p, td |-> source.td], by |-> source]
JwtSVID(source, audience) ==
  [alg |-> "ES256", typ |-> "JWT", extra |-> FALSE, kid |-> source, sub |-> source.td,
   aud |-> audience, exp |-> <<Minted + DefaultWorkloadJWTSVIDTTL>>, nbf |-> Unset,
   iat |-> <<Minted>>, by |-> source]

AudiencesOf(j) == {j.audiences[i] : i \in 1..Len(j.audiences)}

\* Mutant: the audiences after the first are not asked for.
CreateParams_first(j) == {j.audiences[1]}

\* The first audience, and the others as extra ones.
CreateParams(j) == {j.audiences[1]} \cup {j.audiences[i] : i \in 2..Len(j.audiences)}

Format(j) == IF j.format = "der" THEN "der" ELSE "pem"

\* A path is split at its dots and its name from "-key" where this is appended:
\* always before the first dot, be it one of a directory.
PrivateKeyFilename(path) == [path EXCEPT ![1] = Append(@, "-key")]

UsesSocket(j) ==
  \/ j.cmd \in {"get x509-svid", "get bundle", "get jwt-svid", "verify x509-svid"}
  \/ j.cmd = "verify jwt-svid" /\ j.bundle = None

EnsureUnixSocketAddress(socket) ==
  IF socket # None /\ socket.scheme \in {"unix", "npipe", ""} THEN socket.path ELSE None

\* NewJwkSource, and the scheme of --certificate: what is a file, what a URL.
Location(scheme) ==
  CASE scheme \in {"", "file"} -> "file"
    [] scheme \in {"http", "https"} -> "web"
    [] OTHER -> "unsupported"

RootPrograms == {"mozilla"}

\* Everything PreRunE, RunE and validateOptions turn down.
Refuses(j) ==
  \/ UsesSocket(j) /\ EnsureUnixSocketAddress(j.socket) = None
  \/ j.cmd \in {"get x509-svid", "verify x509-svid", "verify x509"}
       /\ j.format \notin {"", "pem", "der"}
  \/ j.cmd = "get bundle" /\ (j.td = None \/ j.type \notin {"jwt", "x509"})
  \/ j.cmd \in {"get jwt-svid", "verify jwt-svid"} /\ j.audiences = <<>>
  \/ j.cmd = "verify jwt-svid" /\ j.bundle # None
       /\ (j.td = None \/ Location(j.bundle.scheme) = "unsupported")
  \/ j.cmd = "verify x509"
       /\ \/ Cardinality(j.anchors) # 1 \/ j.leaf.scheme \notin {"", "file", "https"}
          \/ "ca-bundle" \in j.anchors /\ j.caFormat \notin {"pem", "jks", "p12"}
          \/ "root-program" \in j.anchors /\ j.program \notin RootPrograms
  \/ j.cmd = "inspect jwks" /\ Location(j.bundle.scheme) = "unsupported"

Commands == {"get x509-svid", "get bundle", "get jwt-svid", "verify x509-svid",
             "verify jwt-svid", "verify x509", "inspect jwt", "inspect jwks"}

StartCommand(p) ==
  LET j == job[p] IN
  /\ j.cmd \in Commands
  /\ Begin(p, IF Refuses(j) THEN "refused"
              ELSE CASE UsesSocket(j) -> "dial"
                     [] j.cmd = "inspect jwks" -> "keys"
                     [] OTHER -> "read")
  /\ UNCHANGED file

-----------------------------------------------------------------------------
(* The Workload API                                                        *)

\* Where a get goes on with what its source has.
Deliver(j, source) ==
  IF j.cmd = "get bundle" /\ j.td # source.td THEN "error"
  ELSE IF j.out = None THEN "ok"
  ELSE IF j.cmd = "get x509-svid" THEN "write key" ELSE "write bundle"

\* NewX509Source or NewJWTSource, with the first update; then what comes next.
Dial(p) ==
  LET j == job[p] IN
  /\ pc[p] = "dial"
  /\ \E source \in Answers(EnsureUnixSocketAddress(j.socket)) :
       Goto(p, "dial",
            CASE j.cmd = "get jwt-svid" -> "fetch"
              [] j.cmd \in {"verify x509-svid", "verify jwt-svid"} -> "read"
              [] OTHER -> Deliver(j, source),
            [mem[p] EXCEPT !.source = source])
  /\ UNCHANGED file

\* FetchJWTSVID, one call: the server may be gone by now.  With --decode the
\* token is printed, whatever --filename says.
Fetch(p) ==
  LET j == job[p]
      source == mem[p].source
  IN /\ pc[p] = "fetch"
     /\ IF source \in Answers(EnsureUnixSocketAddress(j.socket)) /\ "" \notin CreateParams(j)
        THEN Goto(p, "fetch", IF j.decode \/ j.out = None THEN "ok" ELSE "write token",
                  [mem[p] EXCEPT !.got = JwtSVID(source, CreateParams(j))])
        ELSE Goto(p, "fetch", "error", mem[p])
     /\ UNCHANGED file

\* Mutant: verify has no time limit.
Deadline_getOnly(p) ==
  /\ pc[p] \in {"dial", "fetch", "download"}
  /\ job[p].cmd \notin {"verify x509-svid", "verify jwt-svid"}
  /\ Goto(p, pc[p], "timeout", mem[p])
  /\ UNCHANGED file

\* The five seconds are over, or the thirty of the download of a root program.
Deadline(p) ==
  /\ pc[p] \in {"dial", "fetch", "download"}
  /\ Goto(p, pc[p], "timeout", mem[p])
  /\ UNCHANGED file

\* While it is open, a source follows the server.
Refresh(p) ==
  /\ pc[p] \in {"read", "keys"} /\ UsesSocket(job[p])
  /\ \E source \in Answers(EnsureUnixSocketAddress(job[p].socket)) \ {mem[p].source} :
       Goto(p, pc[p], pc[p], [mem[p] EXCEPT !.source = source])
  /\ UNCHANGED file

-----------------------------------------------------------------------------
(* get: what is written, in the order it is written                        *)

\* Mutant: the error of the first write is overwritten by the second's.
WriteKey_goesOn(p) ==
  \/ WriteFile(p, "write key", PrivateKeyFilename(job[p].out),
               Key(X509SVID(p, mem[p].source)), "write cert")
  \/ /\ mem[p].open = None
     /\ Goto(p, "write key", "write cert", mem[p])
     /\ UNCHANGED file

WriteKey(p) ==
  WriteFile(p, "write key", PrivateKeyFilename(job[p].out),
            Key(X509SVID(p, mem[p].source)), "write cert")

WriteCert(p) ==
  WriteFile(p, "write cert", job[p].out,
            Certs(Format(job[p]), <<X509SVID(p, mem[p].source)>>), "ok")

WriteBundle(p) ==
  WriteFile(p, "write bundle", job[p].out,
            IF job[p].type = "x509" THEN Certs("pem", <<Authority(mem[p].source)>>)
            ELSE Jwks({mem[p].source}),
            "ok")

WriteToken(p) == WriteFile(p, "write token", job[p].out, Jwt(mem[p].got), "ok")

-----------------------------------------------------------------------------
(* verify x509-svid and verify x509                                        *)

\* ReadCertificatesFromFile: none when the content is of another kind or format.
ReadCertificates(c, format) ==
  IF c.kind = "certs" /\ c.format = format THEN c.data ELSE <<>>

\* x509svid.Verify: the first certificate is the SVID, the others intermediates.
VerifySVID(certs, source) ==
  /\ ~certs[1].ca
  /\ certs[1].to.td = source.td
  /\ certs[1].by = source

VerifyX509SVID(p) ==
  LET certs == ReadCertificates(Read(job[p].in), Format(job[p])) IN
  /\ job[p].cmd = "verify x509-svid"
  /\ Goto(p, "read",
          CASE certs = <<>> -> "unreadable"
            [] certs # <<>> /\ VerifySVID(certs, mem[p].source) -> "ok"
            [] OTHER -> "rejected",
          mem[p])
  /\ UNCHANGED file

\* The position of the leaf: the only certificate, or the first that is no CA, 0
\* for none.  All the others are intermediates.
ExtractLeaf(certs) ==
  IF Len(certs) = 1 THEN 1
  ELSE LET others == {i \in 1..Len(certs) : ~certs[i].ca}
       IN IF others = {} THEN 0 ELSE CHOOSE i \in others : \A k \in others : i <= k

\* After the certificate, the trust store.  A file:// URL is found to be a path,
\* and then opened by its URL.
ReadLeaf(p) ==
  LET j == job[p]
      certs == ReadCertificates(Read(j.leaf.path), Format(j))
  IN /\ j.cmd = "verify x509"
     /\ CASE j.leaf.scheme = "https" -> Goto(p, "read", "handshake", mem[p])
          [] j.leaf.scheme = "" /\ certs # <<>> /\ ExtractLeaf(certs) # 0 ->
               Goto(p, "read", "roots", [mem[p] EXCEPT !.got = certs])
          [] OTHER -> Goto(p, "read", "unreadable", mem[p])
     /\ UNCHANGED file

\* The certificates of an HTTPS server: a connection without a time limit.
Handshake(p) ==
  /\ pc[p] = "handshake"
  /\ \E c \in Web :
       LET certs == ReadCertificates(c, "pem")
       IN IF certs # <<>> /\ ExtractLeaf(certs) # 0
          THEN Goto(p, "handshake", "roots", [mem[p] EXCEPT !.got = certs])
          ELSE Goto(p, "handshake", "unreadable", mem[p])
  /\ UNCHANGED file

\* x509.Certificate.Verify: from the leaf to a root by at most one intermediate.
Verify(certs, roots) ==
  LET leaf == certs[ExtractLeaf(certs)]
  IN \/ leaf.by \in roots
     \/ \E i \in DOMAIN certs : certs[i].ca /\ certs[i].to = leaf.by /\ certs[i].by \in roots

Judge(p, l, roots) ==
  Goto(p, l, IF Verify(mem[p].got, roots) THEN "ok" ELSE "rejected", mem[p])

\* --ca-bundle, --system or --root-program.
ReadRoots(p) ==
  LET certs == ReadCertificates(Read(job[p].ca), job[p].caFormat) IN
  /\ pc[p] = "roots"
  /\ CASE job[p].anchors = {"root-program"} -> Goto(p, "roots", "download", mem[p])
       [] job[p].anchors = {"system"} -> Judge(p, "roots", SystemRoots)
       [] job[p].anchors = {"ca-bundle"} /\ certs # <<>> ->
            Judge(p, "roots", {certs[i].to : i \in DOMAIN certs})
       [] OTHER -> Goto(p, "roots", "unreadable", mem[p])
  /\ UNCHANGED file

\* The root program, by way of a temporary file, which is removed in any case.
Download(p) ==
  /\ \E c \in Web :
       LET certs == ReadCertificates(c, "pem")
       IN IF certs # <<>> THEN Judge(p, "download", {certs[i].to : i \in DOMAIN certs})
          ELSE Goto(p, "download", "unreadable", mem[p])
  /\ UNCHANGED file

-----------------------------------------------------------------------------
(* verify jwt-svid, inspect jwt and inspect jwks                           *)

\* The token is the flag's or the first line of the file.
GetToken(p) ==
  LET j == job[p]
      c == IF j.token # None THEN Jwt(j.token) ELSE Read(j.in)
  IN /\ j.cmd = "verify jwt-svid"
     /\ Goto(p, "read",
             CASE c \in {Absent, Torn} -> "unreadable"
               [] c.kind = "jwt" -> "keys"
               [] OTHER -> "rejected",
             [mem[p] EXCEPT !.got = IF c.kind = "jwt" THEN c.data ELSE None])
     /\ UNCHANGED file

\* A set of keys has been read: the token is judged, or the keys are shown.
UseKeys(p, l, c) ==
  LET j == job[p]
      keys == {<<mem[p].got.sub, kid>> : kid \in c.data}
  IN Goto(p, l,
       CASE c.kind # "jwks" -> "unreadable"
         [] c.kind = "jwks" /\ j.cmd = "inspect jwks" ->
              IF c.data = {} THEN "rejected" ELSE "ok"
         [] OTHER ->
              IF ParseAndValidate(mem[p].got, keys, AudiencesOf(j), Minted) THEN "ok"
              ELSE "rejected",
       mem[p])

\* From the JwkSource, which has the same keys for every trust domain, or from the
\* source, which has those of its own.
GetKeys(p) ==
  LET j == job[p]
      source == mem[p].source
  IN /\ pc[p] = "keys"
     /\ CASE UsesSocket(j) ->
               Goto(p, "keys",
                    IF ParseAndValidate(mem[p].got, {<<source.td, source>>}, AudiencesOf(j), Minted)
                    THEN "ok" ELSE "rejected",
                    mem[p])
          [] ~UsesSocket(j) /\ Location(j.bundle.scheme) = "file" ->
               UseKeys(p, "keys", Read(j.bundle.path))
          [] OTHER -> Goto(p, "keys", "request", mem[p])
     /\ UNCHANGED file

\* http.Get, without a time limit: a federation endpoint, or anything else.
HttpGet(p) ==
  /\ pc[p] = "request"
  /\ \E c \in Web \cup {Jwks({[by |-> x[1], td |-> x[2]]}) : x \in Federated} :
       UseKeys(p, "request", c)
  /\ UNCHANGED file

\* The other outputs differ in their text.
InspectJwt(p) ==
  LET c == Read(job[p].in) IN
  /\ job[p].cmd = "inspect jwt"
  /\ Goto(p, "read",
          IF c.kind # "jwt" \/ ~DeserializeJwt(c.data) THEN "unreadable"
          ELSE IF job[p].isSvid /\ ~IsSvid(c.data) THEN "rejected" ELSE "ok",
          mem[p])
  /\ UNCHANGED file

CommandNext(p) ==
  \/ Dial(p) \/ Fetch(p) \/ Deadline(p)
  \/ WriteKey(p) \/ WriteCert(p) \/ WriteBundle(p) \/ WriteToken(p)
  \/ VerifyX509SVID(p) \/ ReadLeaf(p) \/ ReadRoots(p) \/ GetToken(p) \/ GetKeys(p)
  \/ InspectJwt(p)

WebNext(p) == Handshake(p) \/ HttpGet(p) \/ Download(p)

=============================================================================
