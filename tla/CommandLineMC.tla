--------------------------- MODULE CommandLineMC ---------------------------
(* Scenarios for TLC: at most four processes over a few files.              *)
EXTENDS CommandLine, TLC

Entry == [id_path |-> "", socket_path |-> <<>>, x509_svid_ttl |-> 0,
          x509_svid_rotate_at |-> 0, jwt_svid_ttl |-> 0]
Table(workloads) == [x509_authority_ttl |-> 0, jwt_authority_ttl |-> 0, workload |-> workloads]

Doc(port, tables) == [federation |-> port, td |-> tables]

\* dev.toml, less one workload; a user's: one name in two trust domains.
MCDefaultDoc == Doc(8080, [a |-> Table([front |-> Entry]), b |-> Table([hub |-> Entry])])
UserDoc == Doc(0, [a |-> Table([front |-> Entry]), b |-> Table([front |-> Entry])])
OddDoc == Doc(0, [a |-> Table([front |-> Entry, up |-> [Entry EXCEPT !.id_path = ".."]])])
SameDoc == Doc(0, [a |-> Table([front |-> [Entry EXCEPT !.socket_path = <<<<"s">>>>]]),
                   b |-> Table([front |-> [Entry EXCEPT !.socket_path = <<<<"s">>>>]])])

Garbage == [kind |-> "garbage"]
MCPrefixes(c) ==
  CASE c.kind = "config" -> {Garbage, [c EXCEPT !.data.td = [a |-> c.data.td.a]]}
    [] c.kind = "keys" -> {KeyFile(SubSeq(c.data, 1, n)) : n \in 1..(Len(c.data) - 1)}
    [] c.kind = "jwt" -> {Garbage}
    [] OTHER -> {}

Conf == <<<<"dev">>, <<"toml">>>>
Sock == DefaultSocket("a", "front")
Cert == <<<<"cert">>, <<"pem">>>>
Ca == <<<<"ca">>, <<"pem">>>>
Token == <<<<"token">>>>
Keys == <<<<"jwks">>>>
Bucket == <<<<"ec256">>, <<"pem">>>>

NoFiles == [f \in {Conf, Sock, Cert, PrivateKeyFilename(Cert), Ca, Token, Keys, Bucket} |-> Absent]
Configured == [NoFiles EXCEPT ![Conf] = DefaultConfig]

At_(scheme, path) == [scheme |-> scheme, path |-> path]
TheSocket == At_("", Sock)
Idle == [cmd |-> "none"]
Run == [cmd |-> "run", config |-> Conf]
EditTo(doc) == [cmd |-> "edit", config |-> Conf, doc |-> doc]
GetX509 == [cmd |-> "get x509-svid", socket |-> TheSocket, out |-> Cert, format |-> "der"]
GetBundle(type, out) == [cmd |-> "get bundle", socket |-> TheSocket, out |-> out, type |-> type, td |-> "a"]
GetJwt == [cmd |-> "get jwt-svid", socket |-> TheSocket, out |-> Token, decode |-> FALSE, audiences |-> <<"x", "y">>]
VerifySvid == [cmd |-> "verify x509-svid", socket |-> TheSocket, in |-> Cert, format |-> "der"]
VerifyJwt(bundle) == [cmd |-> "verify jwt-svid", socket |-> TheSocket, bundle |-> bundle, td |-> "a",
                      token |-> None, in |-> Token, audiences |-> <<"y">>]
VerifyX509(leaf, anchors) == [cmd |-> "verify x509", leaf |-> leaf, format |-> "der", anchors |-> anchors, ca |-> Ca,
                              caFormat |-> "pem", program |-> "mozilla"]
InspectToken == [cmd |-> "inspect jwt", in |-> Token, isSvid |-> TRUE]
InspectKeys(location) == [cmd |-> "inspect jwks", bundle |-> location]
Test(wants, ci, committed) == [cmd |-> "test", bucket |-> Bucket, wants |-> wants, ci |-> ci, committed |-> committed]

Root == [by |-> 0, td |-> "root"]
MCSystemRoots == {Root}
Chain == Certs("pem", <<[ca |-> TRUE, to |-> [by |-> 0, td |-> "sub"], by |-> Root],
                        [ca |-> FALSE, to |-> [by |-> 0, td |-> "www"], by |-> [by |-> 0, td |-> "sub"]]>>)
MCWeb == {Garbage, Chain, Jwks({}), Certs("pem", <<Authority(Root)>>)}

\* JWTs, as far as the code looks at them, with times at the edges of Leeway.
K == [by |-> 0, td |-> "a"]
Tokens_ ==
  {tok \in [alg : {"ES256", "EdDSA", "none"}, typ : {Unset, "JWT", "at+jwt"}, extra : BOOLEAN,
             kid : {Unset, K}, sub : {Unset, NoSpiffeID, "a"}, aud : {{}, {"x"}, {"x", "y"}},
             exp : {Unset, <<3>>, <<4>>}, nbf : {Unset, <<6>>, <<7>>},
             iat : {Unset, <<6>>, <<7>>}, by : {K, Root}] :
     \/ tok.exp = <<4>> /\ tok.nbf = Unset /\ tok.iat = Unset
     \/ /\ tok.alg = "ES256" /\ tok.by = K
        /\ tok.nbf = Unset \/ tok.iat = Unset
        /\ tok.exp = <<4>> \/ tok.nbf = tok.iat}

S(jobs, files) ==
  [job |-> [p \in Processes |-> IF p <= Len(jobs) THEN jobs[p] ELSE Idle], file |-> files]

TokenScenarios ==
  {S(<<InspectToken, VerifyJwt(At_("", Keys))>>,
     [NoFiles EXCEPT ![Token] = Jwt(tok), ![Keys] = Jwks({K})]) : tok \in Tokens_}

MCScenarios ==
  {S(<<Run, GetX509, GetX509>>, Configured),
   S(<<Run, Run, GetX509, VerifySvid>>, Configured),
   S(<<Run, Run, GetJwt, VerifyJwt(None)>>, Configured),
   S(<<Run, GetBundle("jwt", Keys), GetJwt, VerifyJwt(At_("file", Keys))>>, Configured),
   S(<<Run, GetX509, GetBundle("x509", Ca), VerifyX509(At_("", Cert), {"ca-bundle"})>>, Configured),
   S(<<Run, VerifyJwt(At_("https", Keys)), InspectKeys(At_("http", Keys))>>,
     [Configured EXCEPT ![Token] = Jwt(JwtSVID([by |-> 1, td |-> "a"], {"y"}))]),
   S(<<VerifyX509(At_("https", <<>>), {"root-program"}), InspectKeys(At_("", Keys))>>, NoFiles),
   S(<<VerifyX509(At_("https", <<>>), {"system"}), VerifyX509(At_("file", Cert), {"system"}),
      [VerifyX509(At_("", Cert), {"ca-bundle"}) EXCEPT !.caFormat = "der"]>>, NoFiles),
   S(<<Run, Run, EditTo(UserDoc)>>, NoFiles),
   S(<<Run, EditTo(OddDoc)>>, NoFiles),
   S(<<Run, EditTo(SameDoc)>>, Configured),
   S(<<Test(3, FALSE, 2), Test(3, FALSE, 2), Test(2, FALSE, 2)>>,
     [NoFiles EXCEPT ![Bucket] = KeyFile(<<<<0, 1>>, <<0, 2>>>>)]),
   S(<<Test(1, TRUE, 1), Test(2, TRUE, 1), Test(3, FALSE, 1)>>, [NoFiles EXCEPT ![Bucket] = KeyFile(<<<<0, 1>>>>)])}
  \cup TokenScenarios

=============================================================================
