------------------------------- MODULE Config -------------------------------
(***************************************************************************)
(* LoadConfig: from the TOML document of the dev server to its Config.  A  *)
(* document that decodes has the port of the federation endpoint, and      *)
(* tables by the names of trust domains, with tables by the names of       *)
(* workloads; durations are minutes, and a key that is missing has its     *)
(* zero value.                                                             *)
(***************************************************************************)
EXTENDS Integers, FiniteSets, Functions

CONSTANTS
  BadNames,   \* names that are no path segment of a SPIFFE ID
  BadPaths    \* id_paths that are no path of a SPIFFE ID

DefaultX509AuthorityTTL == 1440
DefaultJWTAuthorityTTL == 1440
DefaultWorkloadX509SVIDTTL == 60
DefaultWorkloadX509SVIDRotateAt == 10
DefaultWorkloadJWTSVIDTTL == 60

Or(value, zero, default) == IF value = zero THEN default ELSE value

\* <temp dir>/spirl-dev/<trust domain>/<workload>.sock, split at its dot
DefaultSocket(t, w) == <<<<"spirl-dev", t, w>>, <<"sock">>>>

\* The two errors of a workload.  They end LoadConfig; which comes first is left
\* to the order of Go's maps.
Invalid(doc) ==
  {x \in UNION {{t} \X DOMAIN doc.td[t].workload : t \in DOMAIN doc.td} :
     x[2] \in BadNames \/ doc.td[x[1]].workload[x[2]].id_path \in BadPaths}

WorkloadConfig(t, w, toml) ==
  [ID |-> <<t, Or(toml.id_path, "", w)>>,
   SocketPath |-> Or(toml.socket_path, <<>>, DefaultSocket(t, w)),
   X509SVIDTTL |-> Or(toml.x509_svid_ttl, 0, DefaultWorkloadX509SVIDTTL),
   X509SVIDRotateAt |-> Or(toml.x509_svid_rotate_at, 0, DefaultWorkloadX509SVIDRotateAt),
   JWTSVIDTTL |-> Or(toml.jwt_svid_ttl, 0, DefaultWorkloadJWTSVIDTTL)]

\* Without an error: the trust domains, with their workloads as a set.
LoadConfig(doc) ==
  [Federation |-> doc.federation,
   TrustDomains |->
     [t \in DOMAIN doc.td |->
        [X509AuthorityTTL |-> Or(doc.td[t].x509_authority_ttl, 0, DefaultX509AuthorityTTL),
         JWTAuthorityTTL |-> Or(doc.td[t].jwt_authority_ttl, 0, DefaultJWTAuthorityTTL),
         Workloads |-> {WorkloadConfig(t, w, doc.td[t].workload[w]) :
                          w \in DOMAIN doc.td[t].workload}]]]

WorkloadsOf(config) ==
  UNION {config.TrustDomains[t].Workloads : t \in DOMAIN config.TrustDomains}

=============================================================================
