---------------------------- MODULE CommandLine ----------------------------
(***************************************************************************)
(* Servers, other commands and test processes on one machine: each begins  *)
(* when it likes, takes its steps among those of the others, and may be    *)
(* killed between any two of them.                                         *)
(***************************************************************************)
EXTENDS Commands, TestKeys

CONSTANT Scenarios   \* what is started, and the files there are before

\* The files a job writes, but for sockets and configurations.
Outputs(j) ==
  CASE j.cmd = "get x509-svid" /\ j.out # None -> {j.out, PrivateKeyFilename(j.out)}
    [] j.cmd \in {"get bundle", "get jwt-svid"} -> {j.out} \ {None}
    [] j.cmd = "test" -> {j.bucket}
    [] OTHER -> {}

\* The files that tokens and their keys are read from.
Inputs(j) ==
  CASE j.cmd = "inspect jwt" -> {j.in}
    [] j.cmd = "verify jwt-svid" /\ j.bundle = None -> {j.in}
    [] j.cmd = "verify jwt-svid" /\ j.bundle # None -> {j.in, j.bundle.path}
    [] OTHER -> {}

\* The configurations of servers, and all files that are none of their sockets.
ConfigPaths(jobs) == {jobs[p].config : p \in {q \in Processes : jobs[q].cmd \in {"run", "edit"}}}
UsedPaths(jobs) == ConfigPaths(jobs) \cup UNION {Outputs(jobs[p]) \cup Inputs(jobs[p]) : p \in Processes}

\* What is no threat to them: a document none of whose sockets is one of them.
Spares(doc, paths) == \A w \in WorkloadsOf(LoadConfig(doc)) : w.SocketPath \notin paths
Harmless(c, paths) == c.kind # "keys" /\ \A doc \in Decode(c) : Spares(doc, paths)

\* The documents that are written by someone, and the sockets one names.
Documents(jobs) == {DefaultDoc} \cup {jobs[e].doc : e \in {q \in Processes : jobs[q].cmd = "edit"}}
Explicit(doc) ==
  UNION {{doc.td[t].workload[w].socket_path : w \in DOMAIN doc.td[t].workload} : t \in DOMAIN doc.td}

\* What is committed is what there is before.
Committed(j, c) ==
  IF c.kind = "keys" THEN /\ c.data \in Seq(Int \X Int) /\ j.committed \in 0..Len(c.data)
                          /\ \A i \in 1..j.committed : c.data[i] = <<0, i>>
                     ELSE j.committed = 0

\* A path has one use, and a configuration one user.
ASSUME ScenarioAssumption ==
  \A s \in Scenarios :
    LET configs == ConfigPaths(s.job)
        used == UsedPaths(s.job)
    IN
    /\ \A e \in Processes : s.job[e].cmd = "edit" =>
         /\ s.job[e].config \in DOMAIN s.file
         /\ Spares(s.job[e].doc, used)
         /\ \A d \in Processes \ {e} :
              s.job[d].cmd = "edit" => s.job[d].config # s.job[e].config
    /\ \A p \in Processes :
         /\ Outputs(s.job[p]) \cap configs = {}
         /\ s.job[p].cmd = "get x509-svid" /\ s.job[p].out # None =>
              s.job[p].out \in Seq(Seq(STRING)) \ {<<>>}
         /\ s.job[p].cmd = "test" =>
              \A q \in Processes :
                s.job[p].bucket \in Outputs(s.job[q]) => s.job[q].cmd = "test"
    /\ \A f \in configs \cap DOMAIN s.file : Harmless(s.file[f], used)
    /\ Spares(DefaultDoc, used)
    /\ \A c \in Prefixes(DefaultConfig) : c \notin {Absent, None} /\ Harmless(c, used)

\* The configurations there are before are documents that someone wrote, and test
\* keys those that are committed.
ASSUME BeforeAssumption ==
  \A s \in Scenarios :
    /\ \A f \in ConfigPaths(s.job) \cap DOMAIN s.file :
         s.file[f].kind = "config" => s.file[f].data \in Documents(s.job)
    /\ \A p \in Processes : s.job[p].cmd = "test" =>
         Committed(s.job[p],
                   IF s.job[p].bucket \in DOMAIN s.file THEN s.file[s.job[p].bucket] ELSE Absent)

\* A part of the default configuration has none but its sockets.
ASSUME PartAssumption ==
  \A c \in Prefixes(DefaultConfig) : \A doc \in Decode(c) : Explicit(doc) \subseteq Explicit(DefaultDoc)

\* What a server says in a token is there.
ASSUME ClaimsAssumption ==
  /\ Minted \in Int /\ <<Minted>> # Unset /\ <<Minted + DefaultWorkloadJWTSVIDTTL>> # Unset
  /\ \A s \in Scenarios : \A doc \in Documents(s.job) : \A t \in DOMAIN doc.td :
       t \notin {Unset, NoSpiffeID} /\ \A r \in Processes : [by |-> r, td |-> t] # Unset

Init ==
  /\ \E s \in Scenarios : job = s.job /\ file = s.file
  /\ pc = [p \in Processes |-> "new"]
  /\ mem = [p \in Processes |-> Fresh]
  /\ before = [p \in Processes |-> {}]

Step(p) == StartupNext(p) \/ CommandNext(p) \/ TestNext(p)

Next ==
  \E p \in Processes :
    \/ Stat(p) \/ Edit(p) \/ StartCommand(p) \/ StartTest(p)
    \/ Step(p)
    \/ Prompt(p) \/ Refresh(p) \/ WebNext(p) \/ Kill(p)

Spec == Init /\ [][Next]_vars

\* A process that can take its next step does.  Nobody has to start or confirm
\* anything, and nothing that is asked over HTTP has to answer.
FairSpec == Spec /\ \A p \in Processes : WF_vars(Step(p))

-----------------------------------------------------------------------------
(* Properties.                                                             *)

Steps == {"new", "ask", "save", "load", "serving", "dial", "fetch", "write key",
          "write cert", "write bundle", "write token", "read", "roots", "keys",
          "handshake", "request", "download", "at", "save keys"}

\* Types, and: what has ended has no file open.
TypeOK ==
  /\ pc \in [Processes -> Steps \cup Outcomes]
  /\ \A p \in Processes :
       /\ before[p] \subseteq {q \in Processes : Ended(q)}
       /\ mem[p].open # None =>
            pc[p] \in {"save", "write key", "write cert", "write bundle", "write token", "save keys"}
       /\ pc[p] = "serving" => DOMAIN mem[p].config = {"Federation", "TrustDomains"}
       /\ pc[p] \in {"fetch", "write key", "write bundle"} => mem[p].source.by \in Runs

\* A get that succeeds leaves a certificate with the private key that belongs to
\* it, whatever failed or was killed before, until the next get of that file; two
\* gets at the same time may leave one half each.
PairMatches ==
  \A p \in Processes :
    /\ job[p].cmd = "get x509-svid" /\ job[p].out # None /\ pc[p] = "ok"
    /\ \A q \in Processes \ {p} :
         Began(q) /\ Outputs(job[q]) \cap Outputs(job[p]) # {} => q \in before[p]
    => LET cert == Read(job[p].out)
           key == Read(PrivateKeyFilename(job[p].out))
       IN cert.kind = "certs" /\ key.kind = "key" /\ cert.data[1] = key.data

\* g's flags make what the reader j expects.
Agree(g, j) ==
  CASE g.cmd = "get x509-svid" -> Format(g) = Format(j)
    [] g.cmd = "get jwt-svid" -> ~g.decode /\ AudiencesOf(g) \cap AudiencesOf(j) # {}
    [] OTHER -> g.type = IF j.cmd = "verify x509" THEN "x509" ELSE "jwt"

\* f was written before p began, by g, which succeeded, and by no one else.
Put(p, g, f, cmd) ==
  /\ g \in before[p] /\ pc[g] = "ok"
  /\ job[g].cmd = cmd /\ job[g].out = f /\ f # None /\ Agree(job[g], job[p])
  /\ \A h \in Processes \ {g} : f \in Outputs(job[h]) => ~Began(h)

\* The trust domains that the documents give a workload with the socket f.
Domains(f) ==
  {w.ID[1] : w \in {v \in UNION {WorkloadsOf(LoadConfig(doc)) : doc \in Documents(job)} :
                      v.SocketPath = f}}

Socket(p) == EnsureUnixSocketAddress(job[p].socket)
OneDomain(p, q) == \A t, u \in Domains(Socket(p)) \cup Domains(Socket(q)) : t = u

Supported(p) ==
  LET j == job[p] IN
  \/ /\ j.cmd = "verify x509-svid"
     /\ \E g \in before[p] : Put(p, g, j.in, "get x509-svid") /\ OneDomain(p, g)
  \/ /\ j.cmd = "verify jwt-svid" /\ j.token = None /\ j.bundle = None
     /\ \E g \in before[p] : Put(p, g, j.in, "get jwt-svid") /\ OneDomain(p, g)
  \/ /\ j.cmd = "verify jwt-svid" /\ j.token = None
     /\ j.bundle # None /\ Location(j.bundle.scheme) = "file"
     /\ \E g, b \in before[p] :
          Put(p, g, j.in, "get jwt-svid") /\ Put(p, b, j.bundle.path, "get bundle") /\ OneDomain(g, b)
  \/ /\ j.cmd = "verify x509" /\ j.leaf.scheme = ""
     /\ j.anchors = {"ca-bundle"} /\ j.caFormat = "pem"
     /\ \E g, b \in before[p] :
          Put(p, g, j.leaf.path, "get x509-svid") /\ Put(p, b, j.ca, "get bundle") /\ OneDomain(g, b)

\* What gets have written, verify accepts, against the server as against the files, if
\* the sockets they dial are of one trust domain, and for as long as no other server is
\* started: its authorities are new.
RoundTrip ==
  \A p \in Processes :
    Supported(p) /\ (\A q, r \in Runs : Began(q) /\ Began(r) => q = r)
      => pc[p] \notin {"unreadable", "rejected"}

\* "A default configuration will be used and saved": what the user has saved is
\* only replaced by a run that found no file when it began, before that.
UserConfigKept ==
  [][\A e \in Processes :
       job[e].cmd = "edit" =>
         LET f == job[e].config
             users == [kind |-> "config", data |-> job[e].doc]
         IN pc[e] = "ok" /\ file[f] = users /\ file'[f] # users =>
              \E r \in Runs : pc[r] = "save" /\ e \notin before[r]]_vars

\* A run that starts to serve serves all of one configuration, unless another that
\* writes the same one has failed or was killed, or is in the middle of it; and
\* workloads only have a socket in common that a configuration gives them.
ServesWhole ==
  [][\A r \in Runs : pc[r] = "load" /\ pc'[r] = "serving" =>
       /\ \/ mem'[r].config \in {LoadConfig(doc) : doc \in Documents(job)}
          \/ \E q \in Runs \ {r} :
               job[q].config = job[r].config /\ (pc[q] \in {"error", "dead"} \/ mem[q].open # None)
       /\ \A v, w \in WorkloadsOf(mem'[r].config) :
            v # w /\ v.SocketPath = w.SocketPath =>
              v.SocketPath \in UNION {Explicit(doc) : doc \in Documents(job)}]_vars

\* q has made a key, as a test in CI never does: it writes, or has written, the file.
Makes(q) == ~job[q].ci /\ \E i \in 1..Len(mem[q].got) : mem[q].got[i] = <<q, i>>

\* Test processes that use one file get the keys that are committed, and agree on the
\* new ones, if those that make some run alone, and none of these fails or is killed:
\* what else they find may be a part of the file.
KeysAgree ==
  \A p \in Tests :
    LET users == {q \in Tests : job[q].bucket = job[p].bucket /\ Began(q)} IN
    /\ pc[p] = "ok"
    /\ \A q \in users : job[q].ci \/ pc[q] # "dead"
    /\ \A q \in users : Makes(q) => pc[q] # "error" /\ \A t \in users : ~Met(q, t)
    => /\ \A i \in 1..Len(mem[p].got) : i <= job[p].committed => mem[p].got[i] = <<0, i>>
       /\ \A q \in users : pc[q] = "ok" =>
            \A i \in 1..Len(mem[p].got) :
              i <= Len(mem[q].got) => mem[p].got[i] = mem[q].got[i]

\* p inspects, as an SVID, and q verifies the token of one file, with keys of
\* another, and nobody writes either.
Compared(p, q) ==
  /\ job[p].cmd = "inspect jwt" /\ job[p].isSvid
  /\ job[q].cmd = "verify jwt-svid" /\ job[q].token = None /\ job[p].in = job[q].in
  /\ job[q].bundle # None /\ Location(job[q].bundle.scheme) = "file"
  /\ \A w \in Processes : Outputs(job[w]) \cap {job[p].in, job[q].bundle.path} = {}
  /\ ConfigPaths(job) \cap {job[p].in, job[q].bundle.path} = {}
  /\ Read(job[p].in).kind = "jwt"

\* What verify accepts, inspect --isSvid rejects for its headers alone: those that
\* TypIsOptional is about, or another typ, which verify does not look at.  What only
\* verify rejects has something that it alone can know: signer, audience, times.  And
\* inspect rejects nothing that a Signer makes.
InspectAgrees ==
  \A p, q \in Processes :
    Compared(p, q) =>
      LET tok == Read(job[p].in).data
          keys == {<<tok.sub, kid>> : kid \in Read(job[q].bundle.path).data}
      IN /\ pc[q] = "ok" /\ pc[p] \in {"ok", "rejected"} =>
              (pc[p] = "rejected" <=> ~HasExtraHeaders(tok) \/ tok.typ \notin {"JWT", "JOSE", Unset})
         /\ pc[p] = "ok" /\ pc[q] = "rejected" =>
              \/ ~Signed(tok, keys) \/ ~InTime(tok, Minted) \/ tok.kid = Unset
              \/ tok.aud # {} /\ AudiencesOf(job[q]) \cap tok.aud = {}
         /\ tok.sub # NoSpiffeID /\ tok.iat # Unset
            /\ tok \in SignToken(tok.sub, tok.aud \cup {""}, tok.exp, tok.kid, tok.iat[1]) =>
              pc[p] # "rejected"

\* "If the typ header is present, it must be "JWT" or "JOSE"": a token that has none,
\* and that verify accepts, inspect --isSvid does not reject.
TypIsOptional ==
  \A p, q \in Processes :
    Compared(p, q) /\ Read(job[p].in).data.typ = Unset /\ pc[q] = "ok" => pc[p] # "rejected"

\* Every command ends, server or no server, but for a request over HTTP that
\* has no time limit.
CommandsReturn ==
  \A p \in Processes :
    (Live(p) /\ job[p].cmd \in Commands) ~> (Ended(p) \/ pc[p] \in {"handshake", "request"})

=============================================================================
