------------------------------ MODULE Startup ------------------------------
(***************************************************************************)
(* `spiffecli run`: the configuration it finds, or writes when there is    *)
(* none, what LoadConfig makes of it, and the sockets at which the server  *)
(* then answers until it is killed.  What it does while it serves is in    *)
(* TrustDomain and Server; here a server is known by its process, as its   *)
(* authorities are made when it starts and never again.                    *)
(***************************************************************************)
EXTENDS Files, Config

CONSTANT DefaultDoc   \* what cmd/dev.toml says

DefaultConfig == [kind |-> "config", data |-> DefaultDoc]
Runs == {p \in Processes : job[p].cmd = "run"}

\* Mutant: Stat's answer is not looked at.
Stat_always(p) ==
  /\ job[p].cmd = "run"
  /\ Begin(p, "ask")
  /\ UNCHANGED file

\* os.Stat: only a file that does not exist is asked about.
Stat(p) ==
  /\ job[p].cmd = "run"
  /\ Begin(p, IF Read(job[p].config) = Absent THEN "ask" ELSE "load")
  /\ UNCHANGED file

\* The user confirms, or Run returns nil and nothing has happened.
Prompt(p) ==
  /\ Goto(p, "ask", "save", mem[p]) \/ Goto(p, "ask", "refused", mem[p])
  /\ UNCHANGED file

\* Mutant: the error of WriteFile is not returned.
WriteDefault_goesOn(p) ==
  \/ WriteFile(p, "save", job[p].config, DefaultConfig, "load")
  \/ /\ mem[p].open # None
     /\ Goto(p, "save", "load", [mem[p] EXCEPT !.open = None])
     /\ UNCHANGED file

\* MkdirAll and WriteFile: they do not look whether the file is still missing.
WriteDefault(p) == WriteFile(p, "save", job[p].config, DefaultConfig, "load")

\* A file that is empty is a document; one that is torn, but not empty, need not
\* decode.
Decode(c) ==
  CASE c.kind = "config" -> {c.data}
    [] c = Torn -> {[federation |-> 0, td |-> <<>>]}
    [] OTHER -> {}

\* Another server has the port of the federation endpoint.
PortTaken(port) ==
  port > 0 /\ \E q \in Runs : pc[q] = "serving" /\ mem[q].config.Federation = port

\* Run's server is at l, and all its sockets are as it left them.
Settle(p, config, content, l) ==
  /\ Goto(p, "load", l, [mem[p] EXCEPT !.config = config])
  /\ file' = [f \in DOMAIN file |->
                IF \E w \in WorkloadsOf(config) : w.SocketPath = f THEN content ELSE file[f]]

\* LoadConfig and the start of wlapi.Run, which takes over every socket, whoever has
\* it.  When it has nothing to wait for it returns nil at once.  When something in
\* it fails, the port for one (see Server for how), all its sockets are gone, but it
\* only returns if the federation endpoint does not keep it.
Load(p) ==
  LET c == Read(job[p].config) IN
  /\ pc[p] = "load"
  /\ \/ \E doc \in Decode(c) :
          /\ Invalid(doc) = {}
          /\ \/ /\ ~PortTaken(doc.federation)
                /\ Settle(p, LoadConfig(doc), [kind |-> "socket", data |-> p],
                          IF WorkloadsOf(LoadConfig(doc)) = {} /\ doc.federation = 0
                          THEN "ok" ELSE "serving")
             \/ Settle(p, LoadConfig(doc), Absent,
                       IF doc.federation = 0 \/ PortTaken(doc.federation)
                       THEN "error" ELSE "serving")
     \/ /\ c.kind = "config" => Invalid(c.data) # {}
        /\ Goto(p, "load", "error", mem[p])
        /\ UNCHANGED file

\* The user, or a tool of theirs, saves a configuration: the file is replaced.
Edit(p) ==
  /\ job[p].cmd = "edit"
  /\ Begin(p, "ok")
  /\ file' = [file EXCEPT ![job[p].config] = [kind |-> "config", data |-> job[p].doc]]

\* What a client gets that dials a socket: from whom, and for which trust domain.
\* Nobody answers when the process that made the socket is gone, or was gone before.
Answers(f) ==
  LET r == Read(f).data IN
  IF Read(f).kind # "socket" \/ r \notin Runs \/ pc[r] # "serving" THEN {}
  ELSE {[by |-> r, td |-> w.ID[1]] :
          w \in {v \in WorkloadsOf(mem[r].config) : v.SocketPath = f}}

\* The trust domains that have a page at a federation endpoint.
Federated ==
  UNION {{r} \X DOMAIN mem[r].config.TrustDomains :
           r \in {q \in Runs : pc[q] = "serving" /\ mem[q].config.Federation > 0}}

StartupNext(p) == WriteDefault(p) \/ Load(p)

=============================================================================
