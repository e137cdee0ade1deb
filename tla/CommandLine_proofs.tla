------------------------- MODULE CommandLine_proofs -------------------------
(***************************************************************************)
(* What is proved of CommandLine for every scenario that is as its         *)
(* assumptions say, whoever fails or is killed at any point: the types;    *)
(* that no command replaces a configuration which a user has saved, but    *)
(* for a run that found none when it began; that a get leaves a pair; what *)
(* a server serves; which keys tests get; where inspect and verify agree;  *)
(* and that verify accepts what gets have written.                         *)
(***************************************************************************)
EXTENDS CommandLine, TLAPS

Configs == ConfigPaths(job)
Used == UsedPaths(job)

\* The steps at which a job writes a file, and what there is in a memory.
Writes == {"save", "write key", "write cert", "write bundle", "write token", "save keys"}
Fields == {"open", "source", "got", "config", "keys"}

\* Which job can be at the step k.
JobAt(j, k) ==
  /\ k \in Steps \cup Outcomes
  /\ k \in {"ask", "save", "load", "serving"} => j.cmd = "run"
  /\ k = "dial" => UsesSocket(j) /\ j.cmd # "test"
  /\ k \in {"fetch", "write token"} => j.cmd = "get jwt-svid"
  /\ k \in {"write key", "write cert"} => j.cmd = "get x509-svid"
  /\ k = "write bundle" => j.cmd = "get bundle"
  /\ k \in {"write key", "write cert", "write bundle", "write token"} => j.out # None
  /\ k = "read" => j.cmd \in {"verify x509-svid", "verify x509", "verify jwt-svid", "inspect jwt"}
  /\ k \in {"roots", "handshake", "download"} => j.cmd = "verify x509"
  /\ k \in {"keys", "request"} => j.cmd \in {"verify jwt-svid", "inspect jwks"}
  /\ k \in {"at", "save keys"} => j.cmd = "test"
  /\ j.cmd = "test" => k \in {"new", "at", "save keys", "ok", "error", "dead"}
  /\ j.cmd = "edit" => k \in {"new", "ok"}

\* What a process has in memory at the step k.
MemAt(k, m) ==
  /\ DOMAIN m = Fields
  /\ k = "serving" => DOMAIN m.config = {"Federation", "TrustDomains"}
  /\ k \in {"fetch", "write key", "write bundle"} => m.source.by \in Runs

\* What is started keeps to itself, as the scenario says.
JobInv ==
  /\ \A e \in Processes : job[e].cmd = "edit" =>
       /\ job[e].config \in DOMAIN file
       /\ Spares(job[e].doc, Used)
       /\ \A d \in Processes \ {e} : job[d].cmd = "edit" => job[d].config # job[e].config
  /\ \A p \in Processes :
       /\ Outputs(job[p]) \cap Configs = {}
       /\ job[p].cmd = "get x509-svid" /\ job[p].out # None =>
            job[p].out \in Seq(Seq(STRING)) \ {<<>>}
       /\ job[p].cmd = "test" =>
            \A q \in Processes : job[p].bucket \in Outputs(job[q]) => job[q].cmd = "test"
  /\ Spares(DefaultDoc, Used)
  /\ \A c \in Prefixes(DefaultConfig) : c \notin {Absent, None} /\ Harmless(c, Used)

\* Every process is where its job can be, with what belongs there in memory.
StepInv ==
  /\ pc \in [Processes -> Steps \cup Outcomes]
  /\ DOMAIN mem = Processes /\ DOMAIN before = Processes
  /\ \A p \in Processes :
       /\ JobAt(job[p], pc[p])
       /\ MemAt(pc[p], mem[p])
       /\ pc[p] = "new" => mem[p] = Fresh
       /\ before[p] \subseteq {q \in Processes : Ended(q)}

\* A file is open at the steps that write one.
OpenInv == \A p \in Processes : mem[p].open # None => pc[p] \in Writes

\* No server takes a file that is used for a socket.
FileInv == \A f \in Configs \cap DOMAIN file : Harmless(file[f], Used)

\* What a user has saved may be replaced, but never goes, and a run that asks
\* began before.
EditInv ==
  \A e \in Processes : job[e].cmd = "edit" =>
    /\ pc[e] = "ok" => file[job[e].config] # Absent
    /\ \A r \in Processes : pc[r] \in {"ask", "save"} /\ job[r].config = job[e].config =>
         e \notin before[r]

Inv == JobInv /\ StepInv /\ OpenInv /\ FileInv /\ EditInv

\* What a step may do to the configuration of a user.
Keeps ==
  \A e \in Processes :
    job[e].cmd = "edit" =>
      LET f == job[e].config
          users == [kind |-> "config", data |-> job[e].doc]
      IN pc[e] = "ok" /\ file[f] = users /\ file'[f] # users =>
           \E r \in Runs : pc[r] = "save" /\ e \notin before[r]

\* A step leaves the configurations as they are.
Untouched == DOMAIN file' = DOMAIN file /\ \A f \in Configs \cap DOMAIN file : file'[f] = file[f]

\* A step leaves, of a configuration, something that takes no file for a socket.
Mild ==
  /\ DOMAIN file' = DOMAIN file
  /\ \A f \in Configs \cap DOMAIN file :
       Harmless(file'[f], Used) /\ (file[f] # Absent => file'[f] # Absent)

\* The files that a job is there to write, and a step that changes no other one.
Touches(j) == Outputs(j) \cup (IF j.cmd \in {"run", "edit"} THEN {j.config} ELSE {})
Own(p) == \A f \in Used \cap DOMAIN file : f \notin Touches(job[p]) => file'[f] = file[f]

\* There is a file f, and d is in it.
Contains(f, d) == f \in DOMAIN file /\ file[f] = d

\* A step of p is no step of another process, and none of one that has ended.
Frame(p) ==
  /\ job' = job /\ DOMAIN file' = DOMAIN file
  /\ \A q \in Processes \ {p} : pc'[q] = pc[q] /\ mem'[q] = mem[q] /\ before'[q] = before[q]
  /\ pc[p] \notin Outcomes /\ pc'[p] # "new"
  /\ pc[p] = "new" => mem'[p] = mem[p] /\ before'[p] = {q \in Processes : Ended(q)}
  /\ pc[p] # "new" => before'[p] = before[p]
  /\ Own(p)

-----------------------------------------------------------------------------

\* What is in a document, and in nothing.
LEMMA Decoded ==
  ASSUME NEW c
  PROVE  /\ c.kind = "config" => Decode(c) = {c.data}
         /\ c = Torn => Decode(c) = {[federation |-> 0, td |-> <<>>]}
         /\ c = Absent => Decode(c) = {}
<1>1. Torn.kind = "torn" /\ Absent.kind = "absent" /\ Torn # Absent
  BY DEF Torn, Absent
<1> QED
  BY <1>1 DEF Decode

\* The kinds tell a document, a file that is torn and one that is not there apart,
\* and none of the three is a threat to a configuration.
LEMMA Kinds ==
  /\ \A paths : Harmless(Absent, paths) /\ Harmless(Torn, paths)
  /\ Torn # Absent
  /\ \A d : [kind |-> "config", data |-> d] # Absent /\ [kind |-> "config", data |-> d] # Torn
  /\ \A d, paths : Spares(d, paths) => Harmless([kind |-> "config", data |-> d], paths)
<1>1. Torn # Absent /\ Torn.kind # "keys" /\ Absent.kind # "keys"
  BY DEF Torn, Absent
<1>2. ASSUME NEW d
      PROVE  [kind |-> "config", data |-> d] # Absent /\ [kind |-> "config", data |-> d] # Torn
  BY DEF Torn, Absent
<1>3. ASSUME NEW d, NEW paths, Spares(d, paths)
      PROVE  Harmless([kind |-> "config", data |-> d], paths)
  <2>1. SUFFICES ASSUME NEW c, c.kind = "config", c.data = d
                 PROVE  Harmless(c, paths)
    OBVIOUS
  <2> QED
    BY <1>3, <2>1, Decoded DEF Harmless
<1>4. ASSUME NEW paths PROVE Harmless(Absent, paths)
  BY <1>1, Decoded DEF Harmless
<1>5. ASSUME NEW paths PROVE Harmless(Torn, paths)
  <2>1. SUFFICES ASSUME NEW empty, empty = [federation |-> 0, td |-> <<>>]
                 PROVE  Spares(empty, paths)
    BY <1>1, Decoded DEF Harmless
  <2>2. WorkloadsOf(LoadConfig(empty)) = {}
    BY <2>1 DEF WorkloadsOf, LoadConfig
  <2> QED
    BY <2>2 DEF Spares
<1> QED
  BY <1>1, <1>2, <1>3, <1>4, <1>5

\* What was started stays as it is, as no step changes it or makes a directory.
LEMMA JobStays ==
  ASSUME JobInv, job' = job, DOMAIN file' = DOMAIN file
  PROVE  JobInv'
<1>1. Configs' = Configs /\ Used' = Used
  BY DEF Configs, Used
<1>2. \A e \in Processes : job[e].cmd = "edit" =>
        /\ job[e].config \in DOMAIN file'
        /\ Spares(job[e].doc, Used)
        /\ \A d \in Processes \ {e} : job[d].cmd = "edit" => job[d].config # job[e].config
  BY DEF JobInv
<1>3. \A p \in Processes :
        /\ Outputs(job[p]) \cap Configs = {}
        /\ job[p].cmd = "get x509-svid" /\ job[p].out # None =>
             job[p].out \in Seq(Seq(STRING)) \ {<<>>}
        /\ job[p].cmd = "test" =>
             \A q \in Processes : job[p].bucket \in Outputs(job[q]) => job[q].cmd = "test"
  BY DEF JobInv
<1>4. /\ Spares(DefaultDoc, Used)
      /\ \A c \in Prefixes(DefaultConfig) : c \notin {Absent, None} /\ Harmless(c, Used)
  BY DEF JobInv
<1> QED
  BY <1>1, <1>2, <1>3, <1>4, Zenon DEF JobInv

\* What is shown of one process, for it to go on to the step k.
LEMMA MoveInv ==
  ASSUME Inv, NEW p \in Processes, NEW l, NEW k, NEW m,
         Goto(p, l, k, m), l # "new", l \notin Outcomes, k # "new",
         JobAt(job[p], k), MemAt(k, m), m.open # None => k \in Writes,
         k \in {"ask", "save"} => l \in {"ask", "save"},
         Mild, Own(p)
  PROVE  Inv' /\ Frame(p)
<1>1. /\ job' = job /\ before' = before /\ pc[p] = l
      /\ pc' \in [Processes -> Steps \cup Outcomes] /\ DOMAIN mem' = Processes
      /\ pc'[p] = k /\ mem'[p] = m
      /\ \A q \in Processes \ {p} : pc'[q] = pc[q] /\ mem'[q] = mem[q]
  BY DEF Goto, Inv, StepInv, JobAt
<1>2. Configs' = Configs /\ Used' = Used /\ Runs' = Runs
  BY <1>1 DEF Configs, Used, Runs
<1>3. JobInv'
  BY <1>1, JobStays DEF Mild, Inv
<1>4. StepInv'
  <2>1. \A j, i, n : MemAt(i, n)' = MemAt(i, n)
    BY <1>2 DEF MemAt
  <2>2. \A q \in Processes : Ended(q) => Ended(q)'
    BY <1>1 DEF Ended
  <2>3. ASSUME NEW q \in Processes
        PROVE  /\ JobAt(job[q], pc'[q]) /\ MemAt(pc'[q], mem'[q])
               /\ pc'[q] = "new" => mem'[q] = Fresh
               /\ before[q] \subseteq {t \in Processes : Ended(t)'}
    BY <1>1, <2>2 DEF StepInv, Inv
  <2> QED
    BY <1>1, <2>1, <2>3 DEF StepInv, Inv
<1>5. OpenInv'
  BY <1>1 DEF OpenInv, Inv
<1>6. FileInv'
  BY <1>1, <1>2 DEF FileInv, Mild
<1>7. EditInv'
  <2> SUFFICES ASSUME NEW e \in Processes, job[e].cmd = "edit"
               PROVE  /\ pc'[e] = "ok" => file'[job[e].config] # Absent
                      /\ \A r \in Processes :
                           pc'[r] \in {"ask", "save"} /\ job[r].config = job[e].config =>
                             e \notin before[r]
    BY <1>1 DEF EditInv
  <2>1. job[e].config \in Configs \cap DOMAIN file
    BY DEF Inv, JobInv, Configs, ConfigPaths
  <2>2. pc'[e] = pc[e]
    BY <1>1 DEF Inv, StepInv, JobAt, Outcomes
  <2> QED
    BY <1>1, <2>1, <2>2 DEF Inv, EditInv, Mild
<1>8. Frame(p)
  BY <1>1 DEF Frame, Mild
<1> QED
  BY <1>3, <1>4, <1>5, <1>6, <1>7, <1>8 DEF Inv

\* A configuration is used, and is the output of nobody.
LEMMA UsedConfigs ==
  ASSUME Inv
  PROVE  /\ Configs \subseteq Used
         /\ \A p \in Processes : Outputs(job[p]) \subseteq Used /\ Outputs(job[p]) \cap Configs = {}
         /\ \A p \in Processes : Inputs(job[p]) \subseteq Used
         /\ \A p \in Processes : job[p].cmd \in {"run", "edit"} => job[p].config \in Configs
<1>1. Configs \subseteq Used
  BY DEF Configs, Used, UsedPaths
<1>2. \A p \in Processes : Outputs(job[p]) \subseteq Used /\ Inputs(job[p]) \subseteq Used
  BY DEF Used, UsedPaths
<1>3. \A p \in Processes : Outputs(job[p]) \cap Configs = {}
  BY DEF Inv, JobInv
<1>4. \A p \in Processes : job[p].cmd \in {"run", "edit"} => job[p].config \in Configs
  BY DEF Configs, ConfigPaths
<1> QED
  BY <1>1, <1>2, <1>3, <1>4

\* A step that leaves the configurations alone breaks nothing by it.
LEMMA UntouchedKeeps ==
  ASSUME Inv, Untouched
  PROVE  Mild /\ Keeps
<1>1. Mild
  BY DEF Mild, Untouched, Inv, FileInv
<1>2. Keeps
  <2> SUFFICES ASSUME NEW e \in Processes, job[e].cmd = "edit"
               PROVE  file'[job[e].config] = file[job[e].config]
    BY DEF Keeps
  <2> QED
    BY DEF Untouched, Inv, JobInv, Configs, ConfigPaths
<1> QED
  BY <1>1, <1>2

\* A step that opens nothing and writes nothing.
LEMMA QuietInv ==
  ASSUME Inv, NEW p \in Processes, NEW l, NEW k, NEW m,
         Goto(p, l, k, m), l # "new", l \notin Outcomes, k # "new",
         JobAt(job[p], k), MemAt(k, m), m.open = None,
         k \in {"ask", "save"} => l \in {"ask", "save"},
         UNCHANGED file
  PROVE  Inv' /\ Keeps /\ Frame(p)
<1>1. Untouched /\ Own(p)
  BY DEF Untouched, Own
<1> QED
  BY <1>1, MoveInv, UntouchedKeeps

\* What the default configuration leaves, or a part of it.
LEMMA FilledConfig ==
  \A part, old : \A d \in Filled(DefaultConfig, part, old) :
    \/ d = DefaultConfig \/ d = Torn
    \/ d = old /\ old # part /\ old \in Prefixes(DefaultConfig)
<1>1. DefaultConfig.kind # "keys"
  BY DEF DefaultConfig
<1> QED
  BY <1>1 DEF Filled

\* That is, no more than a write of it may leave that runs alone.
LEMMA FilledPart ==
  ASSUME NEW part, NEW old, NEW d \in Filled(DefaultConfig, part, old)
  PROVE  d \in {Torn, DefaultConfig} \cup Prefixes(DefaultConfig)
BY FilledConfig

\* os.WriteFile, of a file that is none of a server's or by a run that has asked.
LEMMA WriteInv ==
  ASSUME Inv, NEW p \in Processes, NEW l, NEW f, NEW c, NEW k,
         WriteFile(p, l, f, c, k), JobAt(job[p], k), k # "new",
         k \notin {"ask", "save", "serving", "fetch", "write key", "write bundle"},
         l \in Writes, l # "save" => f \in Outputs(job[p]),
         l = "save" => f = job[p].config /\ c = DefaultConfig
  PROVE  Inv' /\ Keeps /\ Frame(p)
<1>1. /\ pc[p] = l /\ DOMAIN mem[p] = Fields /\ JobAt(job[p], l) /\ MemAt(l, mem[p])
  BY DEF WriteFile, Inv, StepInv, MemAt
<1>2. ASSUME NEW o PROVE LET m == [mem[p] EXCEPT !.open = o]
                         IN /\ m.open = o /\ MemAt(l, m) /\ MemAt(k, m) /\ MemAt("error", m)
  BY <1>1 DEF Fields, MemAt
<1>3. \/ UNCHANGED file
      \/ \E d \in {Torn} \cup Prefixes(c) \cup Filled(c, mem[p].open, file[f]) :
           file' = [file EXCEPT ![f] = d]
  BY Zenon DEF WriteFile
<1>4. Own(p)
  <2>1. f \in Touches(job[p])
    BY <1>1 DEF Touches, JobAt
  <2> QED
    BY <1>3, <2>1 DEF Own
<1>5. Mild /\ Keeps
  <2>1. CASE UNCHANGED file \/ f \notin Configs \cap DOMAIN file
    <3>1. Untouched
      BY <1>3, <2>1 DEF Untouched
    <3> QED
      BY <3>1, UntouchedKeeps
  <2>2. CASE ~UNCHANGED file /\ f \in Configs \cap DOMAIN file
    <3>1. l = "save" /\ f = job[p].config /\ c = DefaultConfig
      BY <2>2, UsedConfigs
    <3>2. PICK d \in {Torn} \cup Prefixes(c) \cup Filled(c, mem[p].open, file[f]) :
            file' = [file EXCEPT ![f] = d]
      BY <1>3, <2>2
    <3>3. d \in {Torn, DefaultConfig} \cup Prefixes(DefaultConfig)
      <4>1. CASE d \in {Torn} \cup Prefixes(DefaultConfig)
        BY <4>1
      <4>2. CASE d \in Filled(DefaultConfig, mem[p].open, file[f])
        BY <4>2, FilledPart
      <4> QED
        BY <3>1, <3>2, <4>1, <4>2
    <3>4. Spares(DefaultDoc, Used) /\ \A i \in Prefixes(DefaultConfig) : i # Absent /\ Harmless(i, Used)
      BY DEF Inv, JobInv
    <3>5. Harmless(d, Used) /\ d # Absent
      BY <3>3, <3>4, Kinds DEF DefaultConfig
    <3>6. Mild
      BY <3>2, <3>5, <2>2 DEF Mild, Inv, FileInv
    <3>7. Keeps
      <4> SUFFICES ASSUME NEW e \in Processes, job[e].cmd = "edit",
                          file'[job[e].config] # file[job[e].config]
                   PROVE  \E r \in Runs : pc[r] = "save" /\ e \notin before[r]
        BY DEF Keeps
      <4>1. job[e].config = f
        BY <3>2 DEF Inv, JobInv
      <4>2. pc[p] = "save" /\ p \in Runs
        BY <1>1, <3>1 DEF JobAt, Runs
      <4>3. e \notin before[p]
        BY <3>1, <4>1, <4>2 DEF Inv, EditInv
      <4> QED
        BY <4>2, <4>3
    <3> QED
      BY <3>6, <3>7
  <2> QED
    BY <2>1, <2>2
<1>6. l # "new" /\ l \notin Outcomes /\ JobAt(job[p], "error")
  BY <1>1 DEF Writes, Outcomes, JobAt
<1>7. ASSUME NEW i \in {l, k, "error"}, NEW o, Goto(p, l, i, [mem[p] EXCEPT !.open = o]),
             o # None => i = l
      PROVE  Inv' /\ Frame(p)
  <2> DEFINE m == [mem[p] EXCEPT !.open = o]
  <2>1. m.open = o /\ MemAt(i, m)
    BY <1>2, <1>7
  <2>2. JobAt(job[p], i) /\ i # "new" /\ (i \in {"ask", "save"} => l \in {"ask", "save"})
    BY <1>1, <1>6, <1>7
  <2>3. Goto(p, l, i, m)
    BY <1>7
  <2> HIDE DEF m
  <2> QED
    BY <1>4, <1>5, <1>6, <1>7, <2>1, <2>2, <2>3, MoveInv
<1>8. CASE \E d : Goto(p, l, l, [mem[p] EXCEPT !.open = d])
  BY <1>5, <1>7, <1>8
<1>9. CASE mem[p].open = None /\ Goto(p, l, "error", mem[p])
  <2>1. MemAt("error", mem[p])
    BY <1>1 DEF MemAt
  <2> QED
    BY <1>1, <1>4, <1>5, <1>6, <1>9, <2>1, MoveInv
<1> QED
  BY <1>5, <1>7, <1>8, <1>9 DEF WriteFile

\* A kill in the middle of a write leaves what is there.
LEMMA KillInv ==
  ASSUME Inv, NEW p \in Processes, Kill(p)
  PROVE  Inv' /\ Keeps /\ Frame(p)
<1>1. /\ Goto(p, pc[p], "dead", Fresh) /\ JobAt(job[p], "dead") /\ MemAt("dead", Fresh)
      /\ Fresh.open = None /\ pc[p] # "new" /\ pc[p] \notin Outcomes
  <2>1. DOMAIN Fresh = Fields
    BY DEF Fresh, Fields
  <2> QED
    BY <2>1 DEF Kill, Live, Began, Ended, Outcomes, Goto, Fresh, Inv, StepInv, JobAt, MemAt
<1>2. UNCHANGED file
  BY DEF Kill
<1> QED
  BY <1>1, <1>2, QuietInv

\* No socket of a server is a file that is used, so that a start leaves them all alone.
LEMMA LoadInv ==
  ASSUME Inv, NEW p \in Processes, Load(p)
  PROVE  Inv' /\ Keeps /\ Frame(p)
<1>1. /\ pc[p] = "load" /\ job[p].cmd = "run" /\ mem[p].open = None
      /\ DOMAIN mem[p] = Fields /\ job[p].config \in Configs
  <2>1. pc[p] = "load"
    BY DEF Load
  <2> QED
    BY <2>1, UsedConfigs DEF Inv, StepInv, MemAt, JobAt, OpenInv, Writes
<1>2. \A k \in {"ok", "serving", "error"} : JobAt(job[p], k) /\ k # "new"
  BY <1>1 DEF JobAt, Steps, Outcomes
<1>3. ASSUME NEW doc \in Decode(Read(job[p].config)), NEW content,
             NEW l \in {"ok", "serving", "error"}, Settle(p, LoadConfig(doc), content, l)
      PROVE  Inv' /\ Keeps /\ Frame(p)
  <2>1. job[p].config \in DOMAIN file
    BY Decoded DEF Read
  <2>2. Spares(doc, Used)
    BY <1>1, <2>1 DEF Read, Inv, FileInv, Harmless
  <2>3. /\ DOMAIN file' = DOMAIN file
        /\ \A f \in Used \cap DOMAIN file : file'[f] = file[f]
    BY <1>3, <2>2 DEF Settle, Spares
  <2>4. Untouched /\ Own(p)
    BY <2>3, UsedConfigs DEF Untouched, Own
  <2> DEFINE m == [mem[p] EXCEPT !.config = LoadConfig(doc)]
  <2>5. m.open = None /\ DOMAIN m = Fields /\ m.config = LoadConfig(doc)
    BY <1>1 DEF Fields
  <2>6. MemAt(l, m)
    BY <2>5 DEF MemAt, LoadConfig
  <2>7. Goto(p, "load", l, m) /\ "load" \notin Outcomes
    BY <1>3 DEF Settle, Outcomes
  <2> QED
    BY <1>1, <1>2, <2>4, <2>5, <2>6, <2>7, MoveInv, UntouchedKeeps
<1>4. CASE Goto(p, "load", "error", mem[p]) /\ UNCHANGED file
  <2>1. MemAt("error", mem[p]) /\ "load" \notin Outcomes
    BY <1>1 DEF MemAt, Outcomes
  <2> QED
    BY <1>1, <1>2, <1>4, <2>1, QuietInv
<1>5. ASSUME NEW doc \in Decode(Read(job[p].config)), NEW content, NEW A, NEW l, NEW k,
             l \in {"ok", "serving", "error"}, k \in {"ok", "serving", "error"},
             Settle(p, LoadConfig(doc), content, IF A THEN l ELSE k)
      PROVE  Inv' /\ Keeps /\ Frame(p)
  <2>1. CASE A
    BY <1>3, <1>5, <2>1
  <2>2. CASE ~A
    BY <1>3, <1>5, <2>2
  <2> QED
    BY <2>1, <2>2
<1>6. ASSUME NEW doc \in Decode(Read(job[p].config)),
             \/ Settle(p, LoadConfig(doc), [kind |-> "socket", data |-> p],
                       IF WorkloadsOf(LoadConfig(doc)) = {} /\ doc.federation = 0
                       THEN "ok" ELSE "serving")
             \/ Settle(p, LoadConfig(doc), Absent,
                       IF doc.federation = 0 \/ PortTaken(doc.federation)
                       THEN "error" ELSE "serving")
      PROVE  Inv' /\ Keeps /\ Frame(p)
  BY <1>5, <1>6
<1>7. \/ \E doc \in Decode(Read(job[p].config)) :
           \/ Settle(p, LoadConfig(doc), [kind |-> "socket", data |-> p],
                     IF WorkloadsOf(LoadConfig(doc)) = {} /\ doc.federation = 0
                     THEN "ok" ELSE "serving")
           \/ Settle(p, LoadConfig(doc), Absent,
                     IF doc.federation = 0 \/ PortTaken(doc.federation)
                     THEN "error" ELSE "serving")
      \/ Goto(p, "load", "error", mem[p]) /\ UNCHANGED file
  BY Zenon DEF Load
<1> QED
  BY <1>4, <1>6, <1>7

\* A process begins: what ended before it does not begin again.
LEMMA BeginInv ==
  ASSUME Inv, NEW p \in Processes, NEW l, Begin(p, l), JobAt(job[p], l),
         l \in {"ask", "load", "refused", "dial", "keys", "read", "at"},
         l = "ask" => Read(job[p].config) = Absent,
         job[p].cmd # "edit", UNCHANGED file
  PROVE  Inv' /\ Keeps /\ Frame(p)
<1>1. /\ job' = job /\ mem' = mem /\ pc[p] = "new"
      /\ pc' \in [Processes -> Steps \cup Outcomes] /\ DOMAIN before' = Processes
      /\ pc'[p] = l /\ before'[p] = {q \in Processes : Ended(q)}
      /\ \A q \in Processes \ {p} : pc'[q] = pc[q] /\ before'[q] = before[q]
  BY DEF Begin, Inv, StepInv, JobAt
<1>2. Configs' = Configs /\ Used' = Used /\ Runs' = Runs /\ Keeps
  BY <1>1, UntouchedKeeps DEF Configs, Used, Runs, Untouched
<1>3. JobInv' /\ FileInv'
  BY <1>1, <1>2, JobStays DEF FileInv, Inv
<1>4. StepInv'
  <2>1. \A i, n : MemAt(i, n)' = MemAt(i, n)
    BY <1>2 DEF MemAt
  <2>2. \A q \in Processes : Ended(q) => Ended(q)'
    BY <1>1 DEF Ended, Outcomes
  <2>3. MemAt(l, mem[p])
    BY <1>1 DEF MemAt, StepInv, Inv
  <2>4. ASSUME NEW q \in Processes
        PROVE  /\ JobAt(job[q], pc'[q]) /\ MemAt(pc'[q], mem[q])
               /\ pc'[q] = "new" => mem[q] = Fresh
               /\ before'[q] \subseteq {t \in Processes : Ended(t)'}
    BY <1>1, <2>2, <2>3 DEF StepInv, Inv
  <2> QED
    BY <1>1, <2>1, <2>4 DEF StepInv, Inv
<1>5. mem[p].open = None
  BY <1>1 DEF Inv, OpenInv, Writes
<1>6. OpenInv'
  BY <1>1, <1>5 DEF OpenInv, Inv
<1>7. EditInv'
  <2>1. ASSUME NEW e \in Processes, job[e].cmd = "edit", l = "ask",
               job[p].config = job[e].config
        PROVE  e \notin before'[p]
    <3>1. job[e].config \in DOMAIN file /\ file[job[e].config] = Absent
      BY <2>1 DEF Inv, JobInv, Read
    <3>2. pc[e] = "new"
      BY <2>1, <3>1 DEF Inv, StepInv, JobAt, EditInv
    <3> QED
      BY <1>1, <3>2 DEF Ended, Outcomes
  <2> QED
    BY <1>1, <2>1 DEF EditInv, Inv
<1>8. Frame(p)
  <2>1. Own(p) /\ "new" \notin Outcomes
    BY DEF Own, Outcomes
  <2> QED
    BY <1>1, <2>1 DEF Frame
<1> QED
  BY <1>2, <1>3, <1>4, <1>6, <1>7, <1>8 DEF Inv

\* A user saves a configuration.
LEMMA EditStep ==
  ASSUME Inv, NEW p \in Processes, Edit(p)
  PROVE  Inv' /\ Keeps /\ Frame(p)
<1> DEFINE f == job[p].config
<1> DEFINE users == [kind |-> "config", data |-> job[p].doc]
<1>1. /\ job' = job /\ mem' = mem /\ pc[p] = "new" /\ job[p].cmd = "edit"
      /\ pc' \in [Processes -> Steps \cup Outcomes] /\ DOMAIN before' = Processes
      /\ pc'[p] = "ok" /\ before'[p] = {q \in Processes : Ended(q)}
      /\ \A q \in Processes \ {p} : pc'[q] = pc[q] /\ before'[q] = before[q]
      /\ f \in DOMAIN file /\ file' = [file EXCEPT ![f] = users]
  BY DEF Edit, Begin, Inv, StepInv, JobInv, Outcomes
<1>2. Configs' = Configs /\ Used' = Used /\ Runs' = Runs
  BY <1>1 DEF Configs, Used, Runs
<1>3. users # Absent /\ Harmless(users, Used)
  BY <1>1, Kinds DEF Inv, JobInv
<1>4. JobInv'
  BY <1>1, JobStays DEF Inv
<1>5. StepInv'
  <2>1. \A i, n : MemAt(i, n)' = MemAt(i, n)
    BY <1>2 DEF MemAt
  <2>2. \A q \in Processes : Ended(q) => Ended(q)'
    BY <1>1 DEF Ended, Outcomes
  <2>3. JobAt(job[p], "ok") /\ MemAt("ok", mem[p])
    BY <1>1 DEF JobAt, Outcomes, MemAt, StepInv, Inv
  <2>4. ASSUME NEW q \in Processes
        PROVE  /\ JobAt(job[q], pc'[q]) /\ MemAt(pc'[q], mem[q])
               /\ pc'[q] = "new" => mem[q] = Fresh
               /\ before'[q] \subseteq {t \in Processes : Ended(t)'}
    BY <1>1, <2>2, <2>3 DEF StepInv, Inv
  <2> QED
    BY <1>1, <2>1, <2>4 DEF StepInv, Inv
<1>6. OpenInv'
  <2>1. mem[p].open = None
    BY <1>1 DEF Inv, OpenInv, Writes
  <2> QED
    BY <1>1, <2>1 DEF OpenInv, Inv
<1>7. FileInv'
  BY <1>1, <1>2, <1>3 DEF FileInv, Inv
<1>8. \A e \in Processes \ {p} : job[e].cmd = "edit" => file'[job[e].config] = file[job[e].config]
  <2>1. \A e \in Processes \ {p} :
          job[e].cmd = "edit" => job[e].config \in DOMAIN file /\ job[e].config # f
    BY <1>1 DEF Inv, JobInv
  <2> QED
    BY <1>1, <2>1
<1>9. EditInv'
  BY <1>1, <1>3, <1>8 DEF EditInv, Inv
<1>10. Keeps
  BY <1>1, <1>8 DEF Keeps
<1>11. Frame(p)
  <2>1. Own(p) /\ "new" \notin Outcomes
    BY <1>1 DEF Own, Touches, Outcomes
  <2> QED
    BY <1>1, <2>1 DEF Frame
<1> QED
  BY <1>4, <1>5, <1>6, <1>7, <1>9, <1>10, <1>11 DEF Inv

\* The other ways to begin.
LEMMA StartInv ==
  ASSUME Inv, NEW p \in Processes, Stat(p) \/ StartCommand(p) \/ StartTest(p)
  PROVE  Inv' /\ Keeps /\ Frame(p)
<1>1. CASE Stat(p)
  <2>1. JobAt(job[p], "ask") /\ JobAt(job[p], "load") /\ job[p].cmd # "edit"
    BY <1>1 DEF Stat, JobAt, Steps, Outcomes
  <2>2. CASE Read(job[p].config) = Absent
    BY <1>1, <2>1, <2>2, BeginInv DEF Stat
  <2>3. CASE Read(job[p].config) # Absent
    BY <1>1, <2>1, <2>3, BeginInv DEF Stat
  <2> QED
    BY <2>2, <2>3
<1>2. CASE StartCommand(p)
  <2> DEFINE l == IF Refuses(job[p]) THEN "refused"
                  ELSE CASE UsesSocket(job[p]) -> "dial"
                         [] job[p].cmd = "inspect jwks" -> "keys"
                         [] OTHER -> "read"
  <2>1. job[p].cmd \in Commands
    BY <1>2 DEF StartCommand
  <2>2. JobAt(job[p], l) /\ l \in {"refused", "dial", "keys", "read"}
    <3>1. CASE Refuses(job[p])
      <4>1. l = "refused"
        BY <3>1
      <4> HIDE DEF l
      <4> QED
        BY <2>1, <4>1 DEF JobAt, Outcomes, Commands
    <3>2. CASE ~Refuses(job[p]) /\ UsesSocket(job[p])
      <4>1. job[p].cmd # "inspect jwks"
        BY <3>2 DEF UsesSocket
      <4>2. l = "dial"
        BY <3>2, <4>1
      <4> HIDE DEF l
      <4> QED
        BY <2>1, <3>2, <4>2 DEF JobAt, Steps, Outcomes, Commands
    <3>3. CASE ~Refuses(job[p]) /\ ~UsesSocket(job[p]) /\ job[p].cmd = "inspect jwks"
      <4>1. l = "keys"
        BY <3>3
      <4> HIDE DEF l
      <4> QED
        BY <2>1, <3>3, <4>1 DEF JobAt, Steps, Outcomes, Commands
    <3>4. CASE ~Refuses(job[p]) /\ ~UsesSocket(job[p]) /\ job[p].cmd # "inspect jwks"
      <4>1. l = "read"
        BY <3>4
      <4> HIDE DEF l
      <4>2. job[p].cmd \in {"verify jwt-svid", "verify x509", "inspect jwt"}
        BY <2>1, <3>4 DEF Commands, UsesSocket
      <4> QED
        BY <4>1, <4>2 DEF JobAt, Steps, Outcomes
    <3> QED
      BY <3>1, <3>2, <3>3, <3>4
  <2>3. Begin(p, l) /\ UNCHANGED file
    BY <1>2, Zenon DEF StartCommand
  <2>4. job[p].cmd # "edit"
    BY <2>1 DEF Commands
  <2> HIDE DEF l
  <2> QED
    BY <2>2, <2>3, <2>4, BeginInv
<1>3. CASE StartTest(p)
  <2>1. JobAt(job[p], "at") /\ job[p].cmd # "edit"
    BY <1>3 DEF StartTest, JobAt, Steps, Outcomes
  <2> QED
    BY <1>3, <2>1, BeginInv DEF StartTest
<1> QED
  BY <1>1, <1>2, <1>3

\* At a step that writes nothing, nothing is open, whatever else is in memory.
LEMMA NothingOpen ==
  ASSUME Inv, NEW p \in Processes, pc[p] \notin Writes
  PROVE  /\ mem[p].open = None /\ DOMAIN mem[p] = Fields
         /\ \A m, v : m = [mem[p] EXCEPT !.source = v] =>
              m.open = None /\ m.source = v /\ DOMAIN m = Fields
         /\ \A m, v : m = [mem[p] EXCEPT !.got = v] => m.open = None /\ DOMAIN m = Fields
<1>1. mem[p].open = None /\ DOMAIN mem[p] = Fields
  BY DEF Inv, StepInv, MemAt, OpenInv
<1> QED
  BY <1>1 DEF Fields

\* How a command that is not at a write goes on.
LEMMA Onward ==
  ASSUME Inv, NEW p \in Processes, NEW l, NEW k, NEW m, Goto(p, l, k, m), UNCHANGED file,
         l \notin Writes, l \notin {"new", "ask"}, l \notin Outcomes,
         JobAt(job[p], k), k \notin {"new", "ask", "save", "serving"},
         \/ m = mem[p]
         \/ \E v : m = [mem[p] EXCEPT !.source = v]
         \/ \E v : m = [mem[p] EXCEPT !.got = v]
         \/ \E v, w : m = [mem[p] EXCEPT !.got = v, !.keys = w],
         k \in {"fetch", "write key", "write bundle"} => m.source.by \in Runs
  PROVE  Inv' /\ Keeps /\ Frame(p)
<1>1. pc[p] \notin Writes
  BY DEF Goto
<1>2. m.open = None /\ DOMAIN m = Fields
  <2>1. CASE m = mem[p]
    BY <1>1, <2>1, NothingOpen
  <2>2. CASE \E v : m = [mem[p] EXCEPT !.source = v]
    BY <1>1, <2>2, NothingOpen
  <2>3. CASE \E v : m = [mem[p] EXCEPT !.got = v]
    BY <1>1, <2>3, NothingOpen
  <2>4. CASE \E v, w : m = [mem[p] EXCEPT !.got = v, !.keys = w]
    <3>1. PICK v, w : m = [mem[p] EXCEPT !.got = v, !.keys = w]
      BY <2>4
    <3>2. mem[p].open = None /\ DOMAIN mem[p] = Fields
      BY <1>1, NothingOpen
    <3> QED
      BY <3>1, <3>2 DEF Fields
  <2> QED
    BY <2>1, <2>2, <2>3, <2>4
<1>3. MemAt(k, m)
  BY <1>2 DEF MemAt
<1> QED
  BY <1>2, <1>3, QuietInv

\* The steps from which nobody writes.
Plain == {"read", "roots", "keys", "handshake", "request", "download"}

\* A step of a command that only reads.
LEMMA PlainInv ==
  ASSUME Inv, NEW p \in Processes, NEW l \in Plain, NEW m, NEW k \in Plain \cup Outcomes,
         Goto(p, l, k, m), UNCHANGED file, k \in Plain => JobAt(job[p], k),
         m = mem[p] \/ (\E v : m = [mem[p] EXCEPT !.got = v])
  PROVE  Inv' /\ Keeps /\ Frame(p)
<1>1. /\ l \notin Writes /\ l \notin {"new", "ask"} /\ l \notin Outcomes
      /\ k \notin {"new", "ask", "save", "serving", "fetch", "write key", "write bundle"}
  BY DEF Plain, Outcomes, Writes
<1>2. job[p].cmd # "edit" /\ job[p].cmd # "test"
  BY <1>1 DEF Inv, StepInv, JobAt, Goto, Outcomes, Plain
<1>3. JobAt(job[p], k)
  BY <1>2 DEF JobAt, Outcomes
<1> QED
  BY <1>1, <1>3, Onward

\* verify and inspect.
LEMMA ReadersInv ==
  ASSUME Inv, NEW p \in Processes,
         \/ VerifyX509SVID(p) \/ ReadLeaf(p) \/ Handshake(p) \/ ReadRoots(p) \/ Download(p)
         \/ GetToken(p) \/ GetKeys(p) \/ HttpGet(p) \/ InspectJwt(p)
  PROVE  Inv' /\ Keeps /\ Frame(p)
<1>1. ASSUME NEW l \in Plain, NEW roots, Judge(p, l, roots), UNCHANGED file
      PROVE  Inv' /\ Keeps /\ Frame(p)
  <2> DEFINE k == IF Verify(mem[p].got, roots) THEN "ok" ELSE "rejected"
  <2>1. k \in Outcomes \ Plain
    BY DEF Outcomes, Plain
  <2>2. Goto(p, l, k, mem[p])
    BY <1>1 DEF Judge
  <2> HIDE DEF k
  <2> QED
    BY <1>1, <2>1, <2>2, PlainInv
<1>2. ASSUME NEW l \in Plain, NEW c, UseKeys(p, l, c), UNCHANGED file
      PROVE  Inv' /\ Keeps /\ Frame(p)
  <2> DEFINE k == CASE c.kind # "jwks" -> "unreadable"
                    [] c.kind = "jwks" /\ job[p].cmd = "inspect jwks" ->
                         IF c.data = {} THEN "rejected" ELSE "ok"
                    [] OTHER ->
                         IF ParseAndValidate(mem[p].got, {<<mem[p].got.sub, kid>> : kid \in c.data},
                                             AudiencesOf(job[p]), Minted)
                         THEN "ok" ELSE "rejected"
  <2>1. k \in Outcomes \ Plain
    BY DEF Outcomes, Plain
  <2>2. Goto(p, l, k, mem[p])
    BY <1>2, Zenon DEF UseKeys
  <2> HIDE DEF k
  <2> QED
    BY <1>2, <2>1, <2>2, PlainInv
<1>3. CASE VerifyX509SVID(p)
  <2> DEFINE certs == ReadCertificates(Read(job[p].in), Format(job[p]))
             k == CASE certs = <<>> -> "unreadable"
                    [] certs # <<>> /\ VerifySVID(certs, mem[p].source) -> "ok"
                    [] OTHER -> "rejected"
  <2>1. k \in Outcomes \ Plain
    BY DEF Outcomes, Plain
  <2>2. Goto(p, "read", k, mem[p]) /\ UNCHANGED file
    BY <1>3, Zenon DEF VerifyX509SVID
  <2> HIDE DEF k
  <2> QED
    BY <2>1, <2>2, PlainInv DEF Plain
<1>4. CASE ReadLeaf(p)
  <2> DEFINE certs == ReadCertificates(Read(job[p].leaf.path), Format(job[p]))
  <2>1. UNCHANGED file
    BY <1>4 DEF ReadLeaf
  <2>2. \/ Goto(p, "read", "handshake", mem[p])
        \/ Goto(p, "read", "roots", [mem[p] EXCEPT !.got = certs])
        \/ Goto(p, "read", "unreadable", mem[p])
    BY <1>4 DEF ReadLeaf
  <2>3. JobAt(job[p], "handshake") /\ JobAt(job[p], "roots")
    BY <1>4 DEF ReadLeaf, JobAt, Steps, Outcomes
  <2> HIDE DEF certs
  <2> QED
    BY <2>1, <2>2, <2>3, PlainInv DEF Plain, Outcomes
<1>5. CASE Handshake(p)
  <2>1. PICK c \in Web : LET certs == ReadCertificates(c, "pem")
                         IN IF certs # <<>> /\ ExtractLeaf(certs) # 0
                            THEN Goto(p, "handshake", "roots", [mem[p] EXCEPT !.got = certs])
                            ELSE Goto(p, "handshake", "unreadable", mem[p])
    BY <1>5 DEF Handshake
  <2>2. UNCHANGED file
    BY <1>5 DEF Handshake
  <2>3. JobAt(job[p], "roots")
    BY <1>5 DEF Handshake, Inv, StepInv, JobAt, Steps, Outcomes
  <2> QED
    BY <2>1, <2>2, <2>3, PlainInv DEF Plain, Outcomes
<1>6. CASE ReadRoots(p)
  <2>1. /\ UNCHANGED file
        /\ \/ Goto(p, "roots", "download", mem[p])
           \/ \E roots : Judge(p, "roots", roots)
           \/ Goto(p, "roots", "unreadable", mem[p])
    BY <1>6 DEF ReadRoots
  <2>2. JobAt(job[p], "download")
    BY <1>6 DEF ReadRoots, Inv, StepInv, JobAt, Steps, Outcomes
  <2> QED
    <3>1. "roots" \in Plain /\ "download" \in Plain /\ "unreadable" \in Outcomes \ Plain
      BY DEF Plain, Outcomes
    <3>2. CASE \E roots : Judge(p, "roots", roots)
      BY <1>1, <2>1, <3>1, <3>2
    <3>3. CASE Goto(p, "roots", "download", mem[p]) \/ Goto(p, "roots", "unreadable", mem[p])
      BY <2>1, <2>2, <3>1, <3>3, PlainInv
    <3> QED
      BY <2>1, <3>2, <3>3
<1>7. CASE Download(p)
  <2>1. /\ UNCHANGED file
        /\ \/ \E roots : Judge(p, "download", roots)
           \/ Goto(p, "download", "unreadable", mem[p])
    BY <1>7 DEF Download
  <2> QED
    <3>1. "download" \in Plain /\ "unreadable" \in Outcomes \ Plain
      BY DEF Plain, Outcomes
    <3>2. CASE \E roots : Judge(p, "download", roots)
      BY <1>1, <2>1, <3>1, <3>2
    <3>3. CASE Goto(p, "download", "unreadable", mem[p])
      BY <2>1, <3>1, <3>3, PlainInv
    <3> QED
      BY <2>1, <3>2, <3>3
<1>8. CASE GetToken(p)
  <2>1. PICK c : /\ UNCHANGED file
                 /\ Goto(p, "read",
                         CASE c \in {Absent, Torn} -> "unreadable"
                           [] c.kind = "jwt" -> "keys"
                           [] OTHER -> "rejected",
                         [mem[p] EXCEPT !.got = IF c.kind = "jwt" THEN c.data ELSE None])
    BY <1>8, Zenon DEF GetToken
  <2> DEFINE k == CASE c \in {Absent, Torn} -> "unreadable"
                    [] c.kind = "jwt" -> "keys"
                    [] OTHER -> "rejected"
  <2>2. k \in Plain \cup Outcomes
    BY DEF Outcomes, Plain
  <2>3. Goto(p, "read", k, [mem[p] EXCEPT !.got = IF c.kind = "jwt" THEN c.data ELSE None])
    BY <2>1, Zenon
  <2>4. JobAt(job[p], "keys") /\ (k \in Plain => k = "keys")
    BY <1>8 DEF GetToken, JobAt, Steps, Outcomes, Plain
  <2> HIDE DEF k
  <2> QED
    BY <2>1, <2>2, <2>3, <2>4, PlainInv DEF Plain
<1>9. CASE GetKeys(p)
  <2> DEFINE B == ParseAndValidate(mem[p].got, {<<mem[p].source.td, mem[p].source>>},
                                   AudiencesOf(job[p]), Minted)
  <2>1. /\ UNCHANGED file
        /\ \/ Goto(p, "keys", IF B THEN "ok" ELSE "rejected", mem[p])
           \/ UseKeys(p, "keys", Read(job[p].bundle.path))
           \/ Goto(p, "keys", "request", mem[p])
    BY <1>9 DEF GetKeys
  <2> HIDE DEF B
  <2>2. JobAt(job[p], "request")
    BY <1>9 DEF GetKeys, Inv, StepInv, JobAt, Steps, Outcomes
  <2> QED
    <3>1. "keys" \in Plain /\ "request" \in Plain /\ {"ok", "rejected"} \subseteq Outcomes \ Plain
      BY DEF Plain, Outcomes
    <3>2. CASE UseKeys(p, "keys", Read(job[p].bundle.path))
      BY <1>2, <2>1, <3>1, <3>2
    <3>3. CASE \E k \in {"ok", "rejected", "request"} : Goto(p, "keys", k, mem[p])
      BY <2>1, <2>2, <3>1, <3>3, PlainInv
    <3> QED
      BY <2>1, <3>2, <3>3
<1>10. CASE HttpGet(p)
  <2>1. UNCHANGED file /\ \E c : UseKeys(p, "request", c)
    BY <1>10 DEF HttpGet
  <2> QED
    <3>1. "request" \in Plain
      BY DEF Plain
    <3> QED
      BY <1>2, <2>1, <3>1
<1>11. CASE InspectJwt(p)
  <2> DEFINE c == Read(job[p].in)
             k == IF c.kind # "jwt" \/ ~DeserializeJwt(c.data) THEN "unreadable"
                  ELSE IF job[p].isSvid /\ ~IsSvid(c.data) THEN "rejected" ELSE "ok"
  <2>1. k \in Outcomes \ Plain
    BY DEF Outcomes, Plain
  <2>2. Goto(p, "read", k, mem[p]) /\ UNCHANGED file
    BY <1>11, Zenon DEF InspectJwt
  <2> HIDE DEF k
  <2> QED
    BY <2>1, <2>2, PlainInv DEF Plain
<1> QED
  BY <1>3, <1>4, <1>5, <1>6, <1>7, <1>8, <1>9, <1>10, <1>11

\* What a get and a server do with a socket, and the end of their time.
LEMMA ClientInv ==
  ASSUME Inv, NEW p \in Processes, Dial(p) \/ Fetch(p) \/ Deadline(p) \/ Refresh(p)
  PROVE  Inv' /\ Keeps /\ Frame(p)
<1>1. CASE Dial(p)
  <2> DEFINE j == job[p]
  <2>1. PICK source :
          /\ UNCHANGED file
          /\ Goto(p, "dial",
                  CASE j.cmd = "get jwt-svid" -> "fetch"
                    [] j.cmd \in {"verify x509-svid", "verify jwt-svid"} -> "read"
                    [] OTHER -> Deliver(j, source),
                  [mem[p] EXCEPT !.source = source])
          /\ source \in Answers(EnsureUnixSocketAddress(j.socket))
    BY <1>1, Zenon DEF Dial
  <2> DEFINE k == CASE j.cmd = "get jwt-svid" -> "fetch"
                    [] j.cmd \in {"verify x509-svid", "verify jwt-svid"} -> "read"
                    [] OTHER -> Deliver(j, source)
  <2>2. pc[p] = "dial" /\ UsesSocket(j) /\ j.cmd # "test" /\ j.cmd # "edit"
    BY <1>1 DEF Dial, Inv, StepInv, JobAt, UsesSocket
  <2>3. /\ k \in {"fetch", "read", "error", "ok", "write key", "write bundle"}
        /\ k = "fetch" => j.cmd = "get jwt-svid"
        /\ k = "write key" => j.cmd = "get x509-svid" /\ j.out # None
        /\ k = "write bundle" => j.cmd = "get bundle" /\ j.out # None
        /\ k = "read" => j.cmd \in {"verify x509-svid", "verify jwt-svid"}
    <3>1. CASE j.cmd = "get jwt-svid"
      <4>1. k = "fetch"
        BY <3>1
      <4> QED
        BY <3>1, <4>1
    <3>2. CASE j.cmd \in {"verify x509-svid", "verify jwt-svid"}
      <4>1. k = "read"
        BY <3>2
      <4> HIDE DEF k
      <4> QED
        BY <3>2, <4>1
    <3>3. CASE j.cmd \in {"get x509-svid", "get bundle"}
      <4>1. k = Deliver(j, source)
        BY <3>3
      <4> HIDE DEF k
      <4> QED
        BY <3>3, <4>1 DEF Deliver
    <3> QED
      BY <2>2, <3>1, <3>2, <3>3 DEF UsesSocket
  <2>4. Goto(p, "dial", k, [mem[p] EXCEPT !.source = source])
    BY <2>1, Zenon
  <2> HIDE DEF k
  <2>5. JobAt(j, k)
    BY <2>2, <2>3 DEF JobAt, Steps, Outcomes, UsesSocket
  <2>6. k \notin {"new", "ask", "save", "serving"} /\ "dial" \notin Writes /\ "dial" \notin Outcomes
    BY <2>3 DEF Writes, Outcomes
  <2>7. [mem[p] EXCEPT !.source = source].source = source
    BY <2>2, <2>6, NothingOpen
  <2>8. source.by \in Runs
    <3>1. source \in {[by |-> Read(EnsureUnixSocketAddress(j.socket)).data, td |-> w.ID[1]] :
                        w \in {v \in WorkloadsOf(mem[Read(EnsureUnixSocketAddress(j.socket)).data].config) :
                                 v.SocketPath = EnsureUnixSocketAddress(j.socket)}}
      BY <2>1 DEF Answers
    <3>2. Read(EnsureUnixSocketAddress(j.socket)).data \in Runs
      BY <2>1 DEF Answers
    <3> QED
      BY <3>1, <3>2
  <2> DEFINE m == [mem[p] EXCEPT !.source = source]
  <2>9. m.source.by \in Runs
    BY <2>7, <2>8
  <2> HIDE DEF m
  <2>10. \E v : m = [mem[p] EXCEPT !.source = v]
    BY DEF m
  <2>11. Goto(p, "dial", k, m)
    BY <2>4 DEF m
  <2> QED
    BY <2>1, <2>5, <2>6, <2>9, <2>10, <2>11, Onward
<1>2. CASE Fetch(p)
  <2> DEFINE stop == job[p].decode \/ job[p].out = None
             m == [mem[p] EXCEPT !.got = JwtSVID(mem[p].source, CreateParams(job[p]))]
  <2>1. /\ UNCHANGED file
        /\ \/ Goto(p, "fetch", IF stop THEN "ok" ELSE "write token", m)
           \/ Goto(p, "fetch", "error", mem[p])
    BY <1>2 DEF Fetch
  <2>2. job[p].cmd = "get jwt-svid" /\ "fetch" \notin Writes /\ "fetch" \notin Outcomes
    BY <1>2 DEF Fetch, Inv, StepInv, JobAt, Writes, Outcomes
  <2>3. /\ JobAt(job[p], "ok") /\ JobAt(job[p], "error")
        /\ ~stop => JobAt(job[p], "write token")
    BY <2>2 DEF JobAt, Steps, Outcomes
  <2> HIDE DEF stop
  <2>4. CASE Goto(p, "fetch", "error", mem[p])
    BY <2>1, <2>2, <2>3, <2>4, Onward
  <2>5. CASE stop /\ Goto(p, "fetch", "ok", m)
    BY <2>1, <2>2, <2>3, <2>5, Onward
  <2>6. CASE ~stop /\ Goto(p, "fetch", "write token", m)
    BY <2>1, <2>2, <2>3, <2>6, Onward
  <2> QED
    BY <2>1, <2>4, <2>5, <2>6
<1>3. CASE Deadline(p)
  <2>1. pc[p] \in {"dial", "fetch", "download"} /\ Goto(p, pc[p], "timeout", mem[p]) /\ UNCHANGED file
    BY <1>3 DEF Deadline
  <2>2. JobAt(job[p], "timeout") /\ pc[p] \notin Writes /\ pc[p] \notin Outcomes
    BY <2>1 DEF Inv, StepInv, JobAt, Writes, Outcomes
  <2> QED
    BY <2>1, <2>2, Onward
<1>4. CASE Refresh(p)
  <2>1. /\ pc[p] \in {"read", "keys"} /\ UNCHANGED file
        /\ \E v : Goto(p, pc[p], pc[p], [mem[p] EXCEPT !.source = v])
    BY <1>4 DEF Refresh
  <2>2. JobAt(job[p], pc[p]) /\ pc[p] \notin Writes /\ pc[p] \notin Outcomes
    BY <2>1 DEF Inv, StepInv, Writes, Outcomes
  <2> QED
    BY <2>1, <2>2, Onward
<1> QED
  BY <1>1, <1>2, <1>3, <1>4

\* Everything that is written is written by what was told to.
LEMMA WritersInv ==
  ASSUME Inv, NEW p \in Processes,
         \/ WriteDefault(p) \/ WriteKey(p) \/ WriteCert(p) \/ WriteBundle(p) \/ WriteToken(p)
         \/ SaveKeys(p)
  PROVE  Inv' /\ Keeps /\ Frame(p)
<1>1. JobAt(job[p], pc[p])
  BY DEF Inv, StepInv
<1>2. CASE WriteDefault(p)
  <2>1. WriteFile(p, "save", job[p].config, DefaultConfig, "load") /\ pc[p] = "save"
    BY <1>2 DEF WriteDefault, WriteFile
  <2>2. JobAt(job[p], "load") /\ "save" \in Writes
    BY <1>1, <2>1 DEF JobAt, Writes, Steps, Outcomes
  <2> QED
    BY <2>1, <2>2, WriteInv
<1>3. CASE WriteKey(p)
  <2>1. PICK c : WriteFile(p, "write key", PrivateKeyFilename(job[p].out), c, "write cert")
    BY <1>3 DEF WriteKey
  <2>2. pc[p] = "write key" /\ job[p].cmd = "get x509-svid" /\ job[p].out # None
    BY <1>1, <2>1 DEF WriteFile, JobAt
  <2>3. PrivateKeyFilename(job[p].out) \in Outputs(job[p]) /\ "write key" \in Writes
    BY <2>2 DEF Outputs, Writes
  <2>4. JobAt(job[p], "write cert")
    BY <2>2 DEF JobAt, Steps, Outcomes
  <2> QED
    BY <2>1, <2>3, <2>4, WriteInv
<1>4. CASE WriteCert(p)
  <2>1. PICK c : WriteFile(p, "write cert", job[p].out, c, "ok")
    BY <1>4 DEF WriteCert
  <2>2. pc[p] = "write cert" /\ job[p].cmd = "get x509-svid" /\ job[p].out # None
    BY <1>1, <2>1 DEF WriteFile, JobAt
  <2>3. job[p].out \in Outputs(job[p]) /\ "write cert" \in Writes
    BY <2>2 DEF Outputs, Writes
  <2>4. JobAt(job[p], "ok")
    BY <2>2 DEF JobAt, Outcomes
  <2> QED
    BY <2>1, <2>3, <2>4, WriteInv
<1>5. CASE WriteBundle(p)
  <2>1. PICK c : WriteFile(p, "write bundle", job[p].out, c, "ok")
    BY <1>5 DEF WriteBundle
  <2>2. pc[p] = "write bundle" /\ job[p].cmd = "get bundle" /\ job[p].out # None
    BY <1>1, <2>1 DEF WriteFile, JobAt
  <2>3. job[p].out \in Outputs(job[p]) /\ "write bundle" \in Writes
    BY <2>2 DEF Outputs, Writes
  <2>4. JobAt(job[p], "ok")
    BY <2>2 DEF JobAt, Outcomes
  <2> QED
    BY <2>1, <2>3, <2>4, WriteInv
<1>6. CASE WriteToken(p)
  <2>1. PICK c : WriteFile(p, "write token", job[p].out, c, "ok")
    BY <1>6 DEF WriteToken
  <2>2. pc[p] = "write token" /\ job[p].cmd = "get jwt-svid" /\ job[p].out # None
    BY <1>1, <2>1 DEF WriteFile, JobAt
  <2>3. job[p].out \in Outputs(job[p]) /\ "write token" \in Writes
    BY <2>2 DEF Outputs, Writes
  <2>4. JobAt(job[p], "ok")
    BY <2>2 DEF JobAt, Outcomes
  <2> QED
    BY <2>1, <2>3, <2>4, WriteInv
<1>7. CASE SaveKeys(p)
  <2>1. PICK c, k : /\ k \in {"at", "ok"}
                   /\ WriteFile(p, "save keys", job[p].bucket, c, k)
    <3>1. CASE Len(mem[p].got) < job[p].wants
      BY <1>7, <3>1 DEF SaveKeys
    <3>2. CASE ~(Len(mem[p].got) < job[p].wants)
      BY <1>7, <3>2 DEF SaveKeys
    <3> QED
      BY <3>1, <3>2
  <2>2. pc[p] = "save keys" /\ job[p].cmd = "test"
    BY <1>1, <2>1 DEF WriteFile, JobAt
  <2>3. job[p].bucket \in Outputs(job[p]) /\ "save keys" \in Writes
    BY <2>2 DEF Outputs, Writes
  <2>4. JobAt(job[p], k)
    BY <2>1, <2>2 DEF JobAt, Steps, Outcomes
  <2> QED
    BY <2>1, <2>3, <2>4, WriteInv
<1> QED
  BY <1>2, <1>3, <1>4, <1>5, <1>6, <1>7

\* A test process takes a key, or makes one.
LEMMA AtInv ==
  ASSUME Inv, NEW p \in Processes, At(p)
  PROVE  Inv' /\ Keeps /\ Frame(p)
<1>1. job[p].cmd = "test" /\ "at" \notin Writes /\ "at" \notin Outcomes
  BY DEF At, Goto, Inv, StepInv, JobAt, Writes, Outcomes
<1>2. \A k \in {"at", "ok", "error", "save keys"} : JobAt(job[p], k)
  BY <1>1 DEF JobAt, Steps, Outcomes
<1>3. PICK b \in BOOLEAN :
        /\ UNCHANGED file
        /\ \/ Goto(p, "at", "error", mem[p])
           \/ \E v, w : Goto(p, "at", IF b THEN "at" ELSE "ok",
                             [mem[p] EXCEPT !.got = v, !.keys = w])
           \/ \E v, w : Goto(p, "at", "save keys", [mem[p] EXCEPT !.got = v, !.keys = w])
  <2>1. CASE Len(mem[p].got) + 1 < job[p].wants
    BY <2>1 DEF At
  <2>2. CASE ~(Len(mem[p].got) + 1 < job[p].wants)
    BY <2>2 DEF At
  <2> QED
    BY <2>1, <2>2
<1>4. CASE Goto(p, "at", "error", mem[p])
  BY <1>1, <1>2, <1>3, <1>4, Onward
<1>5. ASSUME NEW k \in {"at", "ok", "save keys"}, NEW v, NEW w,
             Goto(p, "at", k, [mem[p] EXCEPT !.got = v, !.keys = w])
      PROVE  Inv' /\ Keeps /\ Frame(p)
  BY <1>1, <1>2, <1>3, <1>5, Onward
<1> QED
  BY <1>3, <1>4, <1>5

\* The user answers.
LEMMA PromptInv ==
  ASSUME Inv, NEW p \in Processes, Prompt(p)
  PROVE  Inv' /\ Keeps /\ Frame(p)
<1>1. pc[p] = "ask" /\ job[p].cmd = "run" /\ pc[p] \notin Writes /\ pc[p] \notin Outcomes
  BY DEF Prompt, Goto, Inv, StepInv, JobAt, Writes, Outcomes
<1>2. JobAt(job[p], "save") /\ JobAt(job[p], "refused")
  BY <1>1 DEF JobAt, Steps, Outcomes
<1>3. mem[p].open = None /\ MemAt("save", mem[p]) /\ MemAt("refused", mem[p])
  BY <1>1, NothingOpen DEF MemAt
<1> QED
  BY <1>1, <1>2, <1>3, QuietInv DEF Prompt

\* The steps of one process.
StepOf(p) ==
  \/ Stat(p) \/ Edit(p) \/ StartCommand(p) \/ StartTest(p)
  \/ Step(p)
  \/ Prompt(p) \/ Refresh(p) \/ WebNext(p) \/ Kill(p)

\* Every step keeps the invariant and what a user has saved, and is one of its process.
LEMMA StepOfInv ==
  ASSUME Inv, NEW p \in Processes, StepOf(p)
  PROVE  Inv' /\ Keeps /\ Frame(p)
<1>1. CASE Stat(p) \/ StartCommand(p) \/ StartTest(p)
  BY <1>1, StartInv
<1>2. CASE Edit(p)
  BY <1>2, EditStep
<1>3. CASE Step(p)
  BY <1>3, LoadInv, WritersInv, ClientInv, ReadersInv, AtInv
     DEF Step, StartupNext, CommandNext, TestNext
<1>4. CASE WebNext(p)
  BY <1>4, ReadersInv DEF WebNext
<1>5. CASE Prompt(p) \/ Refresh(p) \/ Kill(p)
  BY <1>5, PromptInv, ClientInv, KillInv
<1> QED
  BY <1>1, <1>2, <1>3, <1>4, <1>5 DEF StepOf

\* At first nothing has begun, and the scenario keeps to ScenarioAssumption.
LEMMA InitInv ==
  ASSUME Init
  PROVE  Inv
<1>1. PICK s \in Scenarios : job = s.job /\ file = s.file
  BY DEF Init
<1>2. JobInv /\ FileInv
  <2>1. Configs = ConfigPaths(s.job) /\ Used = UsedPaths(s.job)
    BY <1>1 DEF Configs, Used
  <2> QED
    BY <1>1, <2>1, ScenarioAssumption DEF JobInv, FileInv
<1>3. StepInv
  <2>1. DOMAIN Fresh = Fields /\ "new" \in Steps
    BY DEF Fresh, Fields, Steps
  <2> QED
    BY <2>1 DEF Init, StepInv, JobAt, MemAt
<1>4. OpenInv
  BY DEF Init, OpenInv, Fresh
<1>5. EditInv
  BY DEF Init, EditInv
<1> QED
  BY <1>2, <1>3, <1>4, <1>5 DEF Inv

\* The invariant, in every behavior.
LEMMA Inductive == Spec => []Inv
<1>1. Inv /\ UNCHANGED vars => Inv'
  <2> SUFFICES ASSUME Inv, UNCHANGED vars PROVE Inv'
    OBVIOUS
  <2>1. /\ job' = job /\ pc' = pc /\ mem' = mem /\ file' = file /\ before' = before
        /\ Configs' = Configs /\ Used' = Used /\ Runs' = Runs
    BY DEF vars, Configs, Used, Runs
  <2>2. JobInv' /\ FileInv'
    BY <2>1 DEF Inv, JobInv, FileInv
  <2>3. StepInv' /\ OpenInv' /\ EditInv'
    <3>1. (\A i, n : MemAt(i, n)' = MemAt(i, n)) /\ \A q : Ended(q)' = Ended(q)
      BY <2>1 DEF MemAt, Ended
    <3>2. StepInv'
      BY <2>1, <3>1 DEF Inv, StepInv
    <3> QED
      BY <2>1, <3>2 DEF Inv, OpenInv, EditInv
  <2> QED
    BY <2>2, <2>3 DEF Inv
<1>2. Inv /\ [Next]_vars => Inv'
  BY <1>1, StepOfInv DEF Next, StepOf
<1> QED
  BY <1>2, InitInv, PTL DEF Spec

\* In every behavior: what the user has saved is only replaced by a run that
\* began before they saved it, found no file, and was told to write one.
THEOREM ConfigKept == Spec => UserConfigKept
<1>1. Inv /\ [Next]_vars => [Keeps]_vars
  BY StepOfInv DEF Next, StepOf
<1> QED
  BY <1>1, Inductive, PTL DEF Spec, UserConfigKept, Keeps

\* In every behavior: the types, and a process that has ended has no file open.
THEOREM TypeCorrect == Spec => []TypeOK
<1>1. Inv => TypeOK
  BY DEF Inv, StepInv, OpenInv, MemAt, Writes, TypeOK
<1> QED
  BY <1>1, Inductive, PTL

-----------------------------------------------------------------------------

\* Which steps a job has.
LEMMA StepsOfJobs ==
  ASSUME Inv, NEW p \in Processes, StepOf(p)
  PROVE  /\ job[p].cmd = "run" => Stat(p) \/ Prompt(p) \/ WriteDefault(p) \/ Load(p) \/ Kill(p)
         /\ job[p].cmd = "edit" => Edit(p)
         /\ job[p].cmd = "test" => StartTest(p) \/ At(p) \/ SaveKeys(p) \/ Kill(p)
         /\ job[p].cmd = "get x509-svid" =>
              \/ StartCommand(p) \/ Dial(p) \/ Deadline(p) \/ WriteKey(p) \/ WriteCert(p)
              \/ Kill(p)
         /\ job[p].cmd = "inspect jwt" => StartCommand(p) \/ InspectJwt(p) \/ Kill(p)
         /\ job[p].cmd = "verify jwt-svid" /\ ~UsesSocket(job[p]) =>
              StartCommand(p) \/ GetToken(p) \/ GetKeys(p) \/ HttpGet(p) \/ Kill(p)
         /\ job[p].cmd = "verify jwt-svid" /\ UsesSocket(job[p]) =>
              \/ StartCommand(p) \/ Dial(p) \/ Refresh(p) \/ Deadline(p)
              \/ GetToken(p) \/ GetKeys(p) \/ HttpGet(p) \/ Kill(p)
         /\ job[p].cmd = "get bundle" =>
              StartCommand(p) \/ Dial(p) \/ Deadline(p) \/ WriteBundle(p) \/ Kill(p)
         /\ job[p].cmd = "get jwt-svid" =>
              \/ StartCommand(p) \/ Dial(p) \/ Fetch(p) \/ Deadline(p) \/ WriteToken(p)
              \/ Kill(p)
         /\ job[p].cmd = "verify x509-svid" =>
              \/ StartCommand(p) \/ Dial(p) \/ Refresh(p) \/ Deadline(p) \/ VerifyX509SVID(p)
              \/ Kill(p)
         /\ job[p].cmd = "verify x509" =>
              \/ StartCommand(p) \/ ReadLeaf(p) \/ ReadRoots(p) \/ Handshake(p) \/ Download(p)
              \/ Deadline(p) \/ Kill(p)
<1> DEFINE c == job[p].cmd
<1>1. JobAt(job[p], pc[p])
  BY DEF Inv, StepInv
<1>2. Stat(p) \/ Prompt(p) \/ WriteDefault(p) \/ Load(p) => c = "run"
  BY <1>1 DEF Stat, Prompt, WriteDefault, WriteFile, Load, Goto, JobAt
<1>3. Edit(p) => c = "edit"
  BY DEF Edit
<1>4. StartTest(p) \/ At(p) \/ SaveKeys(p) => c = "test"
  BY <1>1 DEF StartTest, At, SaveKeys, WriteFile, JobAt
<1>5. StartCommand(p) => c \in Commands
  BY DEF StartCommand
<1>6. Dial(p) \/ Refresh(p) => UsesSocket(job[p]) /\ c # "test"
  BY <1>1 DEF Dial, Refresh, JobAt, UsesSocket
<1>7. Fetch(p) \/ WriteToken(p) => c = "get jwt-svid"
  BY <1>1 DEF Fetch, WriteToken, WriteFile, JobAt
<1>8. WriteKey(p) \/ WriteCert(p) => c = "get x509-svid"
  BY <1>1 DEF WriteKey, WriteCert, WriteFile, JobAt
<1>9. WriteBundle(p) => c = "get bundle"
  BY <1>1 DEF WriteBundle, WriteFile, JobAt
<1>10. Deadline(p) => (UsesSocket(job[p]) /\ c # "test") \/ c \in {"get jwt-svid", "verify x509"}
  BY <1>1 DEF Deadline, JobAt
<1>11. VerifyX509SVID(p) => c = "verify x509-svid"
  BY DEF VerifyX509SVID
<1>12. ReadLeaf(p) \/ ReadRoots(p) \/ Handshake(p) \/ Download(p) => c = "verify x509"
  BY <1>1 DEF ReadLeaf, ReadRoots, Handshake, Download, Judge, Goto, JobAt
<1>13. GetToken(p) => c = "verify jwt-svid"
  BY DEF GetToken
<1>14. GetKeys(p) \/ HttpGet(p) => c \in {"verify jwt-svid", "inspect jwks"}
  BY <1>1 DEF GetKeys, HttpGet, JobAt
<1>15. InspectJwt(p) => c = "inspect jwt"
  BY DEF InspectJwt
<1>16. Kill(p) => c # "edit"
  BY <1>1 DEF Kill, Live, Began, Ended, Outcomes, JobAt
<1>17. Refresh(p) => c \in {"verify x509-svid", "verify jwt-svid"}
  BY <1>1 DEF Refresh, UsesSocket, JobAt
<1>18. /\ "run" \notin Commands /\ "edit" \notin Commands /\ "test" \notin Commands
  BY DEF Commands
<1>19. UsesSocket(job[p]) => \/ c \in {"get x509-svid", "get bundle", "get jwt-svid", "verify x509-svid"}
                             \/ c = "verify jwt-svid"
  BY DEF UsesSocket
<1>20. \/ Stat(p) \/ Prompt(p) \/ WriteDefault(p) \/ Load(p)
       \/ Edit(p) \/ StartTest(p) \/ At(p) \/ SaveKeys(p) \/ StartCommand(p) \/ Dial(p) \/ Refresh(p)
       \/ Fetch(p) \/ WriteToken(p) \/ WriteKey(p) \/ WriteCert(p) \/ WriteBundle(p) \/ Deadline(p)
       \/ VerifyX509SVID(p) \/ ReadLeaf(p) \/ ReadRoots(p) \/ Handshake(p) \/ Download(p)
       \/ GetToken(p) \/ GetKeys(p) \/ HttpGet(p) \/ InspectJwt(p) \/ Kill(p)
  BY DEF StepOf, Step, StartupNext, CommandNext, TestNext, WebNext
<1> HIDE DEF c
<1>21. /\ c = "run" => Stat(p) \/ Prompt(p) \/ WriteDefault(p) \/ Load(p) \/ Kill(p)
       /\ c = "edit" => Edit(p)
       /\ c = "test" => StartTest(p) \/ At(p) \/ SaveKeys(p) \/ Kill(p)
  BY <1>2, <1>3, <1>4, <1>5, <1>6, <1>7, <1>8, <1>9, <1>10, <1>11, <1>12, <1>13, <1>14, <1>15,
     <1>16, <1>17, <1>18, <1>19, <1>20
<1>22. c = "get x509-svid" =>
         \/ StartCommand(p) \/ Dial(p) \/ Deadline(p) \/ WriteKey(p) \/ WriteCert(p)
         \/ Kill(p)
  BY <1>2, <1>3, <1>4, <1>7, <1>9, <1>11, <1>12, <1>13, <1>14, <1>15, <1>17, <1>20
<1>23. c = "inspect jwt" => StartCommand(p) \/ InspectJwt(p) \/ Kill(p)
  BY <1>2, <1>3, <1>4, <1>6, <1>7, <1>8, <1>9, <1>10, <1>11, <1>12, <1>13, <1>14, <1>17,
     <1>19, <1>20
<1>24. c = "verify jwt-svid" /\ ~UsesSocket(job[p]) =>
         StartCommand(p) \/ GetToken(p) \/ GetKeys(p) \/ HttpGet(p) \/ Kill(p)
  BY <1>2, <1>3, <1>4, <1>6, <1>7, <1>8, <1>9, <1>10, <1>11, <1>12, <1>15, <1>20
<1>25. c = "verify jwt-svid" /\ UsesSocket(job[p]) =>
         \/ StartCommand(p) \/ Dial(p) \/ Refresh(p) \/ Deadline(p)
         \/ GetToken(p) \/ GetKeys(p) \/ HttpGet(p) \/ Kill(p)
  BY <1>2, <1>3, <1>4, <1>7, <1>8, <1>9, <1>11, <1>12, <1>15, <1>20
<1>26. /\ c = "get bundle" =>
            StartCommand(p) \/ Dial(p) \/ Deadline(p) \/ WriteBundle(p) \/ Kill(p)
       /\ c = "get jwt-svid" =>
            \/ StartCommand(p) \/ Dial(p) \/ Fetch(p) \/ Deadline(p) \/ WriteToken(p)
            \/ Kill(p)
  BY <1>2, <1>3, <1>4, <1>7, <1>8, <1>9, <1>11, <1>12, <1>13, <1>14, <1>15, <1>17, <1>20
<1>27. /\ c = "verify x509-svid" =>
            \/ StartCommand(p) \/ Dial(p) \/ Refresh(p) \/ Deadline(p) \/ VerifyX509SVID(p)
            \/ Kill(p)
       /\ c = "verify x509" =>
            \/ StartCommand(p) \/ ReadLeaf(p) \/ ReadRoots(p) \/ Handshake(p) \/ Download(p)
            \/ Deadline(p) \/ Kill(p)
  BY <1>2, <1>3, <1>4, <1>6, <1>7, <1>8, <1>9, <1>11, <1>12, <1>13, <1>14, <1>15, <1>17, <1>19,
     <1>20
<1> QED
  BY <1>21, <1>22, <1>23, <1>24, <1>25, <1>26, <1>27 DEF c

-----------------------------------------------------------------------------
(* The pair of a get                                                       *)

\* No other process that writes a file of p's has run at the same time as p.
Alone(p) ==
  \A q \in Processes \ {p} :
    Began(q) /\ Outputs(job[q]) \cap Outputs(job[p]) # {} => q \in before[p]

\* The two files of a get, as far as it has come.
Pair(p) ==
  LET cert == job[p].out
      key == PrivateKeyFilename(cert)
      svid == X509SVID(p, mem[p].source)
  IN /\ pc[p] = "write key" /\ mem[p].open # None => Contains(key, mem[p].open)
     /\ pc[p] \in {"write cert", "ok"} => Read(key) = Key(svid)
     /\ pc[p] = "write cert" /\ mem[p].open # None => Contains(cert, mem[p].open)
     /\ pc[p] = "ok" => Read(cert) = Certs(Format(job[p]), <<svid>>)

GetInv ==
  \A p \in Processes :
    job[p].cmd = "get x509-svid" /\ job[p].out # None /\ Alone(p) => Pair(p)

\* The key is not written to the file of the certificate.
LEMMA TwoFiles ==
  ASSUME NEW path \in Seq(Seq(STRING)) \ {<<>>}
  PROVE  PrivateKeyFilename(path) # path
<1>1. 1 \in DOMAIN path /\ path[1] \in Seq(STRING)
  OBVIOUS
<1>2. PrivateKeyFilename(path)[1] = Append(path[1], "-key")
  BY <1>1 DEF PrivateKeyFilename
<1>3. Len(Append(path[1], "-key")) = Len(path[1]) + 1 /\ Len(path[1]) \in Nat
  BY <1>1
<1> QED
  BY <1>2, <1>3

\* What a write leaves that is alone with its file: a part, or all of it.
LEMMA WriteDone ==
  ASSUME NEW p \in Processes, NEW l, NEW f, NEW c, NEW k, WriteFile(p, l, f, c, k),
         DOMAIN pc = Processes, DOMAIN mem = Processes, DOMAIN mem[p] = Fields,
         mem[p].open # None => Contains(f, mem[p].open)
  PROVE  \/ /\ pc'[p] = l /\ f \in DOMAIN file
            /\ \E d : /\ file' = [file EXCEPT ![f] = d]
                      /\ mem' = [mem EXCEPT ![p] = [mem[p] EXCEPT !.open = d]]
         \/ /\ pc'[p] = k /\ f \in DOMAIN file /\ file' = [file EXCEPT ![f] = c]
            /\ mem' = [mem EXCEPT ![p] = [mem[p] EXCEPT !.open = None]]
         \/ pc'[p] = "error"
<1>1. CASE mem[p].open = None
  BY <1>1 DEF WriteFile, Goto
<1>2. CASE mem[p].open # None
  <2>1. f \in DOMAIN file /\ file[f] = mem[p].open
    BY <1>2 DEF Contains
  <2>2. Filled(c, mem[p].open, file[f]) = {c}
    BY <2>1 DEF Filled
  <2>3. CASE \E d : /\ Goto(p, l, l, [mem[p] EXCEPT !.open = d])
                    /\ file' = [file EXCEPT ![f] = d]
    BY <2>1, <2>3 DEF Goto
  <2>4. CASE Goto(p, l, k, [mem[p] EXCEPT !.open = None]) /\ file' = [file EXCEPT ![f] = c]
    BY <2>1, <2>4 DEF Goto
  <2>5. CASE \E m : Goto(p, l, "error", m)
    BY <2>5 DEF Goto
  <2> QED
    BY <1>2, <2>2, <2>3, <2>4, <2>5, Zenon DEF WriteFile
<1> QED
  BY <1>1, <1>2

\* What others do is nothing to a pair.
LEMMA PairStays ==
  ASSUME Inv, GetInv, NEW p \in Processes, NEW q \in Processes \ {p}, Frame(q),
         job[p].cmd = "get x509-svid", job[p].out # None, Alone(p)'
  PROVE  Pair(p)'
<1>1. /\ job' = job /\ pc'[p] = pc[p] /\ mem'[p] = mem[p] /\ before'[p] = before[p]
      /\ DOMAIN file' = DOMAIN file
  BY DEF Frame
<1>2. CASE pc[p] = "new"
  BY <1>1, <1>2 DEF Pair
<1>3. CASE pc[p] # "new"
  <2>1. \A t \in Processes : Began(t) => Began(t)'
    BY DEF Frame, Began
  <2>2. Alone(p)
    BY <1>1, <2>1 DEF Alone
  <2>3. Began(q)'
    BY DEF Frame, Began
  <2>4. q \notin before[p]
    BY DEF Frame, Inv, StepInv, Ended
  <2>5. Outputs(job[q]) \cap Outputs(job[p]) = {}
    BY <1>1, <2>3, <2>4 DEF Alone
  <2>6. Touches(job[q]) \cap Outputs(job[p]) = {}
    BY <2>5, UsedConfigs DEF Touches
  <2>7. \A f \in Outputs(job[p]) : f \in DOMAIN file => file'[f] = file[f]
    BY <2>6, UsedConfigs DEF Frame, Own
  <2>8. Outputs(job[p]) = {job[p].out, PrivateKeyFilename(job[p].out)}
    BY DEF Outputs
  <2>9. Pair(p)
    BY <2>2 DEF GetInv
  <2> QED
    BY <1>1, <2>7, <2>8, <2>9 DEF Pair, Read, Contains
<1> QED
  BY <1>2, <1>3

\* A get writes its pair, first the key.
LEMMA PairStep ==
  ASSUME Inv, GetInv, NEW p \in Processes, StepOf(p), Frame(p),
         job[p].cmd = "get x509-svid", job[p].out # None, Alone(p)'
  PROVE  Pair(p)'
<1> DEFINE cert == job[p].out
           key == PrivateKeyFilename(cert)
<1>1. /\ job' = job /\ DOMAIN file' = DOMAIN file /\ DOMAIN pc = Processes /\ DOMAIN mem = Processes
      /\ DOMAIN mem[p] = Fields
  BY DEF Frame, Inv, StepInv, MemAt
<1>2. cert # key
  BY TwoFiles DEF Inv, JobInv
<1>3. pc[p] # "new" => Pair(p)
  <2>1. \A t \in Processes : Began(t) => Began(t)'
    BY DEF Frame, Began
  <2>2. pc[p] # "new" => Alone(p)
    BY <1>1, <2>1 DEF Alone, Frame
  <2> QED
    BY <2>2 DEF GetInv
<1>4. CASE pc'[p] \notin {"write key", "write cert", "ok"}
  BY <1>1, <1>4 DEF Pair
<1>5. CASE WriteKey(p)
  <2>1. pc[p] = "write key" /\ (mem[p].open # None => Contains(key, mem[p].open))
    BY <1>3, <1>5 DEF WriteKey, WriteFile, Pair
  <2> DEFINE c == Key(X509SVID(p, mem[p].source))
  <2>2. \/ /\ pc'[p] = "write key" /\ key \in DOMAIN file
           /\ \E d : /\ file' = [file EXCEPT ![key] = d]
                     /\ mem' = [mem EXCEPT ![p] = [mem[p] EXCEPT !.open = d]]
        \/ /\ pc'[p] = "write cert" /\ key \in DOMAIN file /\ file' = [file EXCEPT ![key] = c]
           /\ mem' = [mem EXCEPT ![p] = [mem[p] EXCEPT !.open = None]]
        \/ pc'[p] = "error"
    BY <1>1, <1>5, <2>1, WriteDone DEF WriteKey
  <2>3. CASE /\ pc'[p] = "write key" /\ key \in DOMAIN file
             /\ \E d : /\ file' = [file EXCEPT ![key] = d]
                       /\ mem' = [mem EXCEPT ![p] = [mem[p] EXCEPT !.open = d]]
    <3>1. PICK d : /\ file' = [file EXCEPT ![key] = d]
                   /\ mem' = [mem EXCEPT ![p] = [mem[p] EXCEPT !.open = d]]
      BY <2>3
    <3>2. mem'[p].open = d /\ key \in DOMAIN file' /\ file'[key] = d
      BY <1>1, <2>3, <3>1 DEF Fields
    <3> QED
      BY <1>1, <2>3, <3>2 DEF Pair, Contains
  <2>4. CASE /\ pc'[p] = "write cert" /\ key \in DOMAIN file /\ file' = [file EXCEPT ![key] = c]
             /\ mem' = [mem EXCEPT ![p] = [mem[p] EXCEPT !.open = None]]
    <3>1. mem'[p].open = None /\ mem'[p].source = mem[p].source
      BY <1>1, <2>4 DEF Fields
    <3>2. file'[key] = c /\ key \in DOMAIN file'
      BY <1>1, <2>4
    <3> QED
      BY <1>1, <2>4, <3>1, <3>2 DEF Pair, Read
  <2>5. CASE pc'[p] = "error"
    BY <1>4, <2>5
  <2> QED
    BY <2>2, <2>3, <2>4, <2>5
<1>6. CASE WriteCert(p)
  <2>1. /\ pc[p] = "write cert" /\ (mem[p].open # None => Contains(cert, mem[p].open))
        /\ Read(key) = Key(X509SVID(p, mem[p].source))
    BY <1>3, <1>6 DEF WriteCert, WriteFile, Pair
  <2> DEFINE c == Certs(Format(job[p]), <<X509SVID(p, mem[p].source)>>)
  <2>2. \/ /\ pc'[p] = "write cert" /\ cert \in DOMAIN file
           /\ \E o : /\ file' = [file EXCEPT ![cert] = o]
                     /\ mem' = [mem EXCEPT ![p] = [mem[p] EXCEPT !.open = o]]
        \/ /\ pc'[p] = "ok" /\ cert \in DOMAIN file /\ file' = [file EXCEPT ![cert] = c]
           /\ \E o : mem' = [mem EXCEPT ![p] = [mem[p] EXCEPT !.open = o]]
        \/ pc'[p] = "error"
    BY <1>1, <1>6, <2>1, WriteDone DEF WriteCert
  <2>3. CASE pc'[p] = "error"
    BY <1>4, <2>3
  <2>4. CASE pc'[p] # "error"
    <3>1. /\ mem'[p].source = mem[p].source
          /\ pc'[p] = "write cert" => cert \in DOMAIN file /\ file' = [file EXCEPT ![cert] = mem'[p].open]
      <4>1. \A m, o : m = [mem[p] EXCEPT !.open = o] => m.source = mem[p].source /\ m.open = o
        BY <1>1 DEF Fields
      <4>2. PICK m, o : /\ m = [mem[p] EXCEPT !.open = o] /\ mem' = [mem EXCEPT ![p] = m]
                        /\ pc'[p] = "write cert" => cert \in DOMAIN file /\ file' = [file EXCEPT ![cert] = o]
        BY <2>2, <2>4
      <4> QED
        BY <1>1, <4>1, <4>2
    <3>2. key \in DOMAIN file => file'[key] = file[key]
      BY <1>2, <2>2, <2>4
    <3>3. Read(key)' = Key(X509SVID(p, mem'[p].source))
      BY <1>1, <2>1, <3>1, <3>2 DEF Read
    <3>4. cert \in DOMAIN file' /\ file'[cert] = IF pc'[p] = "ok" THEN c ELSE mem'[p].open
      BY <1>1, <2>2, <2>4, <3>1
    <3>5. pc'[p] \in {"write cert", "ok"}
      BY <2>2, <2>4
    <3> QED
      BY <1>1, <3>1, <3>3, <3>4, <3>5 DEF Pair, Read, Contains
  <2> QED
    BY <2>3, <2>4
<1>7. CASE Dial(p)
  <2>1. PICK source :
          Goto(p, "dial",
               CASE job[p].cmd = "get jwt-svid" -> "fetch"
                 [] job[p].cmd \in {"verify x509-svid", "verify jwt-svid"} -> "read"
                 [] OTHER -> Deliver(job[p], source),
               [mem[p] EXCEPT !.source = source])
    BY <1>7, Zenon DEF Dial
  <2>2. Goto(p, "dial", "write key", [mem[p] EXCEPT !.source = source])
    BY <2>1 DEF Deliver
  <2>3. mem'[p].open = None /\ pc'[p] = "write key"
    <3>1. pc[p] = "dial" /\ "dial" \notin Writes
      BY <2>2 DEF Goto, Writes
    <3>2. PICK m : m = [mem[p] EXCEPT !.source = source]
      OBVIOUS
    <3>3. m.open = None
      BY <3>1, <3>2, NothingOpen
    <3> QED
      BY <1>1, <2>2, <3>2, <3>3 DEF Goto
  <2> QED
    BY <1>1, <2>3 DEF Pair
<1>8. CASE StartCommand(p)
  <2>1. pc'[p] \in {"refused", "dial", "keys", "read"}
    BY <1>1, <1>8 DEF StartCommand, Begin
  <2> QED
    BY <1>4, <2>1
<1>9. CASE Deadline(p) \/ Kill(p)
  <2>1. pc'[p] \in {"timeout", "dead"}
    BY <1>1, <1>9 DEF Deadline, Goto, Kill
  <2> QED
    BY <1>4, <2>1
<1> QED
  BY <1>5, <1>6, <1>7, <1>8, <1>9, StepsOfJobs

\* A step keeps all pairs.
LEMMA GetNext ==
  ASSUME Inv, GetInv, [Next]_vars
  PROVE  GetInv'
<1>1. CASE UNCHANGED vars
  <2>1. job' = job /\ \A p : Alone(p)' = Alone(p) /\ Pair(p)' = Pair(p)
    BY <1>1 DEF vars, Alone, Began, Pair, Read, Contains
  <2> QED
    BY <2>1 DEF GetInv
<1>2. CASE Next
  <2>1. PICK q \in Processes : StepOf(q)
    BY <1>2 DEF Next, StepOf
  <2>2. Frame(q) /\ job' = job
    BY <2>1, StepOfInv DEF Frame
  <2>3. ASSUME NEW p \in Processes, job[p].cmd = "get x509-svid", job[p].out # None, Alone(p)'
        PROVE  Pair(p)'
    <3>1. CASE p = q
      BY <2>1, <2>2, <2>3, <3>1, PairStep
    <3>2. CASE p # q
      BY <2>1, <2>2, <2>3, <3>2, PairStays
    <3> QED
      BY <3>1, <3>2
  <2> QED
    BY <2>2, <2>3 DEF GetInv
<1> QED
  BY <1>1, <1>2

\* In every behavior: a get that succeeded left a certificate and the key that
\* belongs to it, and no get that failed or was killed before has a part in it.
THEOREM PairsMatch == Spec => []PairMatches
<1>1. Init => GetInv
  BY DEF Init, GetInv, Pair
<1>2. Inv /\ GetInv /\ [Next]_vars => GetInv'
  BY GetNext
<1>3. GetInv => PairMatches
  <2> SUFFICES ASSUME GetInv, NEW p \in Processes, job[p].cmd = "get x509-svid",
                      job[p].out # None, pc[p] = "ok",
                      \A q \in Processes \ {p} :
                        Began(q) /\ Outputs(job[q]) \cap Outputs(job[p]) # {} => q \in before[p]
               PROVE  LET cert == Read(job[p].out)
                          key == Read(PrivateKeyFilename(job[p].out))
                      IN cert.kind = "certs" /\ key.kind = "key" /\ cert.data[1] = key.data
    BY DEF PairMatches
  <2>1. Pair(p)
    BY DEF GetInv, Alone
  <2>2. /\ Read(PrivateKeyFilename(job[p].out)) = Key(X509SVID(p, mem[p].source))
        /\ Read(job[p].out) = Certs(Format(job[p]), <<X509SVID(p, mem[p].source)>>)
    BY <2>1 DEF Pair
  <2>3. PICK format, svid : format = Format(job[p]) /\ svid = X509SVID(p, mem[p].source)
    OBVIOUS
  <2>4. PICK cert, key : cert = Read(job[p].out) /\ key = Read(PrivateKeyFilename(job[p].out))
    OBVIOUS
  <2>5. cert = [kind |-> "certs", format |-> format, data |-> <<svid>>]
    BY <2>2, <2>3, <2>4 DEF Certs
  <2>6. key = [kind |-> "key", data |-> svid]
    BY <2>2, <2>3, <2>4 DEF Key
  <2>7. cert.kind = "certs" /\ cert.data[1] = svid /\ key.kind = "key" /\ key.data = svid
    BY <2>5, <2>6
  <2> QED
    BY <2>4, <2>7
<1> QED
  BY <1>1, <1>2, <1>3, Inductive, PTL DEF Spec

-----------------------------------------------------------------------------
(* What a server serves                                                    *)

\* All sockets that a document names, whoever wrote it.
Named == UNION {Explicit(doc) : doc \in Documents(job)}

\* The run q has left f as it is, or is in the middle of writing it.
Cuts(q, f) ==
  /\ job[q].config = f
  /\ pc[q] \in {"error", "dead"} \/ (mem[q].open # None /\ mem[q].open = file[f])

\* A configuration is a document that someone wrote, or the part of one that a run
\* has left; and the parts of others are not what a server that is alone serves.
Written(f) ==
  /\ Explicit(file[f].data) \subseteq Named
  /\ file[f].data \in Documents(job) \/ \E q \in Runs : Cuts(q, f)
Serves(r) ==
  \E doc : mem[r].config = LoadConfig(doc)
           /\ (doc \in Documents(job) \/ \E q \in Runs \ {r} : Began(q))

ServeInv ==
  /\ \A f \in Configs \cap DOMAIN file : file[f].kind = "config" => Written(f)
  /\ \A r \in Runs : pc[r] = "serving" => Serves(r)

\* What a step may start to serve.
StartsWhole ==
  \A r \in Runs : pc[r] = "load" /\ pc'[r] = "serving" =>
    /\ \/ mem'[r].config \in {LoadConfig(doc) : doc \in Documents(job)}
       \/ \E q \in Runs \ {r} :
            job[q].config = job[r].config /\ (pc[q] \in {"error", "dead"} \/ mem[q].open # None)
    /\ \A v, w \in WorkloadsOf(mem'[r].config) :
         v # w /\ v.SocketPath = w.SocketPath =>
           v.SocketPath \in UNION {Explicit(doc) : doc \in Documents(job)}

\* Two workloads of a document have two sockets, unless it names the one they have.
LEMMA OneSocketEach ==
  ASSUME NEW doc, NEW v \in WorkloadsOf(LoadConfig(doc)), NEW w \in WorkloadsOf(LoadConfig(doc)),
         v # w, v.SocketPath = w.SocketPath
  PROVE  v.SocketPath \in Explicit(doc)
<1>1. \A x \in WorkloadsOf(LoadConfig(doc)) :
        \E t \in DOMAIN doc.td : \E n \in DOMAIN doc.td[t].workload :
          x = WorkloadConfig(t, n, doc.td[t].workload[n])
  <2> SUFFICES ASSUME NEW x \in WorkloadsOf(LoadConfig(doc))
               PROVE  \E t \in DOMAIN doc.td : \E n \in DOMAIN doc.td[t].workload :
                        x = WorkloadConfig(t, n, doc.td[t].workload[n])
    OBVIOUS
  <2> DEFINE table(t) == {WorkloadConfig(t, n, doc.td[t].workload[n]) : n \in DOMAIN doc.td[t].workload}
  <2>1. /\ DOMAIN LoadConfig(doc).TrustDomains = DOMAIN doc.td
        /\ \A t \in DOMAIN doc.td : LoadConfig(doc).TrustDomains[t].Workloads = table(t)
    BY DEF LoadConfig
  <2>2. PICK t \in DOMAIN doc.td : x \in table(t)
    BY <2>1 DEF WorkloadsOf
  <2> QED
    BY <2>2
<1>2. PICK t \in DOMAIN doc.td : \E n \in DOMAIN doc.td[t].workload :
        v = WorkloadConfig(t, n, doc.td[t].workload[n])
  BY <1>1
<1>3. PICK n \in DOMAIN doc.td[t].workload : v = WorkloadConfig(t, n, doc.td[t].workload[n])
  BY <1>2
<1>4. PICK u \in DOMAIN doc.td : \E m \in DOMAIN doc.td[u].workload :
        w = WorkloadConfig(u, m, doc.td[u].workload[m])
  BY <1>1
<1>5. PICK m \in DOMAIN doc.td[u].workload : w = WorkloadConfig(u, m, doc.td[u].workload[m])
  BY <1>4
<1> DEFINE one == doc.td[t].workload[n]
           other == doc.td[u].workload[m]
<1>6. /\ v.SocketPath = Or(one.socket_path, <<>>, DefaultSocket(t, n))
      /\ w.SocketPath = Or(other.socket_path, <<>>, DefaultSocket(u, m))
  BY <1>3, <1>5 DEF WorkloadConfig
<1>7. one.socket_path \in Explicit(doc) /\ other.socket_path \in Explicit(doc)
  BY DEF Explicit
<1>8. CASE one.socket_path # <<>>
  BY <1>6, <1>7, <1>8 DEF Or
<1>9. CASE other.socket_path # <<>>
  BY <1>6, <1>7, <1>9 DEF Or
<1>10. CASE one.socket_path = <<>> /\ other.socket_path = <<>>
  <2>1. DefaultSocket(t, n) = DefaultSocket(u, m)
    BY <1>6, <1>10 DEF Or
  <2>2. t = u /\ n = m
    BY <2>1 DEF DefaultSocket
  <2> QED
    BY <1>3, <1>5, <2>2
<1> QED
  BY <1>8, <1>9, <1>10

\* What a server that starts has decoded, and that it leaves all files that are used.
LEMMA Loaded ==
  ASSUME Inv, NEW p \in Processes, Load(p)
  PROVE  /\ \A f \in Used \cap DOMAIN file : file'[f] = file[f]
         /\ pc'[p] = "serving" =>
              /\ job[p].config \in DOMAIN file /\ file[job[p].config].kind = "config"
              /\ mem'[p].config = LoadConfig(file[job[p].config].data)
<1> DEFINE c == Read(job[p].config)
<1>1. /\ pc[p] = "load" /\ job[p].config \in Configs /\ DOMAIN mem = Processes
      /\ DOMAIN pc = Processes /\ DOMAIN mem[p] = Fields
  <2>1. pc[p] = "load"
    BY DEF Load
  <2> QED
    BY <2>1, UsedConfigs DEF Inv, StepInv, MemAt, JobAt
<1>2. CASE Goto(p, "load", "error", mem[p]) /\ UNCHANGED file
  BY <1>1, <1>2 DEF Goto
<1>3. ASSUME NEW doc \in Decode(c), NEW content, NEW l, Settle(p, LoadConfig(doc), content, l),
             l = "serving" => doc.federation # 0 \/ WorkloadsOf(LoadConfig(doc)) # {}
      PROVE  /\ \A f \in Used \cap DOMAIN file : file'[f] = file[f]
             /\ pc'[p] = "serving" =>
                  /\ job[p].config \in DOMAIN file /\ file[job[p].config].kind = "config"
                  /\ mem'[p].config = LoadConfig(file[job[p].config].data)
  <2>1. job[p].config \in DOMAIN file
    BY Decoded DEF Read
  <2>2. Spares(doc, Used)
    BY <1>1, <2>1 DEF Read, Inv, FileInv, Harmless
  <2>3. \A f \in Used \cap DOMAIN file : file'[f] = file[f]
    BY <1>3, <2>2 DEF Settle, Spares
  <2>4. pc'[p] = l /\ mem'[p].config = LoadConfig(doc)
    BY <1>1, <1>3 DEF Settle, Goto, Fields
  <2>5. CASE c.kind = "config"
    BY <2>1, <2>3, <2>4, <2>5, Decoded DEF Read
  <2>6. CASE c = Torn
    <3>1. doc = [federation |-> 0, td |-> <<>>]
      BY <2>6, Decoded
    <3>2. WorkloadsOf(LoadConfig(doc)) = {} /\ doc.federation = 0
      BY <3>1 DEF WorkloadsOf, LoadConfig
    <3> QED
      BY <1>3, <2>3, <2>4, <3>2
  <2>7. c.kind = "config" \/ c = Torn
    BY DEF Decode
  <2> QED
    BY <2>5, <2>6, <2>7
<1>4. \/ \E doc \in Decode(c) :
           \/ Settle(p, LoadConfig(doc), [kind |-> "socket", data |-> p],
                     IF WorkloadsOf(LoadConfig(doc)) = {} /\ doc.federation = 0
                     THEN "ok" ELSE "serving")
           \/ Settle(p, LoadConfig(doc), Absent,
                     IF doc.federation = 0 \/ PortTaken(doc.federation)
                     THEN "error" ELSE "serving")
      \/ Goto(p, "load", "error", mem[p]) /\ UNCHANGED file
  BY Zenon DEF Load
<1>5. ASSUME NEW doc \in Decode(c)
      PROVE  /\ (IF WorkloadsOf(LoadConfig(doc)) = {} /\ doc.federation = 0
                 THEN "ok" ELSE "serving") = "serving" =>
                  doc.federation # 0 \/ WorkloadsOf(LoadConfig(doc)) # {}
             /\ (IF doc.federation = 0 \/ PortTaken(doc.federation)
                 THEN "error" ELSE "serving") = "serving" =>
                  doc.federation # 0 \/ WorkloadsOf(LoadConfig(doc)) # {}
  OBVIOUS
<1> HIDE DEF c
<1>6. CASE \E doc \in Decode(c) :
           \/ Settle(p, LoadConfig(doc), [kind |-> "socket", data |-> p],
                     IF WorkloadsOf(LoadConfig(doc)) = {} /\ doc.federation = 0
                     THEN "ok" ELSE "serving")
           \/ Settle(p, LoadConfig(doc), Absent,
                     IF doc.federation = 0 \/ PortTaken(doc.federation)
                     THEN "error" ELSE "serving")
  BY <1>3, <1>5, <1>6
<1> QED
  BY <1>2, <1>4, <1>6

\* What a run makes of its configuration: nothing that can be read, all of the default
\* one, a part that it goes on with, or what is there, which is not its own part unless
\* it fails.
LEMMA Defaulted ==
  ASSUME Inv, NEW p \in Processes, WriteDefault(p), NEW f, f = job[p].config, f \in DOMAIN file
  PROVE  \/ file'[f].kind # "config"
         \/ file'[f] = DefaultConfig
         \/ /\ file'[f] = file[f] /\ DOMAIN pc = Processes
            /\ mem[p].open = None \/ mem[p].open # file[f] \/ pc'[p] = "error"
         \/ /\ file'[f] \in Prefixes(DefaultConfig)
            /\ mem'[p].open # None /\ mem'[p].open = file'[f]
<1> DEFINE c == DefaultConfig
           open == mem[p].open
<1>1. /\ DOMAIN pc = Processes /\ DOMAIN mem = Processes /\ DOMAIN mem[p] = Fields
      /\ \A d \in Prefixes(c) : d # None
      /\ Torn.kind # "config"
  BY DEF Inv, StepInv, MemAt, JobInv, Torn
<1>2. WriteFile(p, "save", f, c, "load")
  BY DEF WriteDefault
<1>3. CASE UNCHANGED file
  <2>1. CASE open = None
    BY <1>1, <1>3, <2>1
  <2>2. CASE open # None /\ pc'[p] = "error"
    BY <1>1, <1>3, <2>2
  <2>3. CASE open # None /\ pc'[p] # "error"
    <3>1. \/ \E d \in Prefixes(c) : /\ Goto(p, "save", "save", [mem[p] EXCEPT !.open = d])
                                    /\ file' = [file EXCEPT ![f] = d]
          \/ \E d \in Filled(c, open, file[f]) : file' = [file EXCEPT ![f] = d]
          \/ Goto(p, "save", "error", [mem[p] EXCEPT !.open = None])
      BY <1>2, <2>3, Zenon DEF WriteFile
    <3>2. CASE \E d \in Prefixes(c) : /\ Goto(p, "save", "save", [mem[p] EXCEPT !.open = d])
                                      /\ file' = [file EXCEPT ![f] = d]
      BY <1>1, <3>2 DEF Goto, Fields
    <3>3. CASE \E d \in Filled(c, open, file[f]) : file' = [file EXCEPT ![f] = d]
      BY <1>1, <1>3, <3>3, FilledConfig
    <3>4. CASE Goto(p, "save", "error", [mem[p] EXCEPT !.open = None])
      BY <1>1, <2>3, <3>4 DEF Goto
    <3> QED
      BY <3>1, <3>2, <3>3, <3>4
  <2> QED
    BY <2>1, <2>2, <2>3
<1>4. CASE ~UNCHANGED file
  <2>1. \/ file' = [file EXCEPT ![f] = Torn]
        \/ \E d \in Prefixes(c) : /\ Goto(p, "save", "save", [mem[p] EXCEPT !.open = d])
                                  /\ file' = [file EXCEPT ![f] = d]
        \/ \E d \in Filled(c, open, file[f]) : file' = [file EXCEPT ![f] = d]
    BY <1>2, <1>4, Zenon DEF WriteFile
  <2>2. CASE \E d \in Prefixes(c) : /\ Goto(p, "save", "save", [mem[p] EXCEPT !.open = d])
                                    /\ file' = [file EXCEPT ![f] = d]
    BY <1>1, <2>2 DEF Goto, Fields
  <2>3. CASE \E d \in Filled(c, open, file[f]) : file' = [file EXCEPT ![f] = d]
    BY <1>1, <2>3, FilledConfig
  <2> QED
    BY <1>1, <2>1, <2>2, <2>3
<1> QED
  BY <1>3, <1>4

\* What a step makes of a configuration is one of a user's, or a run has made it.
LEMMA Configured ==
  ASSUME Inv, NEW p \in Processes, StepOf(p), Frame(p),
         NEW f \in Configs \cap DOMAIN file, file'[f] # file[f], file'[f].kind = "config"
  PROVE  \/ file'[f].data \in Documents(job)
         \/ WriteDefault(p) /\ f = job[p].config /\ p \in Runs
<1>1. job[p].cmd \in {"run", "edit"} /\ f = job[p].config
  BY UsedConfigs DEF Frame, Own, Touches
<1>2. CASE job[p].cmd = "edit"
  <2>1. Edit(p)
    BY <1>2, StepsOfJobs
  <2>2. file'[f].data = job[p].doc
    BY <1>1, <2>1 DEF Edit
  <2> QED
    BY <1>2, <2>2 DEF Documents
<1>3. CASE WriteDefault(p) /\ job[p].cmd = "run"
  BY <1>1, <1>3 DEF Runs
<1>4. CASE Stat(p) \/ Prompt(p) \/ Kill(p)
  BY <1>4 DEF Stat, Prompt, Kill
<1>5. CASE Load(p)
  BY <1>5, Loaded, UsedConfigs
<1> QED
  BY <1>1, <1>2, <1>3, <1>4, <1>5, StepsOfJobs

\* A part that stays is still the part of the same run.
LEMMA CutsStay ==
  ASSUME Inv, NEW p \in Processes, StepOf(p), Frame(p),
         NEW f \in Configs \cap DOMAIN file, file'[f] = file[f],
         NEW q \in Runs, Cuts(q, f)
  PROVE  Cuts(q, f)' \/ file'[f].kind # "config" \/ file'[f].data \in Documents(job)
<1>1. job' = job /\ q \in Processes /\ job[q].cmd = "run" /\ job[q].config = f
  BY DEF Frame, Runs, Cuts
<1>2. CASE q # p
  BY <1>1, <1>2 DEF Cuts, Frame
<1>3. CASE q = p
  <2>1. mem[p].open # None /\ mem[p].open = file[f] /\ DOMAIN pc = Processes
    BY <1>3 DEF Cuts, Frame, Outcomes, Inv, StepInv
  <2>2. pc[p] = "save"
    BY <1>1, <1>3, <2>1 DEF Inv, OpenInv, Writes, StepInv, JobAt
  <2>3. Kill(p) \/ WriteDefault(p)
    <3>1. ~Stat(p) /\ ~Prompt(p) /\ ~Load(p)
      BY <2>2 DEF Stat, Begin, Prompt, Goto, Load
    <3> QED
      BY <1>1, <1>3, <3>1, StepsOfJobs
  <2>4. CASE Kill(p)
    BY <1>1, <1>3, <2>1, <2>4 DEF Kill, Cuts
  <2>5. CASE WriteDefault(p)
    <3>1. CASE file'[f] = DefaultConfig
      BY <3>1 DEF DefaultConfig, Documents
    <3>2. CASE pc'[p] = "error" \/ (mem'[p].open # None /\ mem'[p].open = file'[f])
      BY <1>1, <1>3, <3>2 DEF Cuts
    <3> QED
      BY <1>1, <1>3, <2>1, <2>5, <3>1, <3>2, Defaulted
  <2> QED
    BY <2>3, <2>4, <2>5
<1> QED
  BY <1>2, <1>3

\* What is served is what is in the file.
LEMMA StartServe ==
  ASSUME Inv, ServeInv, NEW r \in Runs, StepOf(r), pc'[r] = "serving"
  PROVE  \E f \in Configs \cap DOMAIN file :
           /\ f = job[r].config /\ file[f].kind = "config" /\ Written(f)
           /\ mem'[r].config = LoadConfig(file[f].data) /\ mem[r].open = None
<1>1. r \in Processes /\ job[r].cmd = "run" /\ DOMAIN pc = Processes
  BY DEF Runs, Inv, StepInv
<1>2. Load(r)
  <2>1. ~Stat(r) /\ ~Prompt(r) /\ ~Kill(r)
    BY <1>1 DEF Stat, Begin, Prompt, Goto, Kill
  <2>2. ~WriteDefault(r)
    BY <1>1 DEF WriteDefault, WriteFile, Goto
  <2> QED
    BY <1>1, <2>1, <2>2, StepsOfJobs
<1>3. mem[r].open = None
  BY <1>1, <1>2 DEF Load, Inv, OpenInv, Writes
<1>4. job[r].config \in Configs
  BY <1>1, UsedConfigs
<1> QED
  BY <1>1, <1>2, <1>3, <1>4, Loaded DEF ServeInv

\* A step keeps it, and serves what it may.
LEMMA ServeNext ==
  ASSUME Inv, ServeInv, [Next]_vars
  PROVE  ServeInv' /\ [StartsWhole]_vars
<1>1. CASE UNCHANGED vars
  <2>1. /\ Configs' = Configs /\ Runs' = Runs /\ file' = file
        /\ \A f : Written(f)' = Written(f)
        /\ \A r : Serves(r)' = Serves(r) /\ pc'[r] = pc[r]
    BY <1>1 DEF vars, Configs, Runs, Written, Cuts, Named, Serves, Began
  <2> QED
    BY <1>1, <2>1 DEF ServeInv
<1>2. CASE Next
  <2>1. PICK p \in Processes : StepOf(p)
    BY <1>2 DEF Next, StepOf
  <2>2. Frame(p)
    BY <2>1, StepOfInv
  <2>3. /\ job' = job /\ Configs' = Configs /\ Runs' = Runs /\ DOMAIN file' = DOMAIN file
        /\ Documents(job') = Documents(job) /\ Named' = Named
    BY <2>2 DEF Frame, Configs, Runs, Named
  <2>4. \A q \in Runs : Began(q) => Began(q)'
    BY <2>2 DEF Frame, Began, Runs
  <2>5. ASSUME NEW f \in Configs \cap DOMAIN file, file'[f].kind = "config" PROVE Written(f)'
    <3>1. CASE file'[f].data \in Documents(job)
      BY <2>3, <3>1 DEF Written, Named
    <3>2. CASE file'[f] = file[f] /\ file'[f].data \notin Documents(job)
      <4>1. Explicit(file[f].data) \subseteq Named /\ \E q \in Runs : Cuts(q, f)
        BY <2>5, <3>2 DEF ServeInv, Written
      <4>2. \E q \in Runs : Cuts(q, f)'
        BY <2>1, <2>2, <2>5, <3>2, <4>1, CutsStay
      <4> QED
        BY <2>3, <3>2, <4>1, <4>2 DEF Written
    <3>3. CASE file'[f] # file[f] /\ file'[f].data \notin Documents(job)
      <4>1. WriteDefault(p) /\ f = job[p].config /\ p \in Runs
        BY <2>1, <2>2, <2>5, <3>3, Configured
      <4>2. file'[f] # DefaultConfig
        BY <3>3 DEF DefaultConfig, Documents
      <4>3. /\ file'[f] \in Prefixes(DefaultConfig)
            /\ mem'[p].open # None /\ mem'[p].open = file'[f]
        BY <2>5, <3>3, <4>1, <4>2, Defaulted
      <4>4. file'[f].data \in Decode(file'[f])
        BY <2>5, Decoded
      <4>5. Explicit(file'[f].data) \subseteq Explicit(DefaultDoc)
        BY <4>3, <4>4, PartAssumption
      <4>6. Explicit(DefaultDoc) \subseteq Named
        BY DEF Named, Documents
      <4>7. Cuts(p, f)'
        BY <2>3, <4>1, <4>3 DEF Cuts
      <4> QED
        BY <2>3, <4>1, <4>5, <4>6, <4>7 DEF Written
    <3> QED
      BY <3>1, <3>2, <3>3
  <2>6. ASSUME NEW r \in Runs, r = p, pc'[r] = "serving"
        PROVE  Serves(r)' /\ StartsWhole
    <3>1. PICK f \in Configs \cap DOMAIN file :
            /\ f = job[r].config /\ file[f].kind = "config" /\ Written(f)
            /\ mem'[r].config = LoadConfig(file[f].data) /\ mem[r].open = None
      BY <2>1, <2>6, StartServe
    <3>2. PICK doc : doc = file[f].data
      OBVIOUS
    <3>3. /\ mem'[r].config = LoadConfig(doc) /\ Explicit(doc) \subseteq Named
          /\ doc \in Documents(job) \/ \E q \in Runs : Cuts(q, f)
      BY <3>1, <3>2 DEF Written
    <3>4. pc[r] \notin Outcomes /\ pc \in [Processes -> Steps \cup Outcomes]
      BY <2>2, <2>6 DEF Frame, Inv, StepInv
    <3>5. ASSUME NEW q \in Runs, Cuts(q, f)
          PROVE  /\ q \in Runs \ {r} /\ Began(q)
                 /\ job[q].config = job[r].config
                 /\ pc[q] \in {"error", "dead"} \/ mem[q].open # None
      <4>1. q # r
        BY <3>1, <3>4, <3>5 DEF Cuts, Outcomes
      <4>2. pc[q] # "new"
        BY <3>5 DEF Cuts, Inv, OpenInv, Writes, Runs
      <4> QED
        BY <3>1, <3>5, <4>1, <4>2 DEF Cuts, Began
    <3>6. Serves(r)'
      BY <2>3, <2>4, <3>3, <3>5 DEF Serves
    <3>7. ASSUME NEW t \in Runs, pc[t] = "load", pc'[t] = "serving" PROVE t = r
      BY <2>2, <2>6, <3>7 DEF Frame, Runs
    <3>8. \/ mem'[r].config \in {LoadConfig(d) : d \in Documents(job)}
          \/ \E q \in Runs \ {r} :
               job[q].config = job[r].config /\ (pc[q] \in {"error", "dead"} \/ mem[q].open # None)
      BY <3>3, <3>5
    <3>9. \A v, w \in WorkloadsOf(mem'[r].config) :
            v # w /\ v.SocketPath = w.SocketPath => v.SocketPath \in Named
      BY <3>3, OneSocketEach
    <3> QED
      BY <3>6, <3>7, <3>8, <3>9 DEF StartsWhole, Named
  <2>7. ASSUME NEW r \in Runs, r # p, pc'[r] = "serving" PROVE pc[r] = "serving" /\ Serves(r)'
    <3>1. pc[r] = "serving" /\ mem'[r] = mem[r] /\ Serves(r)
      BY <2>2, <2>7 DEF ServeInv, Frame, Runs
    <3> QED
      BY <2>3, <2>4, <3>1 DEF Serves
  <2>8. ServeInv'
    BY <2>3, <2>5, <2>6, <2>7 DEF ServeInv
  <2>9. StartsWhole
    BY <2>6, <2>7 DEF StartsWhole
  <2> QED
    BY <2>8, <2>9
<1> QED
  BY <1>1, <1>2

\* What a server serves, in every behavior.
LEMMA Serving == Spec => []ServeInv
<1>1. Init => ServeInv
  <2> SUFFICES ASSUME Init PROVE ServeInv
    OBVIOUS
  <2>1. PICK s \in Scenarios : job = s.job /\ file = s.file
    BY DEF Init
  <2>2. \A f : file[f].data \in Documents(job) => Written(f)
    BY DEF Written, Named
  <2>3. \A f \in Configs \cap DOMAIN file : file[f].kind = "config" => file[f].data \in Documents(job)
    BY <2>1, BeforeAssumption DEF Configs
  <2>4. \A r \in Runs : pc[r] # "serving"
    BY DEF Init, Runs
  <2> QED
    BY <2>2, <2>3, <2>4 DEF ServeInv
<1>2. Inv /\ ServeInv /\ [Next]_vars => ServeInv'
  BY ServeNext
<1> QED
  BY <1>1, <1>2, Inductive, PTL DEF Spec

\* In every behavior: a run that starts to serve serves all of what someone wrote,
\* unless another run of that configuration has failed, was killed or is writing; and
\* two workloads only have a socket in common that a document names.
THEOREM WholeServed == Spec => ServesWhole
<1>1. Inv /\ ServeInv /\ [Next]_vars => [StartsWhole]_vars
  BY ServeNext
<1> QED
  BY <1>1, Inductive, Serving, PTL DEF Spec, ServesWhole, StartsWhole

-----------------------------------------------------------------------------
(* Where inspect and verify agree                                          *)

\* A file that is read, and that nobody writes.
Still(f) == f \in Used \ Configs /\ \A w \in Processes : f \notin Outputs(job[w])

\* What verify says of the token in a file, by the keys in another one.
Judged(p) ==
  LET tok == Read(job[p].in).data
  IN ParseAndValidate(tok, {<<tok.sub, kid>> : kid \in Read(job[p].bundle.path).data},
                      AudiencesOf(job[p]), Minted)

\* The two that are compared, and what each has said.
Inspects(p) == job[p].cmd = "inspect jwt" /\ job[p].isSvid /\ Still(job[p].in)
Inspected(p) ==
  /\ pc[p] = "ok" => IsSvid(Read(job[p].in).data)
  /\ pc[p] = "rejected" => ~IsSvid(Read(job[p].in).data)

Verifies(p) ==
  /\ job[p].cmd = "verify jwt-svid" /\ job[p].token = None
  /\ job[p].bundle # None /\ Location(job[p].bundle.scheme) = "file"
  /\ Still(job[p].in) /\ Still(job[p].bundle.path)
Verified(p) ==
  /\ pc[p] # "request"
  /\ pc[p] = "keys" => Read(job[p].in).kind = "jwt" /\ mem[p].got = Read(job[p].in).data
  /\ pc[p] = "ok" => Judged(p)
  /\ pc[p] = "rejected" /\ Read(job[p].in).kind = "jwt" => ~Judged(p)

SaidInv == \A p \in Processes : (Inspects(p) => Inspected(p)) /\ (Verifies(p) => Verified(p))

\* Such a file stays as it is.
LEMMA StillStays ==
  ASSUME Inv, NEW q \in Processes, Frame(q), NEW f, Still(f)
  PROVE  (f \in DOMAIN file' <=> f \in DOMAIN file) /\ (f \in DOMAIN file => file'[f] = file[f])
<1>1. f \notin Touches(job[q])
  BY UsedConfigs DEF Still, Touches
<1> QED
  BY <1>1 DEF Still, Frame, Own

\* The process that inspects, and its step.
LEMMA InspectStep ==
  ASSUME Inv, NEW p \in Processes, StepOf(p), Frame(p), Inspects(p)
  PROVE  Inspected(p)'
<1>1. /\ job' = job /\ DOMAIN pc = Processes /\ Read(job[p].in)' = Read(job[p].in)
  BY StillStays DEF Frame, Inv, StepInv, Inspects, Read
<1>2. CASE InspectJwt(p)
  <2> DEFINE c == Read(job[p].in)
             k == IF c.kind # "jwt" \/ ~DeserializeJwt(c.data) THEN "unreadable"
                  ELSE IF job[p].isSvid /\ ~IsSvid(c.data) THEN "rejected" ELSE "ok"
  <2>1. pc'[p] = k
    BY <1>1, <1>2 DEF InspectJwt, Goto
  <2>2. (k = "ok" => IsSvid(c.data)) /\ (k = "rejected" => ~IsSvid(c.data))
    BY DEF Inspects
  <2> HIDE DEF k
  <2> QED
    BY <1>1, <2>1, <2>2 DEF Inspected
<1>3. CASE StartCommand(p) \/ Kill(p)
  <2>1. pc'[p] \in {"refused", "dial", "keys", "read", "dead"}
    BY <1>1, <1>3 DEF StartCommand, Begin, Kill
  <2> QED
    BY <2>1 DEF Inspected
<1> QED
  BY <1>2, <1>3, StepsOfJobs DEF Inspects

\* The process that verifies, and its steps.
LEMMA VerifyStep ==
  ASSUME Inv, NEW p \in Processes, StepOf(p), Frame(p), Verifies(p), Verified(p)
  PROVE  Verified(p)'
<1>1. /\ job' = job /\ DOMAIN pc = Processes /\ DOMAIN mem = Processes /\ DOMAIN mem[p] = Fields
      /\ Read(job[p].in)' = Read(job[p].in)
      /\ Read(job[p].bundle.path)' = Read(job[p].bundle.path)
  <2>1. job' = job /\ DOMAIN pc = Processes /\ DOMAIN mem = Processes /\ DOMAIN mem[p] = Fields
    BY DEF Frame, Inv, StepInv, MemAt
  <2>2. Still(job[p].in) /\ Still(job[p].bundle.path)
    BY DEF Verifies
  <2> QED
    BY <2>1, <2>2, StillStays DEF Read
<1>2. Judged(p)' = Judged(p)
  BY <1>1 DEF Judged
<1>3. ~UsesSocket(job[p])
  BY DEF Verifies, UsesSocket
<1>4. CASE GetToken(p)
  <2> DEFINE c == Read(job[p].in)
             k == CASE c \in {Absent, Torn} -> "unreadable"
                    [] c.kind = "jwt" -> "keys"
                    [] OTHER -> "rejected"
  <2>1. Goto(p, "read", k, [mem[p] EXCEPT !.got = IF c.kind = "jwt" THEN c.data ELSE None])
    BY <1>4, Zenon DEF GetToken, Verifies
  <2>2. /\ k = "keys" => c.kind = "jwt"
        /\ k = "rejected" => c.kind # "jwt"
        /\ k \in {"unreadable", "keys", "rejected"}
    <3>1. CASE c \in {Absent, Torn}
      <4>1. k = "unreadable"
        <5>1. c.kind # "jwt"
          BY <3>1 DEF Absent, Torn
        <5> QED
          BY <3>1, <5>1
      <4> HIDE DEF k
      <4> QED
        BY <4>1
    <3>2. CASE c \notin {Absent, Torn}
      BY <3>2
    <3> QED
      BY <3>1, <3>2
  <2> HIDE DEF k
  <2>3. pc'[p] = k /\ mem'[p].got = IF c.kind = "jwt" THEN c.data ELSE None
    BY <1>1, <2>1 DEF Goto, Fields
  <2> QED
    BY <1>1, <2>2, <2>3 DEF Verified
<1>5. CASE GetKeys(p)
  <2> DEFINE c == Read(job[p].bundle.path)
             k == CASE c.kind # "jwks" -> "unreadable"
                    [] c.kind = "jwks" /\ job[p].cmd = "inspect jwks" ->
                         IF c.data = {} THEN "rejected" ELSE "ok"
                    [] OTHER ->
                         IF ParseAndValidate(mem[p].got, {<<mem[p].got.sub, kid>> : kid \in c.data},
                                             AudiencesOf(job[p]), Minted)
                         THEN "ok" ELSE "rejected"
  <2>1. pc[p] = "keys" /\ UseKeys(p, "keys", c)
    BY <1>3, <1>5 DEF GetKeys, Verifies
  <2>2. mem[p].got = Read(job[p].in).data
    BY <2>1 DEF Verified
  <2>3. Goto(p, "keys", k, mem[p])
    BY <2>1, Zenon DEF UseKeys
  <2>4. (k = "ok" => Judged(p)) /\ (k = "rejected" => ~Judged(p)) /\ k \in {"unreadable", "ok", "rejected"}
    <3>1. CASE c.kind # "jwks"
      <4>1. k = "unreadable"
        BY <3>1
      <4> HIDE DEF k
      <4> QED
        BY <4>1
    <3>2. CASE c.kind = "jwks"
      <4>1. k = IF Judged(p) THEN "ok" ELSE "rejected"
        BY <2>2, <3>2 DEF Judged, Verifies
      <4> HIDE DEF k
      <4> QED
        BY <4>1
    <3> QED
      BY <3>1, <3>2
  <2> HIDE DEF k
  <2>5. pc'[p] = k
    BY <1>1, <2>3 DEF Goto
  <2> QED
    BY <1>2, <2>4, <2>5 DEF Verified
<1>6. CASE HttpGet(p)
  BY <1>6 DEF HttpGet, Verified
<1>7. CASE StartCommand(p)
  <2>1. pc'[p] \in {"refused", "read"}
    BY <1>1, <1>3, <1>7 DEF StartCommand, Begin, Verifies
  <2> QED
    BY <2>1 DEF Verified
<1>8. CASE Kill(p)
  BY <1>1, <1>8 DEF Kill, Verified
<1> QED
  BY <1>3, <1>4, <1>5, <1>6, <1>7, <1>8, StepsOfJobs DEF Verifies

\* A step keeps what has been said.
LEMMA SaidNext ==
  ASSUME Inv, SaidInv, [Next]_vars
  PROVE  SaidInv'
<1>1. CASE UNCHANGED vars
  <2>1. /\ job' = job /\ pc' = pc /\ mem' = mem /\ file' = file /\ Configs' = Configs /\ Used' = Used
    BY <1>1 DEF vars, Configs, Used
  <2>2. \A p : /\ Inspects(p)' = Inspects(p) /\ Verifies(p)' = Verifies(p)
               /\ Inspected(p)' = Inspected(p) /\ Verified(p)' = Verified(p)
    BY <2>1 DEF Inspects, Verifies, Still, Inspected, Verified, Judged, Read
  <2> QED
    BY <2>2 DEF SaidInv
<1>2. CASE Next
  <2>1. PICK q \in Processes : StepOf(q)
    BY <1>2 DEF Next, StepOf
  <2>2. Frame(q)
    BY <2>1, StepOfInv
  <2>3. job' = job /\ Configs' = Configs /\ Used' = Used
    BY <2>2 DEF Frame, Configs, Used
  <2>4. \A p : Inspects(p)' = Inspects(p) /\ Verifies(p)' = Verifies(p)
    BY <2>3 DEF Inspects, Verifies, Still
  <2>5. ASSUME NEW p \in Processes
        PROVE  (Inspects(p) => Inspected(p)') /\ (Verifies(p) => Verified(p)')
    <3>1. (Inspects(p) => Inspected(p)) /\ (Verifies(p) => Verified(p))
      BY DEF SaidInv
    <3>2. CASE p = q
      BY <2>1, <2>2, <3>1, <3>2, InspectStep, VerifyStep
    <3>3. CASE p # q
      <4>1. pc'[p] = pc[p] /\ mem'[p] = mem[p]
        BY <2>2, <3>3 DEF Frame
      <4>2. ASSUME Inspects(p) PROVE Inspected(p)'
        <5>1. Read(job[p].in)' = Read(job[p].in)
          BY <2>2, <2>3, <4>2, StillStays DEF Inspects, Read
        <5> QED
          BY <2>3, <3>1, <4>1, <4>2, <5>1 DEF Inspected
      <4>3. ASSUME Verifies(p) PROVE Verified(p)'
        <5>1. Still(job[p].in) /\ Still(job[p].bundle.path)
          BY <4>3 DEF Verifies
        <5>2. /\ Read(job[p].in)' = Read(job[p].in)
              /\ Read(job[p].bundle.path)' = Read(job[p].bundle.path)
          BY <2>2, <2>3, <5>1, StillStays DEF Read
        <5>3. Judged(p)' = Judged(p)
          BY <2>3, <5>2 DEF Judged
        <5> QED
          BY <2>3, <3>1, <4>1, <4>3, <5>2, <5>3 DEF Verified
      <4> QED
        BY <4>2, <4>3
    <3> QED
      BY <3>2, <3>3
  <2> QED
    BY <2>4, <2>5 DEF SaidInv
<1> QED
  BY <1>1, <1>2

\* In every behavior: inspect --isSvid and verify agree on a token in a file, but
\* for what one of them does not look at or cannot know.
THEOREM InspectionAgrees == Spec => []InspectAgrees
<1>1. Init => SaidInv
  BY DEF Init, SaidInv, Inspected, Verified
<1>2. Inv /\ SaidInv /\ [Next]_vars => SaidInv'
  BY SaidNext
<1>3. Inv /\ SaidInv => InspectAgrees
  <2> SUFFICES
        ASSUME Inv, SaidInv, NEW p \in Processes, NEW q \in Processes,
               Compared(p, q)
        PROVE  LET tok == Read(job[p].in).data
                   keys == {<<tok.sub, kid>> : kid \in Read(job[q].bundle.path).data}
               IN /\ pc[q] = "ok" /\ pc[p] \in {"ok", "rejected"} =>
                       (pc[p] = "rejected" <=>
                          ~HasExtraHeaders(tok) \/ tok.typ \notin {"JWT", "JOSE", Unset})
                  /\ pc[p] = "ok" /\ pc[q] = "rejected" =>
                       \/ ~Signed(tok, keys) \/ ~InTime(tok, Minted) \/ tok.kid = Unset
                       \/ tok.aud # {} /\ AudiencesOf(job[q]) \cap tok.aud = {}
                  /\ tok.sub # NoSpiffeID /\ tok.iat # Unset
                     /\ tok \in SignToken(tok.sub, tok.aud \cup {""}, tok.exp, tok.kid, tok.iat[1]) =>
                       pc[p] # "rejected"
    BY ZenonT(40) DEF InspectAgrees
  <2> DEFINE tok == Read(job[p].in).data
             keys == {<<tok.sub, kid>> : kid \in Read(job[q].bundle.path).data}
  <2>1. {job[p].in, job[q].bundle.path} \subseteq Used
    <3>1. job[p].in \in Inputs(job[p]) /\ job[q].bundle.path \in Inputs(job[q])
      BY DEF Inputs, Compared
    <3> QED
      BY <3>1, UsedConfigs
  <2>2. Inspects(p) /\ Verifies(q)
    BY <2>1 DEF Inspects, Verifies, Still, Configs, Compared
  <2>3. /\ pc[p] = "ok" => IsSvid(tok)
        /\ pc[p] = "rejected" => ~IsSvid(tok)
    BY <2>2 DEF SaidInv, Inspected
  <2>4. /\ pc[q] = "ok" => ParseAndValidate(tok, keys, AudiencesOf(job[q]), Minted)
        /\ pc[q] = "rejected" => ~ParseAndValidate(tok, keys, AudiencesOf(job[q]), Minted)
    <3>1. Judged(q) <=> ParseAndValidate(tok, keys, AudiencesOf(job[q]), Minted)
      BY DEF Judged, Compared
    <3> QED
      BY <2>2, <3>1 DEF SaidInv, Verified, Compared
  <2> HIDE DEF tok, keys
  <2>5. ASSUME tok.sub # NoSpiffeID,
               tok \in SignToken(tok.sub, tok.aud \cup {""}, tok.exp, tok.kid, tok.iat[1])
        PROVE  IsSvid(tok)
    <3>1. PICK alg, sub, aud, exp, kid, iat :
            /\ alg \in SvidSignatureAlgorithms
            /\ tok = [alg |-> alg, typ |-> "JWT", extra |-> FALSE, kid |-> kid, sub |-> sub,
                      aud |-> aud, exp |-> exp, nbf |-> Unset, iat |-> iat, by |-> kid]
      BY <2>5 DEF SignToken
    <3>2. tok.sub # Unset /\ tok.exp # Unset /\ tok.aud # {}
      BY <2>5 DEF SignToken
    <3>3. tok.alg \in SvidSignatureAlgorithms /\ tok.typ = "JWT"
      BY <3>1
    <3>4. tok.typ # Unset
      BY <3>3, UnsetAssumption
    <3> QED
      BY <2>5, <3>2, <3>3, <3>4 DEF IsSvid, HasExtraHeaders
  <2>6. pc[q] = "ok" /\ pc[p] \in {"ok", "rejected"} =>
          (pc[p] = "rejected" <=>
             ~HasExtraHeaders(tok) \/ tok.typ \notin {"JWT", "JOSE", Unset})
    BY <2>3, <2>4 DEF IsSvid, ParseAndValidate, ValidateToken
  <2>7. pc[p] = "ok" /\ pc[q] = "rejected" =>
          \/ ~Signed(tok, keys) \/ ~InTime(tok, Minted) \/ tok.kid = Unset
          \/ tok.aud # {} /\ AudiencesOf(job[q]) \cap tok.aud = {}
    BY <2>3, <2>4 DEF IsSvid, ParseAndValidate, ValidateToken
  <2> QED
    BY <2>3, <2>5, <2>6, <2>7 DEF tok, keys
<1> QED
  BY <1>1, <1>2, <1>3, Inductive, PTL DEF Spec

-----------------------------------------------------------------------------
(* The keys that tests get                                                 *)

\* A key is a committed one, or one that a test has made.
Pairs == (Int \X Int) \cup (Processes \X Nat)

\* s has all of n committed keys, and t all of s, each at its index.
Has(s, n) == n <= Len(s) /\ \A i \in 1..n : s[i] = <<0, i>>
Leads(s, t) == Len(s) <= Len(t) /\ \A i \in 1..Len(s) : s[i] = t[i]

\* Those that share the bucket b; one of them makes its file, or has begun to; and
\* none that makes keys runs beside another, or fails, or is killed.
Users(b) == {q \in Tests : job[q].bucket = b /\ Began(q)}
Saving(b) == \E q \in Users(b) : pc[q] = "save keys"
Orderly(b) ==
  \A q \in Users(b) :
    /\ job[q].ci \/ pc[q] # "dead"
    /\ Makes(q) => pc[q] # "error" /\ \A t \in Users(b) : ~Met(q, t)

\* Who writes keys has made one.
IsSeq(s) == \E S : s \in Seq(S)
MadeOne == \A p \in Tests : IsSeq(mem[p].got) /\ (pc[p] = "save keys" => Makes(p))

\* What a test holds: keys, with those it has taken first; and what it has written.
Holds(p) ==
  /\ mem[p].keys \in Seq(Pairs) /\ mem[p].got \in Seq(Pairs) /\ Leads(mem[p].got, mem[p].keys)
  /\ pc[p] \in {"save keys", "ok"} => mem[p].keys # <<>>
  /\ pc[p] = "save keys" /\ mem[p].open # None => Contains(job[p].bucket, mem[p].open)

\* The keys that are committed are in the file, unless it is being written, and in the
\* memory of each test.
Kept(p) ==
  /\ job[p].committed \in Nat
  /\ ~Saving(job[p].bucket) =>
       /\ Read(job[p].bucket).kind = "keys" =>
            /\ Read(job[p].bucket).data \in Seq(Pairs)
            /\ Has(Read(job[p].bucket).data, job[p].committed)
       /\ Read(job[p].bucket) = Absent => job[p].committed = 0
  /\ \A q \in Tests : job[q].bucket = job[p].bucket /\ mem[q].keys # <<>> =>
       Has(mem[q].keys, job[p].committed)

KeysInv == \A p \in Tests : Orderly(job[p].bucket) => Holds(p) /\ Kept(p)

\* What is first in what is first.
LEMMA Leading ==
  ASSUME NEW t \in Seq(Pairs)
  PROVE  /\ Leads(t, t) /\ Leads(<<>>, t)
         /\ \A s \in Seq(Pairs), n \in Nat : Leads(s, t) /\ Has(s, n) => Has(t, n)
         /\ \A r, s \in Seq(Pairs) : Leads(r, s) /\ Leads(s, t) => Leads(r, t)
         /\ \A k \in Pairs : Append(t, k) \in Seq(Pairs) /\ Leads(t, Append(t, k))
<1>1. Leads(t, t) /\ Leads(<<>>, t)
  BY DEF Leads
<1>2. \A s \in Seq(Pairs), n \in Nat : Leads(s, t) /\ Has(s, n) => Has(t, n)
  BY DEF Leads, Has
<1>3. \A r, s \in Seq(Pairs) : Leads(r, s) /\ Leads(s, t) => Leads(r, t)
  BY DEF Leads
<1>4. ASSUME NEW k \in Pairs PROVE Append(t, k) \in Seq(Pairs) /\ Leads(t, Append(t, k))
  BY DEF Leads
<1> QED
  BY <1>1, <1>2, <1>3, <1>4

\* One more key: the next that there is, or one that is made.
LEMMA OneMore ==
  ASSUME NEW got \in Seq(Pairs), NEW keys \in Seq(Pairs), Leads(got, keys)
  PROVE  /\ Len(got) + 1 <= Len(keys) =>
              /\ keys # <<>> /\ Append(got, keys[Len(got) + 1]) \in Seq(Pairs)
              /\ Leads(Append(got, keys[Len(got) + 1]), keys)
         /\ ~(Len(got) + 1 <= Len(keys)) => \A k \in Pairs :
              /\ Append(got, k) \in Seq(Pairs) /\ Append(keys, k) \in Seq(Pairs)
              /\ Append(keys, k) # <<>> /\ Leads(Append(got, k), Append(keys, k))
         /\ Len(got) + 1 \in Nat
<1>1. CASE Len(got) + 1 <= Len(keys)
  <2>1. keys[Len(got) + 1] \in Pairs /\ keys # <<>>
    BY <1>1
  <2> QED
    BY <1>1, <2>1 DEF Leads
<1>2. CASE ~(Len(got) + 1 <= Len(keys))
  <2>1. Len(got) = Len(keys)
    BY <1>2 DEF Leads
  <2> SUFFICES ASSUME NEW k \in Pairs
               PROVE  /\ Append(got, k) \in Seq(Pairs) /\ Append(keys, k) \in Seq(Pairs)
                      /\ Append(keys, k) # <<>> /\ Leads(Append(got, k), Append(keys, k))
    BY <1>2
  <2>2. /\ Append(got, k) \in Seq(Pairs) /\ Append(keys, k) \in Seq(Pairs)
        /\ Append(keys, k) # <<>>
    OBVIOUS
  <2>3. Len(Append(got, k)) <= Len(Append(keys, k))
    BY <2>1
  <2>4. \A i \in 1..Len(Append(got, k)) : Append(got, k)[i] = Append(keys, k)[i]
    BY <2>1 DEF Leads
  <2> QED
    BY <2>2, <2>3, <2>4 DEF Leads
<1> QED
  BY <1>1, <1>2

\* The keys a test takes, from those it has or has found, or makes as the next one.
LEMMA Taken ==
  ASSUME Inv, NEW p \in Tests, At(p), Holds(p), Kept(p), ~Saving(job[p].bucket),
         pc'[p] # "error"
  PROVE  \E keys \in Seq(Pairs) :
           /\ \/ mem[p].keys # <<>> /\ keys = mem[p].keys
              \/ mem[p].keys = <<>> /\ Read(job[p].bucket).kind = "keys"
                 /\ keys = Read(job[p].bucket).data
              \/ mem[p].keys = <<>> /\ Read(job[p].bucket) = Absent /\ keys = <<>>
           /\ mem'[p].open = None
           /\ mem'[p].keys \in Seq(Pairs) /\ mem'[p].got \in Seq(Pairs)
           /\ Leads(mem'[p].got, mem'[p].keys) /\ Leads(keys, mem'[p].keys)
           /\ mem'[p].keys # <<>>
           /\ \/ pc'[p] \in {"at", "ok"} /\ mem'[p].keys = keys
              \/ pc'[p] = "save keys"
<1> DEFINE c == Read(job[p].bucket)
           keys == LoadKeys(p)
           got == mem[p].got
           n == Len(got) + 1
<1>1. /\ pc[p] = "at" /\ p \in Processes /\ DOMAIN pc = Processes /\ DOMAIN mem = Processes
      /\ mem[p].open = None /\ DOMAIN mem[p] = Fields
  BY NothingOpen DEF At, Goto, Inv, StepInv, Tests, Writes
<1>2. keys # None
  BY <1>1 DEF At, Goto
<1>3. /\ keys \in Seq(Pairs)
      /\ \/ mem[p].keys # <<>> /\ keys = mem[p].keys
         \/ mem[p].keys = <<>> /\ c.kind = "keys" /\ keys = c.data
         \/ mem[p].keys = <<>> /\ c = Absent /\ keys = <<>>
  BY <1>2 DEF LoadKeys, Holds, Kept
<1>4. got \in Seq(Pairs) /\ Leads(got, keys)
  <2>1. got \in Seq(Pairs) /\ Leads(got, mem[p].keys)
    BY DEF Holds
  <2> HIDE DEF keys, got
  <2> QED
    BY <1>3, <2>1 DEF Leads
<1>5. ASSUME NEW k, NEW ks, NEW l,
             Goto(p, "at", l, [mem[p] EXCEPT !.got = Append(got, k), !.keys = ks])
      PROVE  pc'[p] = l /\ mem'[p].open = None /\ mem'[p].keys = ks /\ mem'[p].got = Append(got, k)
  <2> HIDE DEF got
  <2> QED
    BY <1>1, <1>5 DEF Goto, Fields
<1>6. CASE n <= Len(keys)
  <2>1. Goto(p, "at", IF n < job[p].wants THEN "at" ELSE "ok",
             [mem[p] EXCEPT !.got = Append(got, keys[n]), !.keys = keys])
    BY <1>2, <1>6, Zenon DEF At
  <2> HIDE DEF keys, got
  <2>2. /\ pc'[p] \in {"at", "ok"} /\ mem'[p].open = None /\ mem'[p].keys = keys
        /\ mem'[p].got = Append(got, keys[n])
    BY <1>5, <2>1
  <2>3. /\ keys # <<>> /\ Append(got, keys[n]) \in Seq(Pairs)
        /\ Leads(Append(got, keys[n]), keys)
    BY <1>3, <1>4, <1>6, OneMore
  <2>4. Leads(keys, keys)
    BY <1>3, Leading
  <2> QED
    BY <1>3, <2>2, <2>3, <2>4
<1>7. CASE ~(n <= Len(keys))
  <2>1. \A m : ~Goto(p, "at", "error", m)
    BY <1>1 DEF Goto
  <2>2. ~job[p].ci
    BY <1>2, <1>7, <2>1, Zenon DEF At
  <2>3. Goto(p, "at", "save keys",
             [mem[p] EXCEPT !.got = Append(got, <<p, n>>), !.keys = Append(keys, <<p, n>>)])
    BY <1>2, <1>7, <2>2, Zenon DEF At
  <2>4. <<p, n>> \in Pairs
    <3> HIDE DEF keys, got
    <3> QED
      BY <1>1, <1>3, <1>4, OneMore DEF Pairs
  <2> HIDE DEF keys, got
  <2>5. PICK k \in Pairs : k = <<p, n>>
    BY <2>4
  <2>6. /\ pc'[p] = "save keys" /\ mem'[p].open = None /\ mem'[p].keys = Append(keys, k)
        /\ mem'[p].got = Append(got, k)
    BY <1>5, <2>3, <2>5
  <2>7. /\ Append(got, k) \in Seq(Pairs) /\ Append(keys, k) \in Seq(Pairs)
        /\ Append(keys, k) # <<>> /\ Leads(Append(got, k), Append(keys, k))
    BY <1>3, <1>4, <1>7, OneMore
  <2>8. Leads(keys, Append(keys, k))
    BY <1>3, Leading
  <2> QED
    BY <1>3, <2>6, <2>7, <2>8
<1> QED
  BY <1>6, <1>7

\* An error in taking a key changes nothing that counts; whatever is taken is the
\* last, and one that is made is known by it.
LEMMA AtTakes ==
  ASSUME Inv, NEW p \in Tests, At(p)
  PROVE  /\ pc[p] = "at" /\ file' = file
         /\ \/ pc'[p] = "error" /\ mem'[p] = mem[p]
            \/ /\ pc'[p] \in {"at", "ok", "save keys"}
               /\ \E k : /\ mem'[p].got = Append(mem[p].got, k)
                         /\ pc'[p] = "save keys" =>
                              ~job[p].ci /\ k = <<p, Len(mem[p].got) + 1>>
<1>1. /\ DOMAIN pc = Processes /\ DOMAIN mem = Processes /\ p \in Processes
      /\ DOMAIN mem[p] = Fields
  BY DEF Inv, StepInv, MemAt, Tests
<1>2. file' = file
  BY DEF At
<1>3. \/ Goto(p, "at", "error", mem[p])
      \/ \E l \in {"at", "ok"} : \E k, ks :
           Goto(p, "at", l, [mem[p] EXCEPT !.got = Append(mem[p].got, k), !.keys = ks])
      \/ \E ks, k : /\ ~job[p].ci /\ k = <<p, Len(mem[p].got) + 1>>
                    /\ Goto(p, "at", "save keys",
                            [mem[p] EXCEPT !.got = Append(mem[p].got, k), !.keys = ks])
  <2> DEFINE keys == LoadKeys(p)
             n == Len(mem[p].got) + 1
             Take(k, ks, l) ==
               Goto(p, "at", l, [mem[p] EXCEPT !.got = Append(mem[p].got, k), !.keys = ks])
  <2>1. \/ Goto(p, "at", "error", mem[p])
        \/ Take(keys[n], keys, IF n < job[p].wants THEN "at" ELSE "ok")
        \/ ~job[p].ci /\ Take(<<p, n>>, Append(keys, <<p, n>>), "save keys")
    <3>1. CASE keys # None /\ n <= Len(keys)
      BY <3>1, Zenon DEF At
    <3>2. CASE keys # None /\ ~(n <= Len(keys)) /\ ~job[p].ci
      BY <3>2, Zenon DEF At
    <3>3. CASE keys = None \/ (~(n <= Len(keys)) /\ job[p].ci)
      BY <3>3, Zenon DEF At
    <3> HIDE DEF keys, n, Take
    <3> QED
      BY <3>1, <3>2, <3>3
  <2> HIDE DEF keys
  <2>2. (IF n < job[p].wants THEN "at" ELSE "ok") \in {"at", "ok"}
    OBVIOUS
  <2> QED
    BY <2>1, <2>2, Zenon
<1>4. ASSUME NEW k, NEW ks, NEW l,
             Goto(p, "at", l, [mem[p] EXCEPT !.got = Append(mem[p].got, k), !.keys = ks])
      PROVE  pc[p] = "at" /\ pc'[p] = l /\ mem'[p].got = Append(mem[p].got, k)
  <2> DEFINE got == Append(mem[p].got, k)
  <2> HIDE DEF got
  <2> QED
    BY <1>1, <1>4 DEF Goto, Fields, got
<1>5. CASE Goto(p, "at", "error", mem[p])
  BY <1>1, <1>2, <1>5 DEF Goto
<1>6. CASE \E l \in {"at", "ok"} : \E k, ks :
             Goto(p, "at", l, [mem[p] EXCEPT !.got = Append(mem[p].got, k), !.keys = ks])
  BY <1>2, <1>4, <1>6
<1>7. CASE \E ks, k : /\ ~job[p].ci /\ k = <<p, Len(mem[p].got) + 1>>
                      /\ Goto(p, "at", "save keys",
                              [mem[p] EXCEPT !.got = Append(mem[p].got, k), !.keys = ks])
  BY <1>2, <1>4, <1>7
<1> QED
  BY <1>3, <1>5, <1>6, <1>7

\* In memory, a write changes nothing but what is open.
LEMMA SaveKeeps ==
  ASSUME Inv, NEW p \in Tests, SaveKeys(p)
  PROVE  /\ pc[p] = "save keys" /\ mem'[p].keys = mem[p].keys /\ mem'[p].got = mem[p].got
         /\ pc'[p] \in {"save keys", "at", "ok", "error"}
<1>1. /\ p \in Processes /\ DOMAIN pc = Processes /\ DOMAIN mem = Processes
      /\ DOMAIN mem[p] = Fields /\ pc[p] = "save keys"
  BY DEF Inv, StepInv, MemAt, Tests, SaveKeys, WriteFile
<1>2. \A o, m : m = [mem[p] EXCEPT !.open = o] => m.keys = mem[p].keys /\ m.got = mem[p].got
  BY <1>1 DEF Fields
<1>3. PICK k \in {"at", "ok"} :
        WriteFile(p, "save keys", job[p].bucket, KeyFile(mem[p].keys), k)
  BY DEF SaveKeys
<1>4. PICK i, m :
        /\ i \in {"save keys", k, "error"} /\ Goto(p, "save keys", i, m)
        /\ m = mem[p] \/ \E o : m = [mem[p] EXCEPT !.open = o]
  BY <1>3 DEF WriteFile
<1>5. m.keys = mem[p].keys /\ m.got = mem[p].got
  BY <1>2, <1>4
<1> QED
  BY <1>1, <1>4, <1>5 DEF Goto

\* A step of a test, seen from its key file.
LEMMA TestSteps ==
  ASSUME Inv, NEW q \in Tests, StepOf(q)
  PROVE  \/ /\ StartTest(q) /\ pc[q] = "new" /\ pc'[q] = "at"
            /\ file' = file /\ mem'[q] = mem[q] /\ mem[q].keys = <<>>
         \/ At(q)
         \/ SaveKeys(q)
         \/ Kill(q) /\ pc'[q] = "dead" /\ file' = file /\ mem'[q] = Fresh
<1>1. q \in Processes /\ DOMAIN pc = Processes /\ DOMAIN mem = Processes
  BY DEF Inv, StepInv, Tests
<1>2. StartTest(q) \/ At(q) \/ SaveKeys(q) \/ Kill(q)
  BY StepsOfJobs DEF Tests
<1>3. CASE StartTest(q)
  <2>1. mem' = mem /\ file' = file /\ pc'[q] = "at" /\ pc[q] = "new" /\ mem[q] = Fresh
    BY <1>1, <1>3 DEF StartTest, Begin, Inv, StepInv
  <2> QED
    BY <1>3, <2>1 DEF Fresh
<1>4. CASE Kill(q)
  BY <1>1, <1>4 DEF Kill
<1> QED
  BY <1>2, <1>3, <1>4

\* A test, or a command, has nothing to do with the bucket of another.
LEMMA OtherBuckets ==
  ASSUME Inv, NEW p \in Tests, NEW q \in Processes, Frame(q),
         ~(q \in Tests /\ job[q].bucket = job[p].bucket)
  PROVE  /\ Read(job[p].bucket)' = Read(job[p].bucket)
         /\ Tests' = Tests /\ Users(job[p].bucket)' = Users(job[p].bucket)
         /\ \A t \in Tests : job[t].bucket = job[p].bucket =>
              pc'[t] = pc[t] /\ mem'[t] = mem[t] /\ before'[t] = before[t]
         /\ \A d : Contains(job[p].bucket, d) => Contains(job[p].bucket, d)'
<1> DEFINE b == job[p].bucket
<1>1. job' = job /\ Tests' = Tests /\ DOMAIN file' = DOMAIN file
  BY DEF Frame, Tests
<1>2. \A t \in Tests : job[t].bucket = b =>
        pc'[t] = pc[t] /\ mem'[t] = mem[t] /\ before'[t] = before[t]
  BY DEF Frame, Tests
<1>3. Users(b)' = Users(b)
  BY <1>1, <1>2 DEF Users, Began
<1>4. b \in Outputs(job[p]) /\ b \in Used /\ b \notin Configs
  <2>1. Outputs(job[p]) = {b}
    BY DEF Outputs, Tests
  <2> QED
    BY <2>1, UsedConfigs DEF Tests
<1>5. b \notin Touches(job[q])
  <2>1. b \notin Outputs(job[q])
    <3>1. CASE job[q].cmd = "test"
      BY <3>1 DEF Outputs, Tests
    <3>2. CASE job[q].cmd # "test"
      BY <3>2 DEF Inv, JobInv, Tests
    <3> QED
      BY <3>1, <3>2
  <2> QED
    BY <1>4, <2>1, UsedConfigs DEF Touches
<1>6. Read(b)' = Read(b)
  BY <1>1, <1>4, <1>5 DEF Frame, Own, Read
<1>7. \A d : Contains(b, d) => Contains(b, d)'
  BY <1>1, <1>4, <1>5 DEF Frame, Own, Contains
<1> QED
  BY <1>1, <1>2, <1>3, <1>6, <1>7

\* What another bucket sees of a step: nothing.
LEMMA Elsewhere ==
  ASSUME Inv, NEW p \in Tests, NEW q \in Processes, Frame(q),
         ~(q \in Tests /\ job[q].bucket = job[p].bucket)
  PROVE  /\ Orderly(job[p].bucket)' => Orderly(job[p].bucket)
         /\ Saving(job[p].bucket)' <=> Saving(job[p].bucket)
         /\ Holds(p) => Holds(p)'
         /\ Kept(p) => Kept(p)'
<1> DEFINE b == job[p].bucket
<1>1. /\ Read(b)' = Read(b) /\ Users(b)' = Users(b) /\ Tests' = Tests /\ job' = job
      /\ \A t \in Tests : job[t].bucket = b =>
           pc'[t] = pc[t] /\ mem'[t] = mem[t] /\ before'[t] = before[t]
      /\ \A d : Contains(b, d) => Contains(b, d)'
  BY OtherBuckets DEF Frame
<1>2. Saving(b)' <=> Saving(b)
  BY <1>1 DEF Saving, Users
<1>3. Orderly(b)' => Orderly(b)
  <2>1. \A t \in Users(b) : t \in Tests /\ job[t].bucket = b
    BY DEF Users
  <2>2. \A t \in Users(b) : (Makes(t)' <=> Makes(t)) /\ \A u \in Users(b) : Met(t, u)' <=> Met(t, u)
    BY <1>1, <2>1 DEF Makes, Met, Began
  <2> QED
    BY <1>1, <2>1, <2>2 DEF Orderly
<1> QED
  BY <1>1, <1>2, <1>3 DEF Holds, Kept

\* Who has made a key stays someone who has, unless it is killed.
LEMMA MakesStays ==
  ASSUME Inv, MadeOne, NEW q \in Tests, StepOf(q), Frame(q)
  PROVE  /\ IsSeq(mem'[q].got)
         /\ pc'[q] = "save keys" => Makes(q)'
         /\ Makes(q) => Makes(q)' \/ (~job[q].ci /\ pc'[q] = "dead")
<1>1. job' = job /\ IsSeq(mem[q].got)
  BY DEF Frame, MadeOne
<1>2. CASE pc[q] # "save keys" /\ pc'[q] # "save keys" /\ mem'[q].got = mem[q].got
  BY <1>1, <1>2 DEF Makes
<1>3. CASE At(q)
  <2>1. CASE pc'[q] = "error" /\ mem'[q] = mem[q]
    BY <1>1, <2>1 DEF Makes
  <2>2. CASE /\ pc'[q] \in {"at", "ok", "save keys"}
             /\ \E k : /\ mem'[q].got = Append(mem[q].got, k)
                       /\ pc'[q] = "save keys" => ~job[q].ci /\ k = <<q, Len(mem[q].got) + 1>>
    <3>1. PICK k : /\ mem'[q].got = Append(mem[q].got, k)
                   /\ pc'[q] = "save keys" => ~job[q].ci /\ k = <<q, Len(mem[q].got) + 1>>
      BY <2>2
    <3>2. PICK S : mem[q].got \in Seq(S)
      BY <1>1 DEF IsSeq
    <3> DEFINE got == mem[q].got
               T == S \cup {k}
    <3>3. got \in Seq(T) /\ k \in T
      BY <3>2
    <3>4. ASSUME NEW s \in Seq(T)
          PROVE  /\ Append(s, k) \in Seq(T) /\ Len(Append(s, k)) = Len(s) + 1 /\ Len(s) \in Nat
                 /\ \A i \in 1..Len(s) : Append(s, k)[i] = s[i]
                 /\ Append(s, k)[Len(s) + 1] = k
      <4> HIDE DEF T
      <4> QED
        BY <3>3, <3>4
    <3>5. /\ mem'[q].got \in Seq(T) /\ Len(mem'[q].got) = Len(got) + 1 /\ Len(got) \in Nat
          /\ \A i \in 1..Len(got) : mem'[q].got[i] = got[i]
          /\ mem'[q].got[Len(got) + 1] = k
      BY <3>1, <3>3, <3>4
    <3>6. pc'[q] = "save keys" => Makes(q)'
      <4>1. Len(got) + 1 \in 1..Len(mem'[q].got)
        BY <3>5
      <4> QED
        BY <1>1, <3>1, <3>5, <4>1 DEF Makes
    <3>7. Makes(q) => Makes(q)'
      <4>1. \A i \in 1..Len(got) : i \in 1..Len(mem'[q].got)
        BY <3>5
      <4> QED
        BY <1>1, <3>5, <4>1 DEF Makes
    <3>8. IsSeq(mem'[q].got)
      BY <3>5 DEF IsSeq
    <3> QED
      BY <3>6, <3>7, <3>8
  <2> QED
    BY <1>3, <2>1, <2>2, AtTakes
<1>4. CASE SaveKeys(q)
  <2>1. pc[q] = "save keys" /\ mem'[q].got = mem[q].got
    BY <1>4, SaveKeeps
  <2>2. Makes(q)
    BY <2>1 DEF MadeOne
  <2> QED
    BY <1>1, <1>4, <2>1, <2>2 DEF Makes
<1>5. CASE Kill(q) /\ pc'[q] = "dead" /\ mem'[q] = Fresh
  <2>1. IsSeq(mem'[q].got)
    <3>1. mem'[q].got \in Seq({})
      BY <1>5 DEF Fresh
    <3> QED
      BY <3>1 DEF IsSeq
  <2>2. Makes(q) => ~job[q].ci
    BY DEF Makes
  <2> QED
    BY <1>5, <2>1, <2>2
<1>6. CASE StartTest(q) /\ pc[q] = "new" /\ pc'[q] = "at" /\ mem'[q] = mem[q]
  BY <1>2, <1>6
<1> QED
  BY <1>3, <1>4, <1>5, <1>6, TestSteps

\* Who writes keys has made one, after every step.
LEMMA MadeOneNext ==
  ASSUME Inv, MadeOne, [Next]_vars
  PROVE  MadeOne'
<1>1. CASE UNCHANGED vars
  BY <1>1 DEF vars, MadeOne, Tests, Makes
<1>2. CASE Next
  <2>1. PICK q \in Processes : StepOf(q)
    BY <1>2 DEF Next, StepOf
  <2>2. Frame(q) /\ job' = job /\ Tests' = Tests
    BY <2>1, StepOfInv DEF Frame, Tests
  <2>3. \A p \in Tests \ {q} :
          IsSeq(mem'[p].got) /\ (pc'[p] = "save keys" => Makes(p)')
    <3>1. \A p \in Tests \ {q} : pc'[p] = pc[p] /\ mem'[p] = mem[p]
      BY <2>2 DEF Frame, Tests
    <3> QED
      BY <2>2, <3>1 DEF MadeOne, Makes
  <2>4. q \in Tests =>
          IsSeq(mem'[q].got) /\ (pc'[q] = "save keys" => Makes(q)')
    BY <2>1, <2>2, MakesStays
  <2> QED
    BY <2>2, <2>3, <2>4 DEF MadeOne
<1> QED
  BY <1>1, <1>2

\* A bucket that is orderly after a step was so before, and whoever writes it, or now
\* begins to, is the last of them that lives.
LEMMA Order ==
  ASSUME Inv, MadeOne, NEW q \in Tests, StepOf(q), Frame(q), Orderly(job[q].bucket)'
  PROVE  /\ Orderly(job[q].bucket)
         /\ pc'[q] = "dead" => job[q].ci /\ pc[q] # "save keys"
         /\ pc[q] = "save keys" => pc'[q] # "error"
         /\ pc[q] = "save keys" \/ pc'[q] = "save keys" =>
              \A t \in Users(job[q].bucket) \ {q} : Ended(t)
         /\ \A t \in Users(job[q].bucket) \ {q} : pc[t] # "save keys"
<1> DEFINE b == job[q].bucket
<1>1. /\ job' = job /\ Tests' = Tests /\ q \in Processes /\ pc'[q] # "new"
      /\ \A t \in Tests \ {q} : pc'[t] = pc[t] /\ before'[t] = before[t] /\ mem'[t] = mem[t]
      /\ pc[q] # "new" => before'[q] = before[q]
      /\ pc[q] = "new" => before'[q] = {t \in Processes : Ended(t)}
      /\ pc[q] \notin Outcomes
  BY DEF Frame, Tests
<1>2. q \in Users(b)' /\ \A t \in Users(b) : t \in Users(b)'
  BY <1>1 DEF Users, Began
<1>3. \A t, u \in Users(b) : Met(t, u)' <=> Met(t, u)
  BY <1>1 DEF Users, Met, Began
<1>4. /\ pc'[q] = "dead" => job[q].ci
      /\ Makes(q)' => pc'[q] # "error" /\ \A t \in Users(b)' : ~Met(q, t)'
      /\ \A t \in Users(b) : Makes(t)' => ~Met(t, q)'
  BY <1>1, <1>2 DEF Orderly
<1>5. Makes(q) => Makes(q)'
  BY <1>4, MakesStays
<1>6. \A t \in Users(b) \ {q} : t \in Tests /\ (Makes(t)' <=> Makes(t))
  BY <1>1 DEF Users, Makes
<1>7. ASSUME NEW t \in Users(b) \ {q}, ~Met(t, q)'
      PROVE  Ended(t)
  <2>1. Began(q)' /\ Began(t)'
    BY <1>1, <1>7 DEF Users, Began
  <2>2. t \in before'[q] \/ q \in before[t]
    BY <1>1, <1>7, <2>1 DEF Met, Users
  <2>3. q \notin before[t]
    BY <1>1 DEF Inv, StepInv, Ended, Users, Tests
  <2> QED
    BY <1>1, <2>2, <2>3 DEF Inv, StepInv
<1>8. Orderly(b)
  <2> SUFFICES ASSUME NEW t \in Users(b)
               PROVE  /\ job[t].ci \/ pc[t] # "dead"
                      /\ Makes(t) => pc[t] # "error" /\ \A u \in Users(b) : ~Met(t, u)
    BY DEF Orderly
  <2>1. CASE t = q
    BY <1>1, <1>2, <1>3, <1>4, <1>5, <2>1 DEF Outcomes
  <2>2. CASE t # q
    <3>1. /\ job'[t].ci \/ pc'[t] # "dead"
          /\ Makes(t)' => pc'[t] # "error" /\ \A u \in Users(b)' : ~Met(t, u)'
      BY <1>1, <1>2 DEF Orderly
    <3> QED
      BY <1>1, <1>2, <1>3, <1>6, <2>2, <3>1
  <2> QED
    BY <2>1, <2>2
<1>9. pc[q] = "save keys" \/ pc'[q] = "save keys" => Makes(q)'
  BY <1>5, MakesStays DEF MadeOne
<1>10. \A t \in Users(b) \ {q} : Makes(q)' => Ended(t)
  <2>1. \A t \in Users(b) : ~Met(q, t)' => ~Met(t, q)'
    BY DEF Met
  <2> QED
    BY <1>2, <1>4, <1>7, <2>1
<1>11. \A t \in Users(b) \ {q} : pc[t] # "save keys"
  <2> SUFFICES ASSUME NEW t \in Users(b) \ {q}, pc[t] = "save keys" PROVE FALSE
    OBVIOUS
  <2>1. Makes(t)'
    BY <1>6 DEF MadeOne
  <2>2. Ended(t)
    BY <1>4, <1>7, <2>1
  <2> QED
    BY <2>2 DEF Ended, Outcomes
<1>12. pc'[q] = "dead" => pc[q] # "save keys"
  <2>1. pc[q] = "save keys" => ~job[q].ci
    BY DEF MadeOne, Makes
  <2> QED
    BY <1>4, <2>1
<1> QED
  BY <1>4, <1>8, <1>9, <1>10, <1>11, <1>12

\* What a test leaves in its file, when nobody else writes it: all the keys it holds.
LEMMA Saved ==
  ASSUME Inv, NEW p \in Tests, SaveKeys(p), Holds(p), pc'[p] # "error"
  PROVE  \/ /\ pc'[p] = "save keys"
            /\ mem'[p].open # None => Contains(job[p].bucket, mem[p].open)'
         \/ /\ pc'[p] \in {"at", "ok"}
            /\ Read(job[p].bucket)' = KeyFile(mem[p].keys)
<1> DEFINE b == job[p].bucket
           c == KeyFile(mem[p].keys)
<1>1. /\ p \in Processes /\ DOMAIN pc = Processes /\ DOMAIN mem = Processes
      /\ DOMAIN mem[p] = Fields /\ pc[p] = "save keys"
  BY DEF Inv, StepInv, MemAt, Tests, SaveKeys, WriteFile
<1>2. mem[p].open # None => Contains(b, mem[p].open)
  BY <1>1 DEF Holds
<1>3. PICK k \in {"at", "ok"} : WriteFile(p, "save keys", b, c, k)
  BY DEF SaveKeys
<1>4. job' = job
  BY <1>3 DEF WriteFile, Goto
<1> HIDE DEF c
<1>5. CASE /\ pc'[p] = "save keys" /\ b \in DOMAIN file
           /\ \E d : /\ file' = [file EXCEPT ![b] = d]
                     /\ mem' = [mem EXCEPT ![p] = [mem[p] EXCEPT !.open = d]]
  <2>1. PICK d : /\ file' = [file EXCEPT ![b] = d]
                 /\ mem' = [mem EXCEPT ![p] = [mem[p] EXCEPT !.open = d]]
    BY <1>5
  <2>2. mem'[p].open = d
    BY <1>1, <2>1 DEF Fields
  <2> QED
    BY <1>4, <1>5, <2>1, <2>2 DEF Contains
<1>6. CASE /\ pc'[p] = k /\ b \in DOMAIN file /\ file' = [file EXCEPT ![b] = c]
  <2>1. Read(b)' = c
    BY <1>4, <1>6 DEF Read
  <2> QED
    BY <1>6, <2>1 DEF c
<1> QED
  BY <1>1, <1>2, <1>3, <1>5, <1>6, WriteDone

\* A step of a test leaves its bucket as it should be.
LEMMA KeysStep ==
  ASSUME Inv, MadeOne, KeysInv, NEW q \in Tests, StepOf(q), Frame(q), NEW p \in Tests,
         job[p].bucket = job[q].bucket, Orderly(job[q].bucket)'
  PROVE  Holds(p)' /\ Kept(p)'
<1> DEFINE b == job[q].bucket
<1>1. /\ job' = job /\ q \in Processes /\ DOMAIN file' = DOMAIN file /\ pc'[q] # "new"
      /\ \A t \in Tests \ {q} : pc'[t] = pc[t] /\ mem'[t] = mem[t]
      /\ Tests' = Tests
  BY DEF Frame, Tests
<1>2. /\ Orderly(b)
      /\ pc'[q] = "dead" => pc[q] # "save keys"
      /\ pc[q] = "save keys" => pc'[q] # "error"
      /\ \A t \in Tests \ {q} : job[t].bucket = b => pc[t] # "save keys"
  BY Order DEF Users, Began
<1>3. (Saving(b) => pc[q] = "save keys") /\ (pc'[q] = "save keys" => Saving(b)')
  BY <1>1, <1>2 DEF Saving, Users, Began
<1>4. \A t \in Tests : job[t].bucket = b => Holds(t) /\ Kept(t)
  BY <1>2 DEF KeysInv
<1>5. /\ mem[q].keys \in Seq(Pairs) /\ mem[q].got \in Seq(Pairs)
      /\ Leads(mem[q].got, mem[q].keys) /\ Leads(mem[q].keys, mem[q].keys)
  BY <1>4, Leading DEF Holds
<1>6. /\ Holds(q)'
      /\ \/ Saving(b)'
         \/ ~Saving(b) /\ Read(b)' = Read(b)
         \/ mem[q].keys # <<>> /\ Read(b)' = KeyFile(mem[q].keys)
      /\ mem'[q].keys # <<>> =>
           \/ mem[q].keys # <<>> /\ Leads(mem[q].keys, mem'[q].keys)
           \/ ~Saving(b) /\ Read(b).kind = "keys" /\ Leads(Read(b).data, mem'[q].keys)
           \/ ~Saving(b) /\ Read(b) = Absent
  <2>1. CASE StartTest(q) /\ pc[q] = "new" /\ pc'[q] = "at" /\ file' = file /\ mem'[q] = mem[q]
    <3>1. Holds(q)' /\ Read(b)' = Read(b) /\ ~Saving(b)
      BY <1>1, <1>3, <1>4, <2>1 DEF Holds, Read
    <3> QED
      BY <1>5, <2>1, <3>1
  <2>2. CASE At(q) /\ pc'[q] # "error"
    <3>1. file' = file /\ pc[q] = "at"
      BY <2>2, AtTakes
    <3>2. Read(b)' = Read(b) /\ ~Saving(b)
      BY <1>1, <1>3, <3>1 DEF Read
    <3>3. Holds(q) /\ Kept(q)
      BY <1>4
    <3> QED
      BY <2>2, <3>2, <3>3, Taken DEF Holds
  <2>3. CASE At(q) /\ pc'[q] = "error"
    <3>1. file' = file /\ mem'[q] = mem[q] /\ pc[q] = "at"
      BY <2>3, AtTakes
    <3>2. Holds(q)' /\ Read(b)' = Read(b) /\ ~Saving(b)
      BY <1>1, <1>3, <1>4, <2>3, <3>1 DEF Holds, Read
    <3> QED
      BY <1>5, <3>1, <3>2
  <2>4. CASE SaveKeys(q)
    <3>1. Holds(q)
      BY <1>4
    <3>2. /\ pc[q] = "save keys" /\ mem'[q].keys = mem[q].keys /\ mem'[q].got = mem[q].got
          /\ pc'[q] # "error"
      BY <1>2, <2>4, SaveKeeps
    <3>3. mem[q].keys # <<>>
      BY <3>1, <3>2 DEF Holds
    <3>4. \/ pc'[q] = "save keys" /\ (mem'[q].open # None => Contains(b, mem[q].open)')
          \/ pc'[q] \in {"at", "ok"} /\ Read(b)' = KeyFile(mem[q].keys)
      BY <2>4, <3>1, <3>2, Saved
    <3>5. Holds(q)'
      BY <1>1, <1>5, <3>2, <3>3, <3>4 DEF Holds
    <3> QED
      BY <1>3, <1>5, <3>2, <3>3, <3>4, <3>5
  <2>5. CASE Kill(q) /\ pc'[q] = "dead" /\ file' = file /\ mem'[q] = Fresh
    <3>1. mem'[q].keys = <<>> /\ mem'[q].got = <<>> /\ <<>> \in Seq(Pairs)
      BY <2>5 DEF Fresh
    <3>2. Holds(q)' /\ Read(b)' = Read(b) /\ ~Saving(b)
      BY <1>1, <1>2, <1>3, <2>5, <3>1, Leading DEF Holds, Read
    <3> QED
      BY <3>1, <3>2
  <2> QED
    BY <2>1, <2>2, <2>3, <2>4, <2>5, TestSteps
<1>7. Holds(p)'
  <2>1. CASE p # q
    BY <1>1, <1>2, <1>4, <2>1 DEF Holds
  <2> QED
    BY <1>6, <2>1
<1>8. Kept(p)'
  <2> DEFINE n == job[p].committed
  <2>1. Kept(p) /\ n \in Nat
    BY <1>4 DEF Kept
  <2>2. mem[q].keys # <<>> => Has(mem[q].keys, n)
    BY <2>1 DEF Kept
  <2>3. ~Saving(b)' =>
          /\ Read(b)'.kind = "keys" => Read(b)'.data \in Seq(Pairs) /\ Has(Read(b)'.data, n)
          /\ Read(b)' = Absent => n = 0
    <3>1. CASE ~Saving(b) /\ Read(b)' = Read(b)
      BY <2>1, <3>1 DEF Kept
    <3>2. CASE mem[q].keys # <<>> /\ Read(b)' = KeyFile(mem[q].keys)
      <4>1. Read(b)'.data = mem[q].keys /\ Read(b)' # Absent
        BY <3>2 DEF KeyFile, Absent
      <4> QED
        BY <1>5, <2>2, <3>2, <4>1
    <3> QED
      BY <1>6, <3>1, <3>2
  <2>4. mem'[q].keys # <<>> => Has(mem'[q].keys, n)
    <3>1. mem'[q].keys \in Seq(Pairs)
      BY <1>6 DEF Holds
    <3>2. CASE mem[q].keys # <<>> /\ Leads(mem[q].keys, mem'[q].keys)
      BY <1>5, <2>1, <2>2, <3>1, <3>2, Leading
    <3>3. CASE ~Saving(b) /\ Read(b).kind = "keys" /\ Leads(Read(b).data, mem'[q].keys)
      <4>1. Has(Read(b).data, n) /\ Read(b).data \in Seq(Pairs)
        BY <2>1, <3>3 DEF Kept
      <4> QED
        BY <2>1, <3>1, <3>3, <4>1, Leading
    <3>4. CASE ~Saving(b) /\ Read(b) = Absent
      BY <2>1, <3>1, <3>4 DEF Kept, Has
    <3> QED
      BY <1>6, <3>2, <3>3, <3>4
  <2>5. \A t \in Tests : job[t].bucket = b /\ mem'[t].keys # <<>> => Has(mem'[t].keys, n)
    BY <1>1, <2>1, <2>4 DEF Kept
  <2> QED
    BY <1>1, <2>1, <2>3, <2>5 DEF Kept
<1> QED
  BY <1>7, <1>8

\* A step keeps the committed keys, whatever others do at the same time.
LEMMA KeysNext ==
  ASSUME Inv, MadeOne, KeysInv, [Next]_vars
  PROVE  KeysInv'
<1>1. CASE UNCHANGED vars
  <2>1. /\ Tests' = Tests /\ job' = job
        /\ \A p : Holds(p)' = Holds(p) /\ Kept(p)' = Kept(p)
        /\ \A b : Orderly(b)' = Orderly(b)
    BY <1>1 DEF vars, Tests, Holds, Kept, Read, Orderly, Makes, Met, Users, Saving, Began,
                Contains
  <2> QED
    BY <2>1 DEF KeysInv
<1>2. CASE Next
  <2>1. PICK q \in Processes : StepOf(q)
    BY <1>2 DEF Next, StepOf
  <2>2. Frame(q) /\ job' = job /\ Tests' = Tests
    BY <2>1, StepOfInv DEF Frame, Tests
  <2>3. ASSUME NEW p \in Tests, Orderly(job[p].bucket)'
        PROVE  Holds(p)' /\ Kept(p)'
    <3>1. CASE q \in Tests /\ job[q].bucket = job[p].bucket
      BY <2>1, <2>2, <2>3, <3>1, KeysStep
    <3>2. CASE ~(q \in Tests /\ job[q].bucket = job[p].bucket)
      <4>1. Orderly(job[p].bucket) /\ (Holds(p) => Holds(p)') /\ (Kept(p) => Kept(p)')
        BY <2>2, <2>3, <3>2, Elsewhere
      <4> QED
        BY <4>1 DEF KeysInv
    <3> QED
      BY <3>1, <3>2
  <2> QED
    BY <2>2, <2>3 DEF KeysInv
<1> QED
  BY <1>1, <1>2

\* At first a file of keys has those that are committed, and nobody holds one.
LEMMA KeysInit ==
  ASSUME Init
  PROVE  MadeOne /\ KeysInv
<1>1. PICK s \in Scenarios : job = s.job /\ file = s.file
  BY DEF Init
<1>2. \A q \in Tests : q \in Processes /\ mem[q] = Fresh /\ pc[q] = "new"
  BY DEF Init, Tests
<1>3. \A q \in Tests : mem[q].keys = <<>> /\ mem[q].got = <<>> /\ <<>> \in Seq(Pairs)
  BY <1>2 DEF Fresh
<1>4. MadeOne
  <2>1. IsSeq(<<>>)
    BY <<>> \in Seq({}) DEF IsSeq
  <2> QED
    BY <1>2, <1>3, <2>1 DEF MadeOne
<1>5. ASSUME NEW p \in Tests PROVE Holds(p) /\ Kept(p)
  <2> DEFINE c == Read(job[p].bucket)
  <2>1. Holds(p)
    BY <1>2, <1>3, Leading DEF Holds
  <2>2. Committed(job[p], c)
    BY <1>1, <1>2, BeforeAssumption DEF Read, Tests
  <2>3. CASE c.kind = "keys"
    <3>1. /\ c.data \in Seq(Int \X Int) /\ job[p].committed \in 0..Len(c.data)
          /\ \A i \in 1..job[p].committed : c.data[i] = <<0, i>>
      BY <2>2, <2>3 DEF Committed
    <3>2. c.data \in Seq(Pairs)
      BY <3>1 DEF Pairs
    <3>3. c # Absent
      BY <2>3 DEF Absent
    <3> HIDE DEF c
    <3> QED
      BY <1>3, <2>1, <3>1, <3>2, <3>3 DEF Kept, Has, c
  <2>4. CASE c.kind # "keys"
    BY <1>3, <2>1, <2>2, <2>4 DEF Kept, Committed
  <2> QED
    BY <2>3, <2>4
<1> QED
  BY <1>4, <1>5 DEF KeysInv

\* What a test has taken is in the file, unless that is being written, and comes first
\* in what those that are running hold: these, when they write nothing, all that is in it.
Shared(p) ==
  /\ pc[p] = "ok" =>
       /\ ~Saving(job[p].bucket) =>
            /\ Read(job[p].bucket).kind = "keys"
            /\ Leads(mem[p].got, Read(job[p].bucket).data)
       /\ \A u \in Users(job[p].bucket) :
            pc[u] \in {"at", "save keys"} /\ mem[u].keys # <<>> => Leads(mem[p].got, mem[u].keys)
  /\ pc[p] = "at" /\ mem[p].keys # <<>> =>
       Read(job[p].bucket).kind = "keys" /\ Read(job[p].bucket).data = mem[p].keys

SharedInv == \A p \in Tests : Orderly(job[p].bucket) => Shared(p)

\* A step of a test leaves what they share.
LEMMA SharedStep ==
  ASSUME Inv, MadeOne, KeysInv, KeysInv', SharedInv, NEW q \in Tests, StepOf(q), Frame(q),
         NEW p \in Tests, job[p].bucket = job[q].bucket, Orderly(job[q].bucket)'
  PROVE  Shared(p)'
<1> DEFINE b == job[q].bucket
           c == Read(b)
           Busy(u) == pc[u] \in {"at", "save keys"} /\ mem[u].keys # <<>>
<1>1. /\ job' = job /\ q \in Processes /\ DOMAIN file' = DOMAIN file /\ pc'[q] # "new"
      /\ \A t \in Tests \ {q} : pc'[t] = pc[t] /\ mem'[t] = mem[t]
      /\ Tests' = Tests
  BY DEF Frame, Tests
<1>2. /\ Orderly(b)
      /\ pc'[q] = "dead" => pc[q] # "save keys"
      /\ pc[q] = "save keys" => pc'[q] # "error"
      /\ pc[q] = "save keys" \/ pc'[q] = "save keys" =>
           \A t \in Users(b) \ {q} : Ended(t)
      /\ \A t \in Users(b) \ {q} : pc[t] # "save keys"
  BY Order
<1>3. Users(b)' = Users(b) \cup {q}
  BY <1>1 DEF Users, Began
<1>4. (Saving(b) <=> pc[q] = "save keys") /\ (Saving(b)' <=> pc'[q] = "save keys")
  <2>1. \A t \in Users(b)' \ {q} : pc'[t] # "save keys"
    BY <1>1, <1>2, <1>3 DEF Users
  <2>2. pc[q] = "save keys" => q \in Users(b)
    BY DEF Users, Began
  <2> QED
    BY <1>2, <1>3, <2>1, <2>2 DEF Saving
<1>5. \A t \in Tests : job[t].bucket = b => Holds(t) /\ Holds(t)' /\ Kept(t) /\ Shared(t)
  BY <1>1, <1>2 DEF KeysInv, SharedInv
<1>6. \A t \in Users(b) : t \in Tests /\ job[t].bucket = b /\ (Ended(t) => ~Busy(t))
  BY DEF Users, Ended, Outcomes
\* The file, the one that takes the step, and what the others have of both.
<1>7. ASSUME
        /\ pc'[q] # "save keys" => \A t \in Tests : job[t].bucket = b /\ pc'[t] = "ok" =>
             c'.kind = "keys" /\ Leads(mem'[t].got, c'.data)
        /\ \A t \in Tests, u \in Users(b)' :
             job[t].bucket = b /\ pc'[t] = "ok" /\ pc'[u] \in {"at", "save keys"}
             /\ mem'[u].keys # <<>> => Leads(mem'[t].got, mem'[u].keys)
        /\ \A t \in Tests : job[t].bucket = b /\ pc'[t] = "at" /\ mem'[t].keys # <<>> =>
             c'.kind = "keys" /\ c'.data = mem'[t].keys
      PROVE  Shared(p)'
  BY <1>1, <1>4, <1>7 DEF Shared
\* How it was before.
<1>8. /\ pc[q] # "save keys" => \A t \in Tests : job[t].bucket = b /\ pc[t] = "ok" =>
           c.kind = "keys" /\ Leads(mem[t].got, c.data)
      /\ \A t \in Tests, u \in Users(b) :
           job[t].bucket = b /\ pc[t] = "ok" /\ Busy(u) => Leads(mem[t].got, mem[u].keys)
      /\ \A t \in Tests : job[t].bucket = b /\ pc[t] = "at" /\ mem[t].keys # <<>> =>
           c.kind = "keys" /\ c.data = mem[t].keys
  BY <1>4, <1>5 DEF Shared
<1>9. ASSUME file' = file, pc[q] # "save keys", pc'[q] # "save keys", pc'[q] # "ok",
             pc'[q] = "at" => mem'[q].keys = <<>>
      PROVE  Shared(p)'
  <2>1. c' = c
    BY <1>1, <1>9 DEF Read
  <2>2. \A u \in Users(b)' : pc'[u] \in {"at", "save keys"} /\ mem'[u].keys # <<>> =>
          u # q /\ u \in Users(b) /\ Busy(u) /\ mem'[u] = mem[u]
    BY <1>1, <1>3, <1>6, <1>9
  <2>3. \A t \in Tests : pc'[t] = "ok" \/ (pc'[t] = "at" /\ mem'[t].keys # <<>>) =>
          t # q /\ pc'[t] = pc[t] /\ mem'[t] = mem[t]
    BY <1>1, <1>9
  <2>4. \A t \in Tests : job[t].bucket = b /\ pc'[t] = "ok" =>
          c'.kind = "keys" /\ Leads(mem'[t].got, c'.data)
    BY <1>8, <1>9, <2>1, <2>3
  <2>5. \A t \in Tests, u \in Users(b)' :
          job[t].bucket = b /\ pc'[t] = "ok" /\ pc'[u] \in {"at", "save keys"}
          /\ mem'[u].keys # <<>> => Leads(mem'[t].got, mem'[u].keys)
    <3> HIDE DEF c, Busy
    <3> QED
      BY <1>8, <2>2, <2>3
  <2>6. \A t \in Tests : job[t].bucket = b /\ pc'[t] = "at" /\ mem'[t].keys # <<>> =>
          c'.kind = "keys" /\ c'.data = mem'[t].keys
    BY <1>8, <2>1, <2>3
  <2> HIDE DEF c, Busy
  <2> QED
    BY <1>7, <2>4, <2>5, <2>6
<1>10. CASE StartTest(q) /\ pc[q] = "new" /\ pc'[q] = "at" /\ file' = file /\ mem'[q] = mem[q]
            /\ mem[q].keys = <<>>
  BY <1>9, <1>10
<1>11. CASE (At(q) /\ pc'[q] = "error") \/ (Kill(q) /\ pc'[q] = "dead" /\ file' = file)
  <2>1. At(q) => file' = file /\ pc[q] = "at"
    BY AtTakes
  <2> QED
    BY <1>2, <1>9, <1>11, <2>1
<1>12. CASE At(q) /\ pc'[q] # "error"
  <2>1. c' = c /\ pc[q] = "at"
    <3>1. file' = file /\ pc[q] = "at"
      BY <1>12, AtTakes
    <3> QED
      BY <1>1, <3>1 DEF Read
  <2>2. PICK keys \in Seq(Pairs) :
          /\ \/ mem[q].keys # <<>> /\ keys = mem[q].keys
             \/ mem[q].keys = <<>> /\ c.kind = "keys" /\ keys = c.data
             \/ mem[q].keys = <<>> /\ c = Absent /\ keys = <<>>
          /\ mem'[q].keys \in Seq(Pairs) /\ mem'[q].got \in Seq(Pairs)
          /\ Leads(mem'[q].got, mem'[q].keys) /\ Leads(keys, mem'[q].keys)
          /\ mem'[q].keys # <<>>
          /\ \/ pc'[q] \in {"at", "ok"} /\ mem'[q].keys = keys
             \/ pc'[q] = "save keys"
    BY <1>4, <1>5, <1>12, <2>1, Taken
  <2>3. mem[q].keys # <<>> => c.kind = "keys" /\ c.data = mem[q].keys
    BY <1>8, <2>1
  <2>4. c = Absent \/ (c.kind = "keys" /\ c.data = keys)
    <3> HIDE DEF c
    <3> QED
      BY <2>2, <2>3
  <2>5. pc'[q] \in {"at", "ok"} => c.kind = "keys" /\ c.data = mem'[q].keys
    <3> HIDE DEF c
    <3> QED
      BY <2>2, <2>3
  <2>6. ASSUME NEW t \in Tests \ {q}, job[t].bucket = b, pc'[t] = "ok"
        PROVE  /\ pc[t] = "ok" /\ mem'[t] = mem[t]
               /\ c.kind = "keys" /\ Leads(mem'[t].got, c.data)
               /\ Leads(mem'[t].got, mem'[q].keys)
    <3>1. pc[t] = "ok" /\ mem'[t] = mem[t]
      BY <1>1, <2>6
    <3>2. c.kind = "keys" /\ Leads(mem[t].got, c.data)
      BY <1>8, <2>1, <2>6, <3>1
    <3>3. mem[t].got \in Seq(Pairs) /\ Absent.kind # "keys"
      BY <1>5, <2>6 DEF Holds, Absent
    <3>4. Leads(mem[t].got, keys)
      BY <2>4, <3>2, <3>3
    <3>5. Leads(mem[t].got, mem'[q].keys)
      BY <2>2, <3>3, <3>4, Leading
    <3> QED
      BY <3>1, <3>2, <3>5
  <2>7. ASSUME NEW u \in Users(b)' \ {q}, pc'[u] \in {"at", "save keys"}, mem'[u].keys # <<>>
        PROVE  /\ u \in Users(b) /\ Busy(u) /\ mem'[u] = mem[u] /\ pc'[u] = pc[u]
               /\ c.kind = "keys" /\ c.data = mem[u].keys /\ pc'[q] # "save keys"
    <3>1. u \in Users(b) /\ Busy(u) /\ mem'[u] = mem[u] /\ pc'[u] = pc[u]
      BY <1>1, <1>3, <1>6, <2>7
    <3>2. pc[u] = "at" /\ ~Ended(u)
      BY <1>2, <1>6, <3>1
    <3> QED
      BY <1>2, <1>6, <1>8, <3>1, <3>2
  <2>8. ASSUME pc'[q] # "save keys", NEW t \in Tests, job[t].bucket = b, pc'[t] = "ok"
        PROVE  c'.kind = "keys" /\ Leads(mem'[t].got, c'.data)
    BY <2>1, <2>2, <2>5, <2>6, <2>8
  <2>9. ASSUME NEW t \in Tests, NEW u \in Users(b)', job[t].bucket = b, pc'[t] = "ok",
               pc'[u] \in {"at", "save keys"}, mem'[u].keys # <<>>
        PROVE  Leads(mem'[t].got, mem'[u].keys)
    <3>1. CASE u = q
      BY <2>2, <2>6, <2>9, <3>1
    <3>2. CASE u # q
      <4>1. c.data = mem'[u].keys /\ pc'[q] # "save keys"
        BY <2>7, <2>9, <3>2
      <4> QED
        BY <2>1, <2>8, <2>9, <4>1
    <3> QED
      BY <3>1, <3>2
  <2>10. ASSUME NEW t \in Tests, job[t].bucket = b, pc'[t] = "at", mem'[t].keys # <<>>
         PROVE  c'.kind = "keys" /\ c'.data = mem'[t].keys
    <3>1. CASE t = q
      BY <2>1, <2>5, <2>10, <3>1
    <3>2. CASE t # q
      BY <1>1, <1>8, <2>1, <2>10, <3>2
    <3> QED
      BY <3>1, <3>2
  <2> HIDE DEF c, Busy
  <2> QED
    BY <1>7, <2>8, <2>9, <2>10
<1>13. CASE SaveKeys(q)
  <2>1. /\ pc[q] = "save keys" /\ mem'[q].keys = mem[q].keys /\ mem'[q].got = mem[q].got
        /\ pc'[q] # "error"
    BY <1>2, <1>13, SaveKeeps
  <2>2. /\ mem[q].keys \in Seq(Pairs) /\ mem[q].keys # <<>>
        /\ mem[q].got \in Seq(Pairs) /\ Leads(mem[q].got, mem[q].keys)
    BY <1>5, <2>1 DEF Holds
  <2>3. \/ pc'[q] = "save keys"
        \/ pc'[q] \in {"at", "ok"} /\ c' = KeyFile(mem[q].keys)
    <3>1. Holds(q)
      BY <1>5
    <3> QED
      BY <1>13, <2>1, <3>1, Saved
  <2>4. KeyFile(mem[q].keys).kind = "keys" /\ KeyFile(mem[q].keys).data = mem[q].keys
    BY DEF KeyFile
  <2>5. q \in Users(b) /\ Busy(q)
    BY <2>1, <2>2 DEF Users, Began
  <2>6. \A t \in Tests : job[t].bucket = b /\ pc'[t] = "ok" => Leads(mem'[t].got, mem[q].keys)
    <3>1. ASSUME NEW t \in Tests \ {q}, job[t].bucket = b, pc'[t] = "ok"
          PROVE  Leads(mem'[t].got, mem[q].keys)
      BY <1>1, <1>8, <2>5, <3>1
    <3> QED
      BY <2>1, <2>2, <3>1
  <2>7. \A u \in Users(b)' \ {q} : Ended(u) /\ pc'[u] = pc[u]
    BY <1>1, <1>2, <1>3, <1>6, <2>1
  <2>8. \A u \in Users(b)' : pc'[u] \in {"at", "save keys"} => u = q
    BY <2>7 DEF Ended, Outcomes
  <2>9. \A t \in Tests : job[t].bucket = b /\ pc'[t] = "at" => t = q
    BY <1>1, <2>8 DEF Users, Began
  <2> HIDE DEF c, Busy
  <2> QED
    BY <1>7, <2>1, <2>3, <2>4, <2>6, <2>8, <2>9
<1> QED
  BY <1>10, <1>11, <1>12, <1>13, TestSteps

\* A step keeps what is shared.
LEMMA SharedNext ==
  ASSUME Inv, MadeOne, KeysInv, KeysInv', SharedInv, [Next]_vars
  PROVE  SharedInv'
<1>1. CASE UNCHANGED vars
  <2>1. /\ Tests' = Tests /\ job' = job
        /\ \A p : Shared(p)' = Shared(p)
        /\ \A b : Orderly(b)' = Orderly(b)
    BY <1>1 DEF vars, Tests, Shared, Read, Orderly, Makes, Met, Users, Saving, Began
  <2> QED
    BY <2>1 DEF SharedInv
<1>2. CASE Next
  <2>1. PICK q \in Processes : StepOf(q)
    BY <1>2 DEF Next, StepOf
  <2>2. Frame(q) /\ job' = job /\ Tests' = Tests
    BY <2>1, StepOfInv DEF Frame, Tests
  <2>3. ASSUME NEW p \in Tests, Orderly(job[p].bucket)'
        PROVE  Shared(p)'
    <3>1. CASE q \in Tests /\ job[q].bucket = job[p].bucket
      BY <2>1, <2>2, <2>3, <3>1, SharedStep
    <3>2. CASE ~(q \in Tests /\ job[q].bucket = job[p].bucket)
      <4>1. /\ Read(job[p].bucket)' = Read(job[p].bucket)
            /\ Users(job[p].bucket)' = Users(job[p].bucket)
            /\ \A t \in Tests : job[t].bucket = job[p].bucket => pc'[t] = pc[t] /\ mem'[t] = mem[t]
        BY <2>2, <3>2, OtherBuckets
      <4>2. Orderly(job[p].bucket) /\ (Saving(job[p].bucket)' <=> Saving(job[p].bucket))
        BY <2>2, <2>3, <3>2, Elsewhere
      <4>3. Shared(p)
        BY <4>2 DEF SharedInv
      <4> QED
        BY <2>2, <4>1, <4>2, <4>3 DEF Shared, Users
    <3> QED
      BY <3>1, <3>2
  <2> QED
    BY <2>2, <2>3 DEF SharedInv
<1> QED
  BY <1>1, <1>2

\* In every behavior: no test loses a key that is committed, and all get the same ones,
\* if those that make keys run alone, and none of these fails or is killed; any number
\* of others may read the file at the same time.
THEOREM KeysAgreed == Spec => []KeysAgree
<1>1. Init => MadeOne /\ KeysInv /\ SharedInv
  <2>1. Init => SharedInv
    BY DEF Init, SharedInv, Shared, Tests
  <2> QED
    BY <2>1, KeysInit
<1>2. Inv /\ MadeOne /\ KeysInv /\ SharedInv /\ [Next]_vars =>
        MadeOne' /\ KeysInv' /\ SharedInv'
  BY MadeOneNext, KeysNext, SharedNext
<1>3. KeysInv /\ SharedInv => KeysAgree
  <2> SUFFICES ASSUME KeysInv, SharedInv, NEW p \in Tests, pc[p] = "ok", Orderly(job[p].bucket)
               PROVE  /\ \A i \in 1..Len(mem[p].got) :
                           i <= job[p].committed => mem[p].got[i] = <<0, i>>
                      /\ \A q \in Users(job[p].bucket) : pc[q] = "ok" =>
                           \A i \in 1..Len(mem[p].got) :
                             i <= Len(mem[q].got) => mem[p].got[i] = mem[q].got[i]
    BY DEF KeysAgree, Orderly, Users
  <2> DEFINE b == job[p].bucket
             c == Read(b)
  <2>1. \A t \in Tests : job[t].bucket = b => Holds(t) /\ Kept(t) /\ Shared(t)
    BY DEF KeysInv, SharedInv
  <2>2. ASSUME NEW i \in 1..Len(mem[p].got), i <= job[p].committed
        PROVE  mem[p].got[i] = <<0, i>>
    <3>1. /\ mem[p].got \in Seq(Pairs) /\ mem[p].keys \in Seq(Pairs)
          /\ Leads(mem[p].got, mem[p].keys) /\ mem[p].keys # <<>>
      BY <2>1 DEF Holds
    <3>2. Has(mem[p].keys, job[p].committed) /\ job[p].committed \in Nat
      BY <2>1, <3>1 DEF Kept
    <3> QED
      BY <2>2, <3>1, <3>2 DEF Has, Leads
  <2>3. ASSUME NEW q \in Users(b), pc[q] = "ok", NEW i \in 1..Len(mem[p].got),
               i <= Len(mem[q].got)
        PROVE  mem[p].got[i] = mem[q].got[i]
    <3>1. q \in Tests /\ job[q].bucket = b
      BY DEF Users
    <3>2. mem[p].got \in Seq(Pairs) /\ mem[q].got \in Seq(Pairs)
      BY <2>1, <3>1 DEF Holds
    <3>3. PICK s : Leads(mem[p].got, s) /\ Leads(mem[q].got, s)
      <4>1. CASE ~Saving(b)
        <5>1. Leads(mem[p].got, c.data) /\ Leads(mem[q].got, c.data)
          BY <2>1, <2>3, <3>1, <4>1 DEF Shared
        <5> QED
          BY <5>1
      <4>2. CASE Saving(b)
        <5>1. PICK u \in Users(b) : pc[u] = "save keys"
          BY <4>2 DEF Saving
        <5>2. mem[u].keys # <<>>
          BY <2>1, <5>1 DEF Users, Holds
        <5>3. Leads(mem[p].got, mem[u].keys) /\ Leads(mem[q].got, mem[u].keys)
          BY <2>1, <2>3, <3>1, <5>1, <5>2 DEF Shared
        <5> QED
          BY <5>3
      <4> QED
        BY <4>1, <4>2
    <3> QED
      BY <2>3, <3>2, <3>3 DEF Leads
  <2> QED
    BY <2>2, <2>3
<1> QED
  BY <1>1, <1>2, <1>3, Inductive, PTL DEF Spec

-----------------------------------------------------------------------------
(* What verify says of the files that gets have written                    *)

\* Of all servers, at most one is ever started.
OneServer == \A q, r \in Runs : Began(q) /\ Began(r) => q = r

\* What is at the socket f: a server that has been started, and a trust domain that
\* a document gives the workload there.
Served(f, source) ==
  \E r \in Runs : Began(r) /\ \E t \in Domains(f) : source = [by |-> r, td |-> t]

\* The steps before which a client has dialed.
Dialed == {"fetch", "write key", "write cert", "write bundle", "write token",
           "read", "keys", "request", "ok"}

SourceInv ==
  OneServer =>
    \A p \in Processes : UsesSocket(job[p]) /\ pc[p] \in Dialed => Served(Socket(p), mem[p].source)

\* What is in the documents, and stays there.
ClaimsInv ==
  \A doc \in Documents(job) : \A t \in DOMAIN doc.td :
    t \notin {Unset, NoSpiffeID} /\ \A r \in Processes : [by |-> r, td |-> t] # Unset

\* The trust domains at a socket are some of the documents'.
LEMMA DomainsNamed ==
  ASSUME NEW f, NEW t \in Domains(f)
  PROVE  \E doc \in Documents(job) : t \in DOMAIN doc.td
<1>1. PICK doc \in Documents(job) : \E w \in WorkloadsOf(LoadConfig(doc)) : t = w.ID[1]
  BY DEF Domains
<1>2. PICK w \in WorkloadsOf(LoadConfig(doc)) : t = w.ID[1]
  BY <1>1
<1> DEFINE table(u) == {WorkloadConfig(u, n, doc.td[u].workload[n]) : n \in DOMAIN doc.td[u].workload}
<1>3. /\ DOMAIN LoadConfig(doc).TrustDomains = DOMAIN doc.td
      /\ \A u \in DOMAIN doc.td : LoadConfig(doc).TrustDomains[u].Workloads = table(u)
  BY DEF LoadConfig
<1>4. PICK u \in DOMAIN doc.td : w \in table(u)
  BY <1>3 DEF WorkloadsOf
<1>5. PICK n : w = WorkloadConfig(u, n, doc.td[u].workload[n])
  BY <1>4
<1>6. w.ID[1] = u
  BY <1>5 DEF WorkloadConfig
<1> QED
  BY <1>2, <1>6

\* What a socket answers with, as no run of a sole server has been killed that serves.
LEMMA Answered ==
  ASSUME ServeInv, OneServer, NEW f, NEW source \in Answers(f)
  PROVE  Served(f, source)
<1> DEFINE r == Read(f).data
<1>1. r \in Runs /\ pc[r] = "serving"
  BY DEF Answers
<1>2. PICK w \in WorkloadsOf(mem[r].config) :
        w.SocketPath = f /\ source = [by |-> r, td |-> w.ID[1]]
  BY DEF Answers
<1>3. \A q \in Runs \ {r} : ~Began(q)
  BY <1>1 DEF OneServer, Began
<1>4. PICK doc \in Documents(job) : mem[r].config = LoadConfig(doc)
  BY <1>1, <1>3 DEF ServeInv, Serves
<1>5. w.ID[1] \in Domains(f)
  BY <1>2, <1>4 DEF Domains
<1> QED
  BY <1>1, <1>2, <1>5 DEF Served, Began

\* Where a command begins.
LEMMA Started ==
  ASSUME NEW p \in Processes, DOMAIN pc = Processes, StartCommand(p)
  PROVE  /\ pc'[p] \in {"refused", "dial", "keys", "read"}
         /\ UsesSocket(job[p]) => pc'[p] \in {"refused", "dial"}
         /\ job[p].cmd # "inspect jwks" => pc'[p] # "keys"
<1> DEFINE k == CASE UsesSocket(job[p]) -> "dial"
                  [] job[p].cmd = "inspect jwks" -> "keys"
                  [] OTHER -> "read"
<1>1. pc'[p] = IF Refuses(job[p]) THEN "refused" ELSE k
  <2>1. Begin(p, IF Refuses(job[p]) THEN "refused" ELSE k)
    BY Zenon DEF StartCommand
  <2> HIDE DEF k
  <2> QED
    BY <2>1 DEF Begin
<1>2. UsesSocket(job[p]) => job[p].cmd # "inspect jwks"
  BY DEF UsesSocket
<1>3. /\ k \in {"dial", "keys", "read"}
      /\ UsesSocket(job[p]) => k = "dial"
      /\ job[p].cmd # "inspect jwks" => k # "keys"
  BY <1>2
<1> HIDE DEF k
<1> QED
  BY <1>1, <1>3

\* A client has its source from its socket, and keeps it when it goes on.
LEMMA SourceStep ==
  ASSUME Inv, NEW p \in Processes, StepOf(p), UsesSocket(job[p]), pc'[p] \in Dialed
  PROVE  \/ mem'[p].source \in Answers(Socket(p))
         \/ pc[p] \in Dialed /\ mem'[p].source = mem[p].source
<1>1. /\ DOMAIN pc = Processes /\ DOMAIN mem = Processes /\ DOMAIN mem[p] = Fields
  BY DEF Inv, StepInv, MemAt
<1>2. \A m, v :
        /\ m = [mem[p] EXCEPT !.source = v] => m.source = v
        /\ m = [mem[p] EXCEPT !.got = v] => m.source = mem[p].source
        /\ m = [mem[p] EXCEPT !.open = v] => m.source = mem[p].source
  BY <1>1 DEF Fields
<1>3. ASSUME NEW l, NEW k, NEW m, Goto(p, l, k, m)
      PROVE  pc[p] = l /\ mem'[p] = m /\ pc'[p] = k
  BY <1>1, <1>3 DEF Goto
<1>4. CASE Dial(p) \/ Refresh(p)
  <2>1. \E source \in Answers(Socket(p)) : \E l, k : Goto(p, l, k, [mem[p] EXCEPT !.source = source])
    BY <1>4, Zenon DEF Dial, Refresh, Socket
  <2> QED
    BY <1>2, <1>3, <2>1
<1>5. ASSUME NEW l \in Dialed, NEW f, NEW c, NEW k, WriteFile(p, l, f, c, k)
      PROVE  pc[p] \in Dialed /\ mem'[p].source = mem[p].source
  <2>1. PICK i, m : /\ Goto(p, l, i, m)
                    /\ m = mem[p] \/ \E v : m = [mem[p] EXCEPT !.open = v]
    BY <1>5, Zenon DEF WriteFile
  <2> QED
    BY <1>2, <1>3, <1>5, <2>1
<1>6. CASE WriteKey(p) \/ WriteCert(p) \/ WriteBundle(p) \/ WriteToken(p)
  <2>1. {"write key", "write cert", "write bundle", "write token"} \subseteq Dialed
    BY DEF Dialed
  <2> QED
    BY <1>5, <1>6, <2>1 DEF WriteKey, WriteCert, WriteBundle, WriteToken
<1>7. CASE Fetch(p) \/ VerifyX509SVID(p) \/ GetToken(p) \/ GetKeys(p) \/ HttpGet(p)
  <2>1. \E l \in {"fetch", "read", "keys", "request"} : \E k, m :
          /\ Goto(p, l, k, m)
          /\ m = mem[p] \/ \E v : m = [mem[p] EXCEPT !.got = v]
    BY <1>7, Zenon DEF Fetch, VerifyX509SVID, GetToken, GetKeys, HttpGet, UseKeys
  <2>2. PICK l \in {"fetch", "read", "keys", "request"} :
          \E k, m : Goto(p, l, k, m) /\ (m = mem[p] \/ \E v : m = [mem[p] EXCEPT !.got = v])
    BY <2>1
  <2>3. PICK k, m : Goto(p, l, k, m) /\ (m = mem[p] \/ \E v : m = [mem[p] EXCEPT !.got = v])
    BY <2>2
  <2>4. pc[p] = l /\ mem'[p] = m
    BY <1>3, <2>3
  <2> QED
    BY <1>2, <2>3, <2>4 DEF Dialed
<1>8. CASE StartCommand(p)
  <2>1. pc'[p] \in {"refused", "dial"}
    BY <1>1, <1>8, Started
  <2> QED
    BY <2>1 DEF Dialed
<1>9. CASE Deadline(p) \/ Kill(p)
  <2>1. pc'[p] \in {"timeout", "dead"}
    BY <1>1, <1>9 DEF Deadline, Goto, Kill
  <2> QED
    BY <2>1 DEF Dialed
<1>10. \/ job[p].cmd \in {"get x509-svid", "get bundle", "get jwt-svid", "verify x509-svid"}
       \/ job[p].cmd = "verify jwt-svid"
  BY DEF UsesSocket
<1> QED
  BY <1>4, <1>6, <1>7, <1>8, <1>9, <1>10, StepsOfJobs

\* What has begun has begun for good, and what a socket was is what it is.
LEMMA BegunStays ==
  ASSUME NEW q \in Processes, Frame(q)
  PROVE  /\ \A t \in Processes : Began(t) => Began(t)'
         /\ OneServer' => OneServer
         /\ \A f : Domains(f)' = Domains(f)
         /\ \A p : Socket(p)' = Socket(p)
         /\ \A f, source : Served(f, source) => Served(f, source)'
<1>1. job' = job /\ Runs' = Runs
  BY DEF Frame, Runs
<1>2. \A t \in Processes : Began(t) => Began(t)'
  BY DEF Frame, Began
<1>3. OneServer' => OneServer
  BY <1>1, <1>2 DEF OneServer, Runs
<1>4. (\A f : Domains(f)' = Domains(f)) /\ \A p : Socket(p)' = Socket(p)
  BY <1>1 DEF Domains, Socket
<1>5. \A f, source : Served(f, source) => Served(f, source)'
  BY <1>1, <1>2, <1>4 DEF Served, Runs
<1> QED
  BY <1>2, <1>3, <1>4, <1>5

\* A step keeps the sources.
LEMMA SourceNext ==
  ASSUME Inv, ServeInv, SourceInv, [Next]_vars
  PROVE  SourceInv'
<1>1. CASE UNCHANGED vars
  <2>1. /\ job' = job /\ pc' = pc /\ mem' = mem /\ Runs' = Runs
        /\ \A f : Domains(f)' = Domains(f)
        /\ \A p : Socket(p)' = Socket(p) /\ Began(p)' = Began(p)
    BY <1>1 DEF vars, Runs, Domains, Socket, Began
  <2>2. OneServer' => OneServer
    BY <2>1 DEF OneServer
  <2>3. \A f, source : Served(f, source) => Served(f, source)'
    BY <2>1 DEF Served
  <2> SUFFICES ASSUME OneServer', NEW p \in Processes, UsesSocket(job[p]), pc[p] \in Dialed
               PROVE  Served(Socket(p), mem[p].source)'
    BY <2>1 DEF SourceInv
  <2>4. PICK f, source : f = Socket(p) /\ source = mem[p].source
    OBVIOUS
  <2>5. Served(f, source)'
    BY <2>2, <2>3, <2>4 DEF SourceInv
  <2> QED
    BY <2>1, <2>4, <2>5 DEF Served
<1>2. CASE Next
  <2>1. PICK q \in Processes : StepOf(q)
    BY <1>2 DEF Next, StepOf
  <2>2. Frame(q) /\ job' = job
    BY <2>1, StepOfInv DEF Frame
  <2> SUFFICES ASSUME OneServer', NEW p \in Processes, UsesSocket(job[p]), pc'[p] \in Dialed
               PROVE  Served(Socket(p), mem[p].source)'
    BY <2>2 DEF SourceInv
  <2>3. OneServer
    BY <2>2, BegunStays
  <2>4. PICK f, source : f = Socket(p) /\ source = mem'[p].source
    OBVIOUS
  <2>5. Served(f, source)
    <3>1. CASE p # q
      BY <2>2, <2>3, <2>4, <3>1 DEF Frame, SourceInv
    <3>2. CASE p = q
      BY <2>1, <2>3, <2>4, <3>2, SourceStep, Answered DEF SourceInv
    <3> QED
      BY <3>1, <3>2
  <2>6. Served(f, source)' /\ f = Socket(p)'
    BY <2>2, <2>4, <2>5, BegunStays
  <2> QED
    BY <2>4, <2>6 DEF Served
<1> QED
  BY <1>1, <1>2

-----------------------------------------------------------------------------

\* A get that writes one file to f, and nobody else that writes it has been started.
Getter(g) ==
  /\ job[g].cmd \in {"get x509-svid", "get bundle", "get jwt-svid"}
  /\ job[g].out # None /\ (job[g].cmd = "get jwt-svid" => ~job[g].decode)
  /\ \A h \in Processes \ {g} : job[g].out \in Outputs(job[h]) => ~Began(h)

\* The step at which it writes it, and what it writes.
Last(cmd) ==
  CASE cmd = "get x509-svid" -> "write cert"
    [] cmd = "get bundle" -> "write bundle"
    [] cmd = "get jwt-svid" -> "write token"

Content(g) ==
  CASE job[g].cmd = "get x509-svid" -> Certs(Format(job[g]), <<X509SVID(g, mem[g].source)>>)
    [] job[g].cmd = "get bundle" ->
         IF job[g].type = "x509" THEN Certs("pem", <<Authority(mem[g].source)>>)
         ELSE Jwks({mem[g].source})
    [] job[g].cmd = "get jwt-svid" -> Jwt(JwtSVID(mem[g].source, CreateParams(job[g])))

\* The file of a get, as far as it has come.
Made(g) ==
  /\ pc[g] = "write token" => mem[g].got = JwtSVID(mem[g].source, CreateParams(job[g]))
  /\ pc[g] = Last(job[g].cmd) /\ mem[g].open # None => Contains(job[g].out, mem[g].open)
  /\ pc[g] = "ok" => Read(job[g].out) = Content(g)

MadeInv == \A g \in Processes : Getter(g) => Made(g)

\* What others do is nothing to the file of a get.
LEMMA MadeStays ==
  ASSUME Inv, MadeInv, NEW g \in Processes, NEW q \in Processes \ {g}, Frame(q), Getter(g)'
  PROVE  Made(g)'
<1>1. /\ job' = job /\ pc'[g] = pc[g] /\ mem'[g] = mem[g] /\ DOMAIN file' = DOMAIN file
  BY DEF Frame
<1>2. Getter(g)
  BY <1>1, BegunStays DEF Getter
<1>3. Began(q)'
  BY DEF Frame, Began
<1>4. job[g].out \notin Outputs(job[q])
  BY <1>1, <1>3 DEF Getter
<1>5. job[g].out \in Outputs(job[g])
  BY <1>2 DEF Getter, Outputs
<1>6. Read(job[g].out)' = Read(job[g].out)
  <2>1. job[g].out \in Used /\ job[g].out \notin Touches(job[q])
    BY <1>4, <1>5, UsedConfigs DEF Touches
  <2> QED
    BY <1>1, <2>1 DEF Frame, Own, Read
<1>7. Content(g)' = Content(g)
  BY <1>1 DEF Content, X509SVID
<1>8. \A d : Contains(job[g].out, d) => Contains(job[g].out, d)'
  <2>1. job[g].out \in Used /\ job[g].out \notin Touches(job[q])
    BY <1>4, <1>5, UsedConfigs DEF Touches
  <2> QED
    BY <1>1, <2>1 DEF Frame, Own, Contains
<1> QED
  BY <1>1, <1>2, <1>6, <1>7, <1>8 DEF MadeInv, Made

\* The last write of a get.
LEMMA LastWrite ==
  ASSUME Inv, NEW p \in Processes, Frame(p), Made(p),
         NEW l \in {"write cert", "write bundle", "write token"}, l = Last(job[p].cmd),
         NEW f, f = job[p].out, NEW c, c = Content(p),
         WriteFile(p, l, f, c, "ok")
  PROVE  Made(p)'
<1>1. /\ job' = job /\ DOMAIN pc = Processes /\ DOMAIN mem = Processes /\ DOMAIN mem[p] = Fields
      /\ DOMAIN file' = DOMAIN file
  BY DEF Frame, Inv, StepInv, MemAt
<1>2. pc[p] = l /\ (mem[p].open # None => Contains(f, mem[p].open))
  BY DEF WriteFile, Made
<1>3. \/ /\ pc'[p] = l /\ f \in DOMAIN file
         /\ \E d : /\ file' = [file EXCEPT ![f] = d]
                   /\ mem' = [mem EXCEPT ![p] = [mem[p] EXCEPT !.open = d]]
      \/ /\ pc'[p] = "ok" /\ f \in DOMAIN file /\ file' = [file EXCEPT ![f] = c]
         /\ \E o : mem' = [mem EXCEPT ![p] = [mem[p] EXCEPT !.open = o]]
      \/ pc'[p] = "error"
  BY <1>1, <1>2, WriteDone
<1>4. CASE pc'[p] = "error"
  BY <1>1, <1>4 DEF Made
<1>5. CASE pc'[p] # "error"
  <2>1. mem'[p].source = mem[p].source /\ mem'[p].got = mem[p].got
    <3>1. \A m, o : m = [mem[p] EXCEPT !.open = o] => m.source = mem[p].source /\ m.got = mem[p].got
      BY <1>1 DEF Fields
    <3>2. PICK m, o : m = [mem[p] EXCEPT !.open = o] /\ mem' = [mem EXCEPT ![p] = m]
      BY <1>3, <1>5
    <3> QED
      BY <1>1, <3>1, <3>2
  <2>2. Content(p)' = Content(p)
    BY <1>1, <2>1 DEF Content, X509SVID
  <2>3. f \in DOMAIN file' /\ file'[f] = IF pc'[p] = "ok" THEN c ELSE mem'[p].open
    <3>1. \A m, o : m = [mem[p] EXCEPT !.open = o] => m.open = o
      BY <1>1 DEF Fields
    <3>2. CASE /\ pc'[p] = l /\ f \in DOMAIN file
               /\ \E d : /\ file' = [file EXCEPT ![f] = d]
                         /\ mem' = [mem EXCEPT ![p] = [mem[p] EXCEPT !.open = d]]
      <4>1. PICK d, m : /\ file' = [file EXCEPT ![f] = d]
                        /\ m = [mem[p] EXCEPT !.open = d] /\ mem' = [mem EXCEPT ![p] = m]
        BY <3>2
      <4>2. m.open = d
        BY <3>1, <4>1
      <4> QED
        BY <1>1, <3>2, <4>1, <4>2
    <3> QED
      BY <1>1, <1>3, <1>5, <3>2
  <2>4. pc'[p] \in {l, "ok"}
    BY <1>3, <1>5
  <2>5. pc'[p] = "write token" => mem'[p].got = JwtSVID(mem'[p].source, CreateParams(job[p]))
    BY <1>2, <2>1, <2>4 DEF Made
  <2> QED
    BY <1>1, <2>2, <2>3, <2>4, <2>5 DEF Made, Read, Contains
<1> QED
  BY <1>4, <1>5

\* A get writes its file once it has what it writes.
LEMMA MadeStep ==
  ASSUME Inv, MadeInv, NEW p \in Processes, StepOf(p), Frame(p), Getter(p)'
  PROVE  Made(p)'
<1> DEFINE last == Last(job[p].cmd)
<1>1. /\ job' = job /\ DOMAIN pc = Processes /\ DOMAIN mem = Processes /\ DOMAIN mem[p] = Fields
  BY DEF Frame, Inv, StepInv, MemAt
<1>2. Getter(p) /\ Made(p)
  <2>1. Getter(p)
    BY <1>1, BegunStays DEF Getter
  <2> QED
    BY <2>1 DEF MadeInv
<1>3. job[p].cmd \in {"get x509-svid", "get bundle", "get jwt-svid"} /\ job[p].out # None
  BY <1>2 DEF Getter
<1>4. /\ job[p].cmd = "get x509-svid" => last = "write cert"
      /\ job[p].cmd = "get bundle" => last = "write bundle"
      /\ job[p].cmd = "get jwt-svid" => last = "write token"
  BY DEF Last
<1>5. ASSUME pc'[p] \notin {"write token", "ok"}, pc'[p] = last => mem'[p].open = None
      PROVE  Made(p)'
  BY <1>1, <1>5 DEF Made
<1> HIDE DEF last
<1>6. CASE WriteCert(p) /\ job[p].cmd = "get x509-svid"
  <2>1. Content(p) = Certs(Format(job[p]), <<X509SVID(p, mem[p].source)>>)
    BY <1>6 DEF Content
  <2> QED
    BY <1>2, <1>4, <1>6, <2>1, LastWrite DEF WriteCert, last
<1>7. CASE WriteBundle(p) /\ job[p].cmd = "get bundle"
  <2>1. Content(p) = IF job[p].type = "x509" THEN Certs("pem", <<Authority(mem[p].source)>>)
                     ELSE Jwks({mem[p].source})
    BY <1>7 DEF Content
  <2> QED
    BY <1>2, <1>4, <1>7, <2>1, LastWrite DEF WriteBundle, last
<1>8. CASE WriteToken(p) /\ job[p].cmd = "get jwt-svid"
  <2>1. Content(p) = Jwt(JwtSVID(mem[p].source, CreateParams(job[p])))
    BY <1>8 DEF Content
  <2>2. mem[p].got = JwtSVID(mem[p].source, CreateParams(job[p]))
    BY <1>2, <1>8 DEF Made, WriteToken, WriteFile
  <2> QED
    BY <1>2, <1>4, <1>8, <2>1, <2>2, LastWrite DEF WriteToken, last
<1>9. CASE WriteKey(p)
  <2>1. \/ pc' = [pc EXCEPT ![p] = "write key"] \/ pc' = [pc EXCEPT ![p] = "error"]
        \/ Goto(p, "write key", "write cert", [mem[p] EXCEPT !.open = None])
    BY <1>9, Zenon DEF WriteKey, WriteFile, Goto
  <2>2. CASE Goto(p, "write key", "write cert", [mem[p] EXCEPT !.open = None])
    <3>1. mem'[p].open = None /\ pc'[p] = "write cert"
      BY <1>1, <2>2 DEF Goto, Fields
    <3> QED
      BY <1>5, <3>1
  <2>3. job[p].cmd = "get x509-svid"
    BY <1>9 DEF WriteKey, WriteFile, Inv, StepInv, JobAt
  <2> QED
    BY <1>1, <1>4, <1>5, <2>1, <2>2, <2>3
<1>10. CASE Dial(p)
  <2>1. PICK source :
          Goto(p, "dial",
               CASE job[p].cmd = "get jwt-svid" -> "fetch"
                 [] job[p].cmd \in {"verify x509-svid", "verify jwt-svid"} -> "read"
                 [] OTHER -> Deliver(job[p], source),
               [mem[p] EXCEPT !.source = source])
    BY <1>10, Zenon DEF Dial
  <2>2. PICK k, m : k \in {"fetch", "error", "write key", "write bundle"} /\ Goto(p, "dial", k, m)
                    /\ m = [mem[p] EXCEPT !.source = source]
    <3>1. CASE job[p].cmd = "get jwt-svid"
      BY <2>1, <3>1
    <3>2. CASE job[p].cmd # "get jwt-svid"
      <4>1. Goto(p, "dial", Deliver(job[p], source), [mem[p] EXCEPT !.source = source])
        BY <1>3, <2>1, <3>2
      <4>2. Deliver(job[p], source) \in {"error", "write key", "write bundle"}
        BY <1>3 DEF Deliver
      <4> QED
        BY <4>1, <4>2
    <3> QED
      BY <3>1, <3>2
  <2>3. pc[p] = "dial" /\ pc'[p] = k /\ mem'[p] = m
    BY <1>1, <2>2 DEF Goto
  <2>4. m.open = None
    <3>1. pc[p] \notin Writes
      BY <2>3 DEF Writes
    <3>2. m = [mem[p] EXCEPT !.source = source]
      BY <2>2
    <3> QED
      BY <3>1, <3>2, NothingOpen
  <2> QED
    BY <1>5, <2>2, <2>3, <2>4
<1>11. CASE Fetch(p) /\ job[p].cmd = "get jwt-svid"
  <2> DEFINE tok == JwtSVID(mem[p].source, CreateParams(job[p]))
  <2>1. pc[p] = "fetch" /\ ~job[p].decode
    BY <1>2, <1>11 DEF Fetch, Getter
  <2>2. \/ Goto(p, "fetch", "write token", [mem[p] EXCEPT !.got = tok])
        \/ Goto(p, "fetch", "error", mem[p])
    BY <1>3, <1>11, <2>1 DEF Fetch
  <2>3. CASE Goto(p, "fetch", "error", mem[p])
    <3>1. pc'[p] = "error"
      BY <1>1, <2>3 DEF Goto
    <3> QED
      BY <1>4, <1>5, <1>11, <3>1
  <2>4. CASE Goto(p, "fetch", "write token", [mem[p] EXCEPT !.got = tok])
    <3>1. PICK m, v : v = tok /\ m = [mem[p] EXCEPT !.got = v]
      OBVIOUS
    <3>2. pc'[p] = "write token" /\ mem'[p] = m
      BY <1>1, <2>4, <3>1 DEF Goto
    <3>3. m.open = None
      BY <2>1, <3>1, NothingOpen DEF Writes
    <3>4. m.got = v /\ m.source = mem[p].source
      BY <1>1, <3>1 DEF Fields
    <3> QED
      BY <1>1, <3>1, <3>2, <3>3, <3>4 DEF Made
  <2> QED
    BY <2>2, <2>3, <2>4
<1>12. CASE StartCommand(p)
  <2>1. pc'[p] \in {"refused", "dial", "keys", "read"}
    BY <1>1, <1>12, Started
  <2> QED
    BY <1>3, <1>4, <1>5, <2>1
<1>13. CASE Deadline(p) \/ Kill(p)
  <2>1. pc'[p] \in {"timeout", "dead"}
    BY <1>1, <1>13 DEF Deadline, Goto, Kill
  <2> QED
    BY <1>3, <1>4, <1>5, <2>1
<1> QED
  BY <1>3, <1>6, <1>7, <1>8, <1>9, <1>10, <1>11, <1>12, <1>13, StepsOfJobs

\* A step keeps what gets have written.
LEMMA MadeNext ==
  ASSUME Inv, MadeInv, [Next]_vars
  PROVE  MadeInv'
<1>1. CASE UNCHANGED vars
  <2>1. job' = job /\ \A g : Getter(g)' = Getter(g) /\ Made(g)' = Made(g)
    BY <1>1 DEF vars, Getter, Began, Made, Read, Content, X509SVID, Contains
  <2> QED
    BY <2>1 DEF MadeInv
<1>2. CASE Next
  <2>1. PICK q \in Processes : StepOf(q)
    BY <1>2 DEF Next, StepOf
  <2>2. Frame(q)
    BY <2>1, StepOfInv
  <2>3. ASSUME NEW g \in Processes, Getter(g)'
        PROVE  Made(g)'
    BY <2>1, <2>2, <2>3, MadeStays, MadeStep
  <2> QED
    BY <2>3 DEF MadeInv
<1> QED
  BY <1>1, <1>2

-----------------------------------------------------------------------------

\* What a verify command has come to that should accept: the leaf and the token that
\* it holds are the ones that the get has written.
Judging(p) ==
  /\ pc[p] \notin {"unreadable", "rejected", "handshake", "download", "request"}
  /\ pc[p] = "roots" =>
       \A g \in before[p] :
         Put(p, g, job[p].leaf.path, "get x509-svid") =>
           mem[p].got = <<X509SVID(g, mem[g].source)>>
  /\ pc[p] = "keys" =>
       \A g \in before[p] :
         Put(p, g, job[p].in, "get jwt-svid") =>
           mem[p].got = JwtSVID(mem[g].source, CreateParams(job[g]))

JudgeInv == OneServer => \A p \in Processes : Supported(p) => Judging(p)

\* What is so of a command that is under way was so before the step.
LEMMA PutBefore ==
  ASSUME Inv, NEW p \in Processes, NEW q \in Processes, Frame(q), pc[p] # "new"
  PROVE  /\ before'[p] = before[p]
         /\ \A g \in before[p] : mem'[g] = mem[g] /\ pc'[g] = pc[g]
         /\ \A g, f, cmd : Put(p, g, f, cmd)' => Put(p, g, f, cmd)
         /\ Supported(p)' => Supported(p)
<1>1. before'[p] = before[p] /\ job' = job
  BY DEF Frame
<1>2. \A g \in before[p] : mem'[g] = mem[g] /\ pc'[g] = pc[g]
  BY DEF Frame, Inv, StepInv, Ended
<1>3. \A g, f, cmd : Put(p, g, f, cmd)' => Put(p, g, f, cmd)
  <2> SUFFICES ASSUME NEW g, NEW f, NEW cmd, Put(p, g, f, cmd)'
               PROVE  Put(p, g, f, cmd)
    OBVIOUS
  <2>1. /\ g \in before[p] /\ pc'[g] = "ok"
        /\ job[g].cmd = cmd /\ job[g].out = f /\ f # None /\ Agree(job[g], job[p])
        /\ \A h \in Processes \ {g} : f \in Outputs(job[h]) => ~Began(h)'
    BY <1>1 DEF Put
  <2>2. \A h \in Processes : Began(h) => Began(h)'
    BY BegunStays
  <2> QED
    BY <1>2, <2>1, <2>2 DEF Put
<1>4. Supported(p)' => Supported(p)
  <2>1. \A t, u : OneDomain(t, u)' = OneDomain(t, u)
    BY <1>1 DEF OneDomain, Domains, Socket
  <2>2. PICK j : j = job[p]
    OBVIOUS
  <2> QED
    BY <1>1, <1>3, <2>1, <2>2, Zenon DEF Supported
<1> QED
  BY <1>1, <1>2, <1>3, <1>4

\* A file that is put for a command is what its get has written.
LEMMA PutMade ==
  ASSUME MadeInv, NEW p \in Processes, NEW g \in Processes, NEW f, NEW cmd,
         cmd \in {"get x509-svid", "get bundle", "get jwt-svid"}, Put(p, g, f, cmd)
  PROVE  Read(f) = Content(g) /\ job[g].cmd = cmd /\ pc[g] = "ok" /\ Agree(job[g], job[p])
<1>1. /\ pc[g] = "ok" /\ job[g].cmd = cmd /\ job[g].out = f /\ f # None /\ Agree(job[g], job[p])
      /\ \A h \in Processes \ {g} : f \in Outputs(job[h]) => ~Began(h)
  BY DEF Put
<1>2. Getter(g)
  BY <1>1 DEF Getter, Agree
<1>3. Made(g)
  BY <1>2 DEF MadeInv
<1> QED
  BY <1>1, <1>3 DEF Made

\* Two clients that have dialed sockets of one trust domain have the same source.
LEMMA SameSource ==
  ASSUME OneServer, SourceInv, NEW p \in Processes, NEW q \in Processes,
         UsesSocket(job[p]), pc[p] \in Dialed, UsesSocket(job[q]), pc[q] \in Dialed, OneDomain(p, q)
  PROVE  mem[p].source = mem[q].source /\ Served(Socket(p), mem[p].source)
<1>1. Served(Socket(p), mem[p].source) /\ Served(Socket(q), mem[q].source)
  BY DEF SourceInv
<1>2. PICK r \in Runs : Began(r) /\ \E t \in Domains(Socket(p)) : mem[p].source = [by |-> r, td |-> t]
  BY <1>1 DEF Served
<1>3. PICK s \in Runs : Began(s) /\ \E t \in Domains(Socket(q)) : mem[q].source = [by |-> s, td |-> t]
  BY <1>1 DEF Served
<1>4. r = s /\ \A t, u \in Domains(Socket(p)) \cup Domains(Socket(q)) : t = u
  BY <1>2, <1>3 DEF OneServer, OneDomain
<1> QED
  BY <1>1, <1>2, <1>3, <1>4

\* verify accepts the SVID of a source by the source, and by its authority.
LEMMA Chained ==
  ASSUME NEW g, NEW source, NEW cert, cert = X509SVID(g, source)
  PROVE  VerifySVID(<<cert>>, source) /\ ExtractLeaf(<<cert>>) = 1 /\ Verify(<<cert>>, {source})
<1>1. ~cert.ca /\ cert.to.td = source.td /\ cert.by = source
  BY DEF X509SVID
<1>2. ExtractLeaf(<<cert>>) = 1
  BY DEF ExtractLeaf
<1> QED
  BY <1>1, <1>2 DEF VerifySVID, Verify

\* The token for an audience is accepted for it, by the key of the source.
LEMMA Accepted ==
  ASSUME ClaimsInv, NEW f, NEW source, Served(f, source), NEW g, NEW j,
         AudiencesOf(g) \cap AudiencesOf(j) # {},
         NEW tok, tok = JwtSVID(source, CreateParams(g))
  PROVE  ParseAndValidate(tok, {<<tok.sub, source>>}, AudiencesOf(j), Minted) /\ tok.sub = source.td
<1>1. source # Unset /\ source.td \notin {Unset, NoSpiffeID}
  <2>1. PICK r \in Runs : \E t \in Domains(f) : source = [by |-> r, td |-> t]
    BY DEF Served
  <2>2. PICK t \in Domains(f) : source = [by |-> r, td |-> t]
    BY <2>1
  <2>3. PICK doc \in Documents(job) : t \in DOMAIN doc.td
    BY DomainsNamed
  <2>4. source # Unset /\ t \notin {Unset, NoSpiffeID}
    BY <2>2, <2>3 DEF ClaimsInv, Runs
  <2> QED
    BY <2>2, <2>4
<1>2. PICK params, exp : params = CreateParams(g) /\ exp = Minted + DefaultWorkloadJWTSVIDTTL
  OBVIOUS
<1>3. AudiencesOf(j) \cap params # {}
  <2>1. PICK a \in AudiencesOf(j) : a \in AudiencesOf(g)
    OBVIOUS
  <2>2. PICK i \in 1..Len(g.audiences) : a = g.audiences[i]
    BY <2>1 DEF AudiencesOf
  <2>3. i = 1 \/ i \in 2..Len(g.audiences)
    OBVIOUS
  <2>4. a \in CreateParams(g)
    BY <2>2, <2>3 DEF CreateParams
  <2> QED
    BY <1>2, <2>4
<1>4. tok = [alg |-> "ES256", typ |-> "JWT", extra |-> FALSE, kid |-> source, sub |-> source.td,
             aud |-> params, exp |-> <<exp>>, nbf |-> Unset, iat |-> <<Minted>>, by |-> source]
  BY <1>2 DEF JwtSVID
<1>5. /\ tok.alg = "ES256" /\ tok.kid = source /\ tok.sub = source.td /\ tok.aud = params
      /\ tok.exp = <<exp>> /\ tok.nbf = Unset /\ tok.iat = <<Minted>> /\ tok.by = source
  BY <1>4
<1>6. tok.exp # Unset /\ InTime(tok, Minted)
  <2>1. Minted \in Int /\ <<exp>> # Unset /\ exp = Minted + 60
    BY <1>2, ClaimsAssumption DEF DefaultWorkloadJWTSVIDTTL
  <2>2. tok.exp[1] = exp /\ tok.iat[1] = Minted
    BY <1>5
  <2> QED
    BY <1>5, <2>1, <2>2 DEF InTime, Leeway
<1>7. ValidateToken(tok, {<<tok.sub, source>>}, {}, Minted)
  BY <1>1, <1>5, <1>6 DEF ValidateToken, Signed, SvidSignatureAlgorithms
<1> QED
  BY <1>3, <1>5, <1>6, <1>7 DEF ParseAndValidate

\* The certificate of a get is accepted by the server it is from.
LEMMA SvidAccepted ==
  ASSUME Inv, OneServer, SourceInv, MadeInv, NEW p \in Processes, Supported(p), VerifyX509SVID(p)
  PROVE  pc'[p] = "ok"
<1>1. /\ job[p].cmd = "verify x509-svid" /\ pc[p] = "read" /\ DOMAIN pc = Processes
      /\ before[p] \subseteq Processes
  BY DEF VerifyX509SVID, Goto, Inv, StepInv
<1>2. PICK g \in before[p] : Put(p, g, job[p].in, "get x509-svid") /\ OneDomain(p, g)
  BY <1>1 DEF Supported
<1>3. PICK f, source : f = job[p].in /\ source = mem[p].source
  OBVIOUS
<1>4. /\ Read(f) = Content(g) /\ job[g].cmd = "get x509-svid" /\ pc[g] = "ok"
      /\ Format(job[g]) = Format(job[p])
  BY <1>1, <1>2, <1>3, PutMade DEF Agree
<1>5. mem[g].source = source
  <2>1. UsesSocket(job[p]) /\ UsesSocket(job[g]) /\ pc[p] \in Dialed /\ pc[g] \in Dialed
    BY <1>1, <1>4 DEF UsesSocket, Dialed
  <2> QED
    BY <1>1, <1>2, <1>3, <2>1, SameSource
<1>6. PICK cert : cert = X509SVID(g, source)
  OBVIOUS
<1>7. Read(f) = Certs(Format(job[p]), <<cert>>)
  BY <1>4, <1>5, <1>6 DEF Content
<1>8. ReadCertificates(Read(f), Format(job[p])) = <<cert>>
  BY <1>7 DEF ReadCertificates, Certs
<1>9. VerifySVID(<<cert>>, source) /\ <<cert>> # <<>>
  BY <1>6, Chained
<1> DEFINE k(certs) == CASE certs = <<>> -> "unreadable"
                         [] certs # <<>> /\ VerifySVID(certs, source) -> "ok"
                         [] OTHER -> "rejected"
<1>10. k(<<cert>>) = "ok"
  BY <1>9
<1>11. Goto(p, "read", k(ReadCertificates(Read(f), Format(job[p]))), mem[p])
  BY <1>3, Zenon DEF VerifyX509SVID
<1> HIDE DEF k
<1> QED
  BY <1>1, <1>8, <1>10, <1>11 DEF Goto

\* The leaf of a verify is the certificate that the get has written.
LEMMA LeafRead ==
  ASSUME Inv, MadeInv, NEW p \in Processes, Supported(p), ReadLeaf(p)
  PROVE  /\ pc'[p] = "roots"
         /\ \A g \in before[p] :
              Put(p, g, job[p].leaf.path, "get x509-svid") =>
                mem'[p].got = <<X509SVID(g, mem[g].source)>>
<1>1. /\ job[p].cmd = "verify x509" /\ DOMAIN pc = Processes /\ DOMAIN mem = Processes
      /\ DOMAIN mem[p] = Fields /\ before[p] \subseteq Processes
  BY DEF ReadLeaf, Inv, StepInv, MemAt
<1>2. /\ job[p].leaf.scheme = ""
      /\ \E g \in before[p] : Put(p, g, job[p].leaf.path, "get x509-svid")
  BY <1>1 DEF Supported
<1>3. PICK f, certs : f = job[p].leaf.path /\ certs = ReadCertificates(Read(f), Format(job[p]))
  OBVIOUS
<1>4. ASSUME NEW g \in before[p], Put(p, g, f, "get x509-svid")
      PROVE  certs = <<X509SVID(g, mem[g].source)>> /\ certs # <<>> /\ ExtractLeaf(certs) # 0
  <2>1. Read(f) = Content(g) /\ job[g].cmd = "get x509-svid" /\ Format(job[g]) = Format(job[p])
    BY <1>1, <1>4, PutMade DEF Agree
  <2>2. PICK source, cert : source = mem[g].source /\ cert = X509SVID(g, source)
    OBVIOUS
  <2>3. Read(f) = Certs(Format(job[p]), <<cert>>)
    BY <2>1, <2>2 DEF Content
  <2>4. certs = <<cert>>
    BY <1>3, <2>3 DEF ReadCertificates, Certs
  <2>5. ExtractLeaf(<<cert>>) = 1
    BY <2>2, Chained
  <2>6. <<cert>> # <<>>
    OBVIOUS
  <2> QED
    BY <2>2, <2>4, <2>5, <2>6
<1>5. certs # <<>> /\ ExtractLeaf(certs) # 0
  BY <1>2, <1>3, <1>4
<1>6. Goto(p, "read", "roots", [mem[p] EXCEPT !.got = certs])
  BY <1>2, <1>3, <1>5 DEF ReadLeaf
<1>7. pc'[p] = "roots" /\ mem'[p].got = certs
  BY <1>1, <1>6 DEF Goto, Fields
<1> QED
  BY <1>3, <1>4, <1>7

\* The leaf is accepted by the bundle that a get has written.
LEMMA LeafAccepted ==
  ASSUME Inv, OneServer, SourceInv, MadeInv, NEW p \in Processes, Supported(p), Judging(p),
         ReadRoots(p)
  PROVE  pc'[p] = "ok"
<1>1. /\ job[p].cmd = "verify x509" /\ pc[p] = "roots" /\ DOMAIN pc = Processes
      /\ before[p] \subseteq Processes
  BY DEF ReadRoots, Inv, StepInv, JobAt
<1>2. /\ job[p].anchors = {"ca-bundle"} /\ job[p].caFormat = "pem"
      /\ \E g, b \in before[p] :
           /\ Put(p, g, job[p].leaf.path, "get x509-svid") /\ Put(p, b, job[p].ca, "get bundle")
           /\ OneDomain(g, b)
  BY <1>1 DEF Supported
<1>3. PICK g \in before[p], b \in before[p] :
        /\ Put(p, g, job[p].leaf.path, "get x509-svid") /\ Put(p, b, job[p].ca, "get bundle")
        /\ OneDomain(g, b)
  BY <1>2
<1>4. PICK f, h, source : f = job[p].leaf.path /\ h = job[p].ca /\ source = mem[g].source
  OBVIOUS
<1>5. /\ job[g].cmd = "get x509-svid" /\ pc[g] = "ok"
      /\ Read(h) = Content(b) /\ job[b].cmd = "get bundle" /\ pc[b] = "ok" /\ job[b].type = "x509"
  <2>1. job[g].cmd = "get x509-svid" /\ pc[g] = "ok"
    BY <1>1, <1>3, PutMade
  <2>2. /\ Read(h) = Content(b) /\ job[b].cmd = "get bundle" /\ pc[b] = "ok"
        /\ Agree(job[b], job[p])
    BY <1>1, <1>3, <1>4, PutMade
  <2>3. job[b].type = "x509"
    BY <1>1, <2>2 DEF Agree
  <2> QED
    BY <2>1, <2>2, <2>3
<1>6. mem[b].source = source
  <2>1. UsesSocket(job[b]) /\ UsesSocket(job[g]) /\ pc[b] \in Dialed /\ pc[g] \in Dialed
    BY <1>5 DEF UsesSocket, Dialed
  <2> QED
    BY <1>1, <1>3, <1>4, <2>1, SameSource
<1>7. PICK cert, ca : cert = X509SVID(g, source) /\ ca = Authority(source)
  OBVIOUS
<1>8. mem[p].got = <<cert>>
  BY <1>1, <1>3, <1>4, <1>7 DEF Judging
<1>9. Read(h) = Certs("pem", <<ca>>)
  BY <1>5, <1>6, <1>7 DEF Content
<1>10. ReadCertificates(Read(h), "pem") = <<ca>>
  BY <1>9 DEF ReadCertificates, Certs
<1>11. ASSUME NEW certs, certs = <<ca>>
       PROVE  certs # <<>> /\ {certs[i].to : i \in DOMAIN certs} = {source}
  <2>1. ca.to = source
    BY <1>7 DEF Authority
  <2>2. certs # <<>> /\ DOMAIN certs = {1} /\ certs[1] = ca
    BY <1>11
  <2> QED
    BY <2>1, <2>2
<1>12. Verify(mem[p].got, {source})
  BY <1>7, <1>8, Chained
<1>13. Judge(p, "roots", {source})
  <2>1. job[p].anchors # {"root-program"} /\ job[p].anchors # {"system"}
    BY <1>2
  <2>2. PICK certs : certs = ReadCertificates(Read(h), "pem")
    OBVIOUS
  <2>3. certs # <<>> /\ {certs[i].to : i \in DOMAIN certs} = {source}
    BY <1>10, <1>11, <2>2
  <2>4. Judge(p, "roots", {certs[i].to : i \in DOMAIN certs})
    <3>1. certs = ReadCertificates(Read(job[p].ca), job[p].caFormat)
      BY <1>2, <1>4, <2>2
    <3> QED
      BY <1>2, <2>1, <2>3, <3>1, Zenon DEF ReadRoots
  <2> QED
    BY <2>3, <2>4, Zenon
<1> QED
  BY <1>1, <1>12, <1>13 DEF Judge, Goto

\* The token of a verify is the one that the get has written.
LEMMA TokenRead ==
  ASSUME Inv, MadeInv, NEW p \in Processes, Supported(p), GetToken(p)
  PROVE  /\ pc'[p] = "keys"
         /\ \A g \in before[p] :
              Put(p, g, job[p].in, "get jwt-svid") =>
                mem'[p].got = JwtSVID(mem[g].source, CreateParams(job[g]))
<1>1. /\ job[p].cmd = "verify jwt-svid" /\ DOMAIN pc = Processes /\ DOMAIN mem = Processes
      /\ DOMAIN mem[p] = Fields /\ before[p] \subseteq Processes
  BY DEF GetToken, Inv, StepInv, MemAt
<1>2. job[p].token = None /\ \E g \in before[p] : Put(p, g, job[p].in, "get jwt-svid")
  BY <1>1 DEF Supported
<1>3. PICK f, c : f = job[p].in /\ c = Read(f)
  OBVIOUS
<1>4. ASSUME NEW g \in before[p], Put(p, g, f, "get jwt-svid"),
             NEW tok, tok = JwtSVID(mem[g].source, CreateParams(job[g]))
      PROVE  c.kind = "jwt" /\ c.data = tok /\ c \notin {Absent, Torn}
  <2>1. Read(f) = Content(g) /\ job[g].cmd = "get jwt-svid"
    BY <1>1, <1>4, PutMade
  <2>2. c = [kind |-> "jwt", data |-> tok]
    BY <1>3, <1>4, <2>1 DEF Content, Jwt
  <2> QED
    BY <2>2 DEF Absent, Torn
<1>5. c.kind = "jwt" /\ c \notin {Absent, Torn}
  BY <1>2, <1>3, <1>4
<1> DEFINE k(d) == CASE d \in {Absent, Torn} -> "unreadable"
                     [] d.kind = "jwt" -> "keys"
                     [] OTHER -> "rejected"
<1>6. Goto(p, "read", k(c), [mem[p] EXCEPT !.got = IF c.kind = "jwt" THEN c.data ELSE None])
  BY <1>2, <1>3, Zenon DEF GetToken
<1>7. k(c) = "keys"
  BY <1>5
<1> HIDE DEF k
<1>8. pc'[p] = "keys" /\ mem'[p].got = c.data
  BY <1>1, <1>5, <1>6, <1>7 DEF Goto, Fields
<1> QED
  BY <1>3, <1>4, <1>8

\* The token is accepted by the keys of the server, and by those in a file.
LEMMA TokenAccepted ==
  ASSUME Inv, OneServer, SourceInv, MadeInv, ClaimsInv, NEW p \in Processes, Supported(p),
         Judging(p), GetKeys(p)
  PROVE  pc'[p] = "ok"
<1>1. pc[p] = "keys" /\ job[p].cmd = "verify jwt-svid" /\ DOMAIN pc = Processes
      /\ before[p] \subseteq Processes
  BY DEF GetKeys, Inv, StepInv, JobAt, Supported
<1>2. ASSUME NEW g \in before[p], Put(p, g, job[p].in, "get jwt-svid"),
             NEW q \in Processes, NEW source, mem[q].source = source,
             UsesSocket(job[q]), pc[q] \in Dialed, OneDomain(q, g)
      PROVE  /\ ParseAndValidate(mem[p].got, {<<mem[p].got.sub, source>>}, AudiencesOf(job[p]), Minted)
             /\ mem[p].got.sub = source.td
  <2>1. job[g].cmd = "get jwt-svid" /\ pc[g] = "ok" /\ Agree(job[g], job[p])
    BY <1>1, <1>2, PutMade
  <2>2. UsesSocket(job[g]) /\ pc[g] \in Dialed
    BY <2>1 DEF UsesSocket, Dialed
  <2>3. mem[g].source = source /\ Served(Socket(q), source)
    BY <1>1, <1>2, <2>2, SameSource
  <2>4. PICK f, tok : f = Socket(q) /\ tok = JwtSVID(source, CreateParams(job[g]))
    OBVIOUS
  <2>5. AudiencesOf(job[g]) \cap AudiencesOf(job[p]) # {}
    BY <2>1 DEF Agree
  <2>6. mem[p].got = tok
    BY <1>1, <1>2, <2>3, <2>4 DEF Judging
  <2>7. Served(f, source)
    BY <2>3, <2>4
  <2>8. PICK i, j : i = job[g] /\ j = job[p]
    OBVIOUS
  <2>9. ParseAndValidate(tok, {<<tok.sub, source>>}, AudiencesOf(j), Minted) /\ tok.sub = source.td
    BY <2>4, <2>5, <2>7, <2>8, Accepted
  <2> QED
    BY <2>6, <2>8, <2>9
<1>3. CASE UsesSocket(job[p])
  <2>1. job[p].bundle = None
    BY <1>1, <1>3 DEF UsesSocket
  <2>2. PICK g \in before[p] : Put(p, g, job[p].in, "get jwt-svid") /\ OneDomain(p, g)
    BY <1>1, <2>1 DEF Supported
  <2>3. PICK source : source = mem[p].source
    OBVIOUS
  <2>4. pc[p] \in Dialed
    BY <1>1 DEF Dialed
  <2>5. ParseAndValidate(mem[p].got, {<<source.td, source>>}, AudiencesOf(job[p]), Minted)
    <3>1. /\ ParseAndValidate(mem[p].got, {<<mem[p].got.sub, source>>}, AudiencesOf(job[p]), Minted)
          /\ mem[p].got.sub = source.td
      BY <1>2, <1>3, <2>2, <2>3, <2>4
    <3> QED
      BY <3>1
  <2>6. Goto(p, "keys", "ok", mem[p])
    BY <1>3, <2>3, <2>5 DEF GetKeys
  <2> QED
    BY <1>1, <2>6 DEF Goto
<1>4. CASE ~UsesSocket(job[p])
  <2>1. job[p].bundle # None
    BY <1>1, <1>4 DEF UsesSocket
  <2>2. /\ Location(job[p].bundle.scheme) = "file"
        /\ \E g, b \in before[p] :
             /\ Put(p, g, job[p].in, "get jwt-svid") /\ Put(p, b, job[p].bundle.path, "get bundle")
             /\ OneDomain(g, b)
    BY <1>1, <2>1 DEF Supported
  <2>3. PICK g \in before[p], b \in before[p] :
          /\ Put(p, g, job[p].in, "get jwt-svid") /\ Put(p, b, job[p].bundle.path, "get bundle")
          /\ OneDomain(g, b)
    BY <2>2
  <2>4. PICK f, c, source : f = job[p].bundle.path /\ c = Read(f) /\ source = mem[b].source
    OBVIOUS
  <2>5. Read(f) = Content(b) /\ job[b].cmd = "get bundle" /\ pc[b] = "ok" /\ job[b].type = "jwt"
    <3>1. /\ Read(f) = Content(b) /\ job[b].cmd = "get bundle" /\ pc[b] = "ok"
          /\ Agree(job[b], job[p])
      BY <1>1, <2>3, <2>4, PutMade
    <3>2. job[b].type = "jwt"
      BY <1>1, <3>1 DEF Agree
    <3> QED
      BY <3>1, <3>2
  <2>6. c = [kind |-> "jwks", data |-> {source}]
    BY <2>4, <2>5 DEF Content, Jwks
  <2>7. c.kind = "jwks" /\ c.data = {source}
    BY <2>6
  <2>8. UsesSocket(job[b]) /\ pc[b] \in Dialed /\ OneDomain(b, g)
    BY <2>3, <2>5 DEF UsesSocket, Dialed, OneDomain
  <2>9. ParseAndValidate(mem[p].got, {<<mem[p].got.sub, source>>}, AudiencesOf(job[p]), Minted)
    BY <1>1, <1>2, <2>3, <2>4, <2>8
  <2> DEFINE keys == {<<mem[p].got.sub, kid>> : kid \in c.data}
             valid == ParseAndValidate(mem[p].got, keys, AudiencesOf(job[p]), Minted)
             k == CASE c.kind # "jwks" -> "unreadable"
                    [] c.kind = "jwks" /\ job[p].cmd = "inspect jwks" ->
                         IF c.data = {} THEN "rejected" ELSE "ok"
                    [] OTHER -> IF valid THEN "ok" ELSE "rejected"
  <2>10. keys = {<<mem[p].got.sub, source>>}
    BY <2>7
  <2>11. valid
    BY <2>9, <2>10
  <2>12. k = "ok"
    <3> HIDE DEF valid
    <3> QED
      BY <1>1, <2>7, <2>11
  <2>13. UseKeys(p, "keys", c)
    BY <1>4, <2>2, <2>4 DEF GetKeys
  <2>14. Goto(p, "keys", k, mem[p])
    BY <2>13, Zenon DEF UseKeys
  <2> HIDE DEF k
  <2> QED
    BY <1>1, <2>12, <2>14 DEF Goto
<1> QED
  BY <1>3, <1>4

\* What is to be shown after a step of a command that is under way.
LEMMA JudgeOn ==
  ASSUME Inv, NEW p \in Processes, NEW q \in Processes, Frame(q), pc[p] # "new",
         pc'[p] \notin {"unreadable", "rejected", "handshake", "download", "request"},
         pc'[p] = "roots" =>
           \A g \in before[p] :
             Put(p, g, job[p].leaf.path, "get x509-svid") =>
               mem'[p].got = <<X509SVID(g, mem[g].source)>>,
         pc'[p] = "keys" =>
           \A g \in before[p] :
             Put(p, g, job[p].in, "get jwt-svid") =>
               mem'[p].got = JwtSVID(mem[g].source, CreateParams(job[g]))
  PROVE  Judging(p)'
<1>1. job' = job /\ before'[p] = before[p] /\ \A g \in before[p] : mem'[g] = mem[g]
  BY PutBefore DEF Frame
<1>2. \A g, f, cmd : Put(p, g, f, cmd)' => Put(p, g, f, cmd)
  BY PutBefore
<1> QED
  BY <1>1, <1>2, Zenon DEF Judging

\* A step of the command that should accept.
LEMMA JudgeStep ==
  ASSUME Inv, OneServer, SourceInv, MadeInv, ClaimsInv, JudgeInv,
         NEW p \in Processes, StepOf(p), Frame(p), Supported(p)'
  PROVE  Judging(p)'
<1>1. /\ job' = job /\ DOMAIN pc = Processes /\ DOMAIN mem = Processes /\ DOMAIN mem[p] = Fields
      /\ JobAt(job[p], pc[p])
  BY DEF Frame, Inv, StepInv, MemAt
<1>2. job[p].cmd \in {"verify x509-svid", "verify jwt-svid", "verify x509"}
  BY <1>1 DEF Supported
<1>3. ASSUME pc'[p] \notin {"unreadable", "rejected", "handshake", "download", "request"},
             pc'[p] \notin {"roots", "keys"}
      PROVE  Judging(p)'
  BY <1>3 DEF Judging
<1>4. CASE StartCommand(p)
  BY <1>1, <1>2, <1>3, <1>4, Started
<1>5. CASE Deadline(p) \/ Kill(p)
  <2>1. pc'[p] \in {"timeout", "dead"}
    BY <1>1, <1>5 DEF Deadline, Goto, Kill
  <2> QED
    BY <1>3, <2>1
<1>6. pc[p] # "new" => Supported(p) /\ Judging(p)
  BY PutBefore DEF JudgeInv
<1>7. CASE Dial(p)
  <2>1. job[p].cmd \in {"verify x509-svid", "verify jwt-svid"}
    BY <1>1, <1>2, <1>7 DEF Dial, JobAt, UsesSocket
  <2>2. PICK source :
          Goto(p, "dial",
               CASE job[p].cmd = "get jwt-svid" -> "fetch"
                 [] job[p].cmd \in {"verify x509-svid", "verify jwt-svid"} -> "read"
                 [] OTHER -> Deliver(job[p], source),
               [mem[p] EXCEPT !.source = source])
    BY <1>7, Zenon DEF Dial
  <2>3. pc'[p] = "read"
    BY <1>1, <2>1, <2>2 DEF Goto
  <2> QED
    BY <1>3, <2>3
<1>8. CASE Refresh(p)
  <2>1. \E source : Goto(p, pc[p], pc[p], [mem[p] EXCEPT !.source = source])
    BY <1>8, Zenon DEF Refresh
  <2>2. PICK m, source : m = [mem[p] EXCEPT !.source = source] /\ Goto(p, pc[p], pc[p], m)
    BY <2>1
  <2>3. pc'[p] = pc[p] /\ mem'[p] = m
    BY <1>1, <2>2 DEF Goto
  <2>4. m.got = mem[p].got
    BY <1>1, <2>2 DEF Fields
  <2>5. pc[p] \in {"read", "keys"}
    BY <1>8 DEF Refresh
  <2> QED
    BY <1>6, <2>3, <2>4, <2>5, JudgeOn DEF Judging
<1>9. CASE VerifyX509SVID(p) \/ ReadRoots(p) \/ GetKeys(p)
  <2>1. pc[p] # "new"
    BY <1>9 DEF VerifyX509SVID, Goto, ReadRoots, GetKeys
  <2>2. pc'[p] = "ok"
    BY <1>6, <1>9, <2>1, SvidAccepted, LeafAccepted, TokenAccepted
  <2> QED
    BY <1>3, <2>2
<1>10. CASE ReadLeaf(p) \/ GetToken(p)
  <2>1. pc[p] # "new"
    BY <1>10, Zenon DEF ReadLeaf, Goto, GetToken
  <2> QED
    BY <1>6, <1>10, <2>1, LeafRead, TokenRead, JudgeOn
<1>11. CASE HttpGet(p) \/ Handshake(p) \/ Download(p)
  <2>1. pc[p] \in {"request", "handshake", "download"}
    BY <1>11, Zenon DEF HttpGet, Handshake, Download, Judge, Goto
  <2> QED
    BY <1>6, <2>1 DEF Judging
<1> QED
  BY <1>2, <1>4, <1>5, <1>7, <1>8, <1>9, <1>10, <1>11, StepsOfJobs

\* A step keeps what is judged.
LEMMA JudgeNext ==
  ASSUME Inv, SourceInv, MadeInv, ClaimsInv, JudgeInv, [Next]_vars
  PROVE  JudgeInv'
<1>1. CASE UNCHANGED vars
  <2>1. /\ job' = job /\ pc' = pc /\ mem' = mem /\ before' = before /\ Runs' = Runs
        /\ \A f : Domains(f)' = Domains(f)
        /\ \A p : Socket(p)' = Socket(p) /\ Began(p)' = Began(p)
    BY <1>1 DEF vars, Runs, Domains, Socket, Began
  <2>2. \A p, g, f, cmd : Put(p, g, f, cmd)' = Put(p, g, f, cmd)
    BY <2>1 DEF Put
  <2>3. \A p, q : OneDomain(p, q)' = OneDomain(p, q)
    BY <2>1 DEF OneDomain
  <2>4. \A p : (Supported(p)' => Supported(p)) /\ (Judging(p) => Judging(p)')
    <3> SUFFICES ASSUME NEW p PROVE (Supported(p)' => Supported(p)) /\ (Judging(p) => Judging(p)')
      OBVIOUS
    <3>1. Supported(p)' => Supported(p)
      BY <2>1, <2>2, <2>3, Zenon DEF Supported
    <3>2. Judging(p) => Judging(p)'
      BY <2>1, <2>2, Zenon DEF Judging
    <3> QED
      BY <3>1, <3>2
  <2>5. OneServer' => OneServer
    BY <2>1 DEF OneServer
  <2> QED
    BY <2>4, <2>5 DEF JudgeInv
<1>2. CASE Next
  <2>1. PICK q \in Processes : StepOf(q)
    BY <1>2 DEF Next, StepOf
  <2>2. Frame(q)
    BY <2>1, StepOfInv
  <2>3. OneServer' => OneServer
    BY <2>2, BegunStays
  <2>4. ASSUME OneServer, NEW p \in Processes \ {q}, Supported(p)'
        PROVE  Judging(p)'
    <3>1. pc'[p] = pc[p] /\ mem'[p] = mem[p]
      BY <2>2 DEF Frame
    <3>2. CASE pc[p] = "new"
      BY <3>1, <3>2 DEF Judging
    <3>3. CASE pc[p] # "new"
      <4>1. Judging(p)
        BY <2>2, <2>4, <3>3, PutBefore DEF JudgeInv
      <4> QED
        BY <2>2, <3>1, <3>3, <4>1, JudgeOn DEF Judging
    <3> QED
      BY <3>2, <3>3
  <2> QED
    BY <2>1, <2>2, <2>3, <2>4, JudgeStep DEF JudgeInv
<1> QED
  BY <1>1, <1>2

\* In every behavior with one server: what gets of one trust domain have written,
\* verify accepts, against the server as against the files.
THEOREM RoundTrips == Spec => []RoundTrip
<1>1. Init => SourceInv /\ ClaimsInv /\ MadeInv /\ JudgeInv
  <2> SUFFICES ASSUME Init PROVE SourceInv /\ ClaimsInv /\ MadeInv /\ JudgeInv
    OBVIOUS
  <2>1. \A p \in Processes : pc[p] = "new"
    BY DEF Init
  <2>2. ClaimsInv
    <3>1. PICK s \in Scenarios : job = s.job
      BY DEF Init
    <3> QED
      BY <3>1, ClaimsAssumption DEF ClaimsInv
  <2>3. SourceInv /\ JudgeInv
    BY <2>1 DEF SourceInv, Dialed, JudgeInv, Judging
  <2>4. MadeInv
    <3>1. \A g \in Processes : Getter(g) => Last(job[g].cmd) # "new"
      BY DEF Getter, Last
    <3> QED
      BY <2>1, <3>1 DEF MadeInv, Made
  <2> QED
    BY <2>2, <2>3, <2>4
<1>2. Inv /\ ClaimsInv /\ [Next]_vars => ClaimsInv'
  <2> SUFFICES ASSUME Inv, ClaimsInv, [Next]_vars PROVE ClaimsInv'
    OBVIOUS
  <2>1. job' = job
    BY StepOfInv DEF Next, StepOf, Frame, vars
  <2> QED
    BY <2>1 DEF ClaimsInv
<1>3. Inv /\ ServeInv /\ SourceInv /\ [Next]_vars => SourceInv'
  BY SourceNext
<1>4. Inv /\ MadeInv /\ [Next]_vars => MadeInv'
  BY MadeNext
<1>5. Inv /\ SourceInv /\ MadeInv /\ ClaimsInv /\ JudgeInv /\ [Next]_vars => JudgeInv'
  BY JudgeNext
<1>6. JudgeInv => RoundTrip
  BY DEF JudgeInv, OneServer, Judging, RoundTrip
<1> QED
  BY <1>1, <1>2, <1>3, <1>4, <1>5, <1>6, Inductive, Serving, PTL DEF Spec

=============================================================================
