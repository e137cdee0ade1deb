------------------------------- MODULE Server -------------------------------
(***************************************************************************)
(* The life of the dev server: wlapi.Run, TrustDomain.Run, Workload.Run    *)
(* and runFederation, each a goroutine of the one above it, joined with    *)
(* errgroup.  Several processes of `spiffecli run` share a file system and *)
(* a TCP port: one may be killed, leave its sockets behind, and be started *)
(* again.  A process starts when the one before it has ended.              *)
(*                                                                         *)
(* The rotation of the authorities is TrustDomain's subject and one step   *)
(* here.  errgroup, net and grpc are modelled from how they are used: an   *)
(* error cancels the group's context, Wait waits for every goroutine, a    *)
(* Unix socket's path is unlinked when its listener closes, GracefulStop   *)
(* closes the listener and waits for the streams that are open.            *)
(***************************************************************************)
EXTENDS Integers, SequencesExt, FiniteSetsExt

CONSTANTS
  Processes,     \* the processes that may be started, numbered in that order
  TrustDomains,
  WorkloadsOf,   \* [Processes -> [TrustDomains -> sequences of workloads]]
  SocketPath,    \* [Processes -> [workload -> path]]: each reads its own config
  Federation,    \* [Processes -> values of config.Federation.Port > 0 to look at]
  Clients,
  MayFail        \* [Processes -> the operations that may fail], see Failures

Failures == {"rotate", "mkdir", "listen", "accept", "port"}

Groups == Processes \X TrustDomains
Configured(g) == WorkloadsOf[g[1]][g[2]]
ServersOf(g) == {g[1]} \X ToSet(Configured(g))
Servers == UNION {ServersOf(g) : g \in Groups}
GroupOf(x) == CHOOSE g \in Groups : x \in ServersOf(g)
Path(x) == SocketPath[x[1]][x[2]]
Paths == {Path(x) : x \in Servers}

\* A configuration without workloads leaves Run with nothing to wait for.
ASSUME ConfigAssumption ==
  /\ Processes \subseteq Nat \ {0}
  /\ \A g \in Groups : Configured(g) \in Seq(ToSet(Configured(g)))
  /\ \A g \in Groups : IsInjective(Configured(g))
  /\ \A g, h \in Groups : g # h => ServersOf(g) \cap ServersOf(h) = {}
  /\ \A p \in Processes : \E t \in TrustDomains : Configured(<<p, t>>) # <<>>
  /\ MayFail \in [Processes -> SUBSET Failures]
  /\ Federation \in [Processes -> SUBSET BOOLEAN \ {{}}]

VARIABLES
  proc,      \* process -> idle, running, returned (from wlapi.Run) or dead
  canceled,  \* processes whose Run was given a context that is now canceled
  failed,    \* <<process>> and <<process, trust domain>> whose errgroup has seen an error
  td,        \* <<process, trust domain>> -> where td.Run is
  made,      \* <<process, trust domain>> -> workloads NewWorkload has prepared
  wl,        \* <<process, workload>> -> where wl.Run is
  stopper,   \* <<process, workload>> -> the goroutine that calls GracefulStop
  open,      \* listeners that are open
  sock,      \* path -> the listener the socket file belongs to, or Free
  fed,       \* process -> where runFederation is
  port,      \* the process that listens on the federation port, Free or Other
  stream     \* client -> the server it has a stream with, or Free

tdVars == <<td, made>>
wlVars == <<wl, stopper, open, sock>>
fedVars == <<fed, port>>
vars == <<proc, canceled, failed, tdVars, wlVars, fedVars, stream>>

\* No one, and a program that is not one of the processes.
Free == <<>>
Other == <<0>>

Init ==
  /\ proc = [p \in Processes |-> "idle"]
  /\ canceled = {}
  /\ failed = {}
  /\ td = [g \in Groups |-> "idle"]
  /\ made = [g \in Groups |-> 0]
  /\ wl = [x \in Servers |-> "idle"]
  /\ stopper = [x \in Servers |-> "none"]
  /\ open = {}
  /\ sock = [f \in Paths |-> Free]
  /\ fed = [p \in Processes |-> "off"]
  /\ port \in {Free} \cup {Other : p \in {q \in Processes : "port" \in MayFail[q]}}
  /\ stream = [c \in Clients |-> Free]

\* The contexts derived by errgroup.WithContext, in wlapi.Run and td.Run.
RunCtxDone(p) == p \in canceled \/ <<p>> \in failed

\* A plausible bug: an errgroup.Group with no context of its own.
TdCtxDone_noGroup(g) == RunCtxDone(g[1])
TdCtxDone(g) == RunCtxDone(g[1]) \/ g \in failed

StreamsOf(x) == {c \in Clients : stream[c] = x}

\* Listener.Close: the path goes, whatever it names by then.
CloseListener(x) ==
  /\ open' = open \ {x}
  /\ sock' = IF x \in open THEN [sock EXCEPT ![Path(x)] = Free] ELSE sock

-----------------------------------------------------------------------------
(* wlapi.Run                                                               *)

Start(p) ==
  /\ proc[p] = "idle"
  /\ \A q \in Processes : q < p => proc[q] \in {"returned", "dead"}
  /\ proc' = [proc EXCEPT ![p] = "running"]
  /\ td' = [g \in Groups |-> IF g[1] = p THEN "rotate" ELSE td[g]]
  /\ \E port_set \in Federation[p] : fed' = [fed EXCEPT ![p] = IF port_set THEN "listen" ELSE "off"]
  /\ UNCHANGED <<canceled, failed, made, wlVars, port, stream>>

\* A plausible bug: Run does not wait for the group after an error.
RunReturns_early(p) ==
  /\ proc[p] = "running"
  /\ <<p>> \in failed \/ \A t \in TrustDomains : td[<<p, t>>] = "returned"
  /\ fed[p] # "serving"
  /\ proc' = [proc EXCEPT ![p] = "returned"]
  /\ UNCHANGED <<canceled, failed, tdVars, wlVars, fedVars, stream>>

\* group.Wait: every trust domain and the federation endpoint have returned.
RunReturns(p) ==
  /\ proc[p] = "running"
  /\ \A t \in TrustDomains : td[<<p, t>>] = "returned"
  /\ fed[p] \in {"off", "returned"}
  /\ proc' = [proc EXCEPT ![p] = "returned"]
  /\ UNCHANGED <<canceled, failed, tdVars, wlVars, fedVars, stream>>

-----------------------------------------------------------------------------
(* td.Run                                                                  *)

TdFails(g) ==
  /\ td' = [td EXCEPT ![g] = "returned"]
  /\ failed' = failed \cup {<<g[1]>>}

\* rotateX509Authority and rotateJWTAuthority
Rotate(g) ==
  /\ td[g] = "rotate"
  /\ \/ /\ td' = [td EXCEPT ![g] = "prepare"]
        /\ UNCHANGED failed
     \/ /\ "rotate" \in MayFail[g[1]]
        /\ TdFails(g)
  /\ UNCHANGED <<proc, canceled, made, wlVars, fedVars, stream>>

\* A plausible bug: the socket a killed process left is not removed.
NewWorkload_keep(g) ==
  /\ td[g] = "prepare"
  /\ made[g] < Len(Configured(g))
  /\ made' = [made EXCEPT ![g] = @ + 1]
  /\ UNCHANGED <<proc, canceled, failed, td, wlVars, fedVars, stream>>

\* NewWorkload: MkdirAll, then os.Remove of the path, whoever made it.
NewWorkload(g) ==
  /\ td[g] = "prepare"
  /\ made[g] < Len(Configured(g))
  /\ \/ /\ made' = [made EXCEPT ![g] = @ + 1]
        /\ sock' = [sock EXCEPT ![Path(<<g[1], Configured(g)[made'[g]]>>)] = Free]
        /\ UNCHANGED <<failed, td>>
     \/ /\ "mkdir" \in MayFail[g[1]]
        /\ TdFails(g)
        /\ UNCHANGED <<made, sock>>
  /\ UNCHANGED <<proc, canceled, wl, stopper, open, fedVars, stream>>

\* A plausible bug: each workload is started as soon as it is prepared.
StartWorkloads_each(g) ==
  /\ td[g] = "prepare"
  /\ made[g] > 0
  /\ LET w == Configured(g)[made[g]] IN
       /\ wl[<<g[1], w>>] = "idle"
       /\ wl' = [wl EXCEPT ![<<g[1], w>>] = "listen"]
  /\ UNCHANGED <<proc, canceled, failed, tdVars, stopper, open, sock, fedVars, stream>>

\* Only when every workload is prepared is any of them run.
StartWorkloads(g) ==
  /\ td[g] = "prepare"
  /\ made[g] = Len(Configured(g))
  /\ td' = [td EXCEPT ![g] = "serve"]
  /\ wl' = [x \in Servers |-> IF GroupOf(x) = g THEN "listen" ELSE wl[x]]
  /\ UNCHANGED <<proc, canceled, failed, made, stopper, open, sock, fedVars, stream>>

\* group.Wait: every workload has returned; its first error is td.Run's.
TdReturns(g) ==
  /\ td[g] = "serve"
  /\ \A x \in Servers : GroupOf(x) = g => wl[x] = "returned"
  /\ td' = [td EXCEPT ![g] = "returned"]
  /\ failed' = IF g \in failed THEN failed \cup {<<g[1]>>} ELSE failed
  /\ UNCHANGED <<proc, canceled, made, wlVars, fedVars, stream>>

-----------------------------------------------------------------------------
(* wl.Run                                                                  *)

\* net.Listen fails on a path that exists, and for reasons of its own.  The
\* goroutine that waits for the context starts once there is a server.
Listen(x) ==
  /\ wl[x] = "listen"
  /\ \/ /\ sock[Path(x)] = Free
        /\ sock' = [sock EXCEPT ![Path(x)] = x]
        /\ open' = open \cup {x}
        /\ wl' = [wl EXCEPT ![x] = "bound"]
        /\ stopper' = [stopper EXCEPT ![x] = "wait"]
        /\ UNCHANGED failed
     \/ /\ sock[Path(x)] # Free \/ "listen" \in MayFail[x[1]]
        /\ wl' = [wl EXCEPT ![x] = "returned"]
        /\ failed' = failed \cup {GroupOf(x)}
        /\ UNCHANGED <<stopper, open, sock>>
  /\ UNCHANGED <<proc, canceled, tdVars, fedVars, stream>>

\* A plausible bug: Serve gives up on a stopped server and keeps the listener.
Serve_leak(x) ==
  /\ wl[x] = "bound"
  /\ wl' = [wl EXCEPT ![x] = IF stopper[x] = "wait" THEN "serving" ELSE "broken"]
  /\ UNCHANGED <<proc, canceled, failed, tdVars, stopper, open, sock, fedVars, stream>>

\* server.Serve takes the listener, or closes it if GracefulStop came first.
Serve(x) ==
  /\ wl[x] = "bound"
  /\ \/ /\ stopper[x] = "wait"
        /\ wl' = [wl EXCEPT ![x] = "serving"]
        /\ UNCHANGED <<open, sock>>
     \/ /\ stopper[x] # "wait"
        /\ wl' = [wl EXCEPT ![x] = "broken"]
        /\ CloseListener(x)
  /\ UNCHANGED <<proc, canceled, failed, tdVars, stopper, fedVars, stream>>

\* Accept fails for good: Serve returns, wl.Run waits for the stopper.
AcceptFails(x) ==
  /\ "accept" \in MayFail[x[1]]
  /\ wl[x] = "serving"
  /\ stopper[x] = "wait"
  /\ wl' = [wl EXCEPT ![x] = "broken"]
  /\ CloseListener(x)
  /\ UNCHANGED <<proc, canceled, failed, tdVars, stopper, fedVars, stream>>

\* The context is done: GracefulStop closes the listener Serve has taken.
GracefulStop(x) ==
  /\ stopper[x] = "wait"
  /\ TdCtxDone(GroupOf(x))
  /\ stopper' = [stopper EXCEPT ![x] = "draining"]
  /\ IF wl[x] = "serving" THEN CloseListener(x) ELSE UNCHANGED <<open, sock>>
  /\ UNCHANGED <<proc, canceled, failed, tdVars, wl, fedVars, stream>>

\* GracefulStop returns once no stream is left.
Drained(x) ==
  /\ stopper[x] = "draining"
  /\ StreamsOf(x) = {}
  /\ stopper' = [stopper EXCEPT ![x] = "done"]
  /\ UNCHANGED <<proc, canceled, failed, tdVars, wl, open, sock, fedVars, stream>>

\* Serve and wg.Wait are both over; the error is Serve's.
WorkloadReturns(x) ==
  /\ wl[x] \in {"serving", "broken"}
  /\ stopper[x] = "done"
  /\ wl' = [wl EXCEPT ![x] = "returned"]
  /\ failed' = IF wl[x] = "broken" THEN failed \cup {GroupOf(x)} ELSE failed
  /\ UNCHANGED <<proc, canceled, tdVars, stopper, open, sock, fedVars, stream>>

-----------------------------------------------------------------------------
(* runFederation: its context is never looked at.                          *)

FederationListens(p) ==
  /\ fed[p] = "listen"
  /\ \/ /\ port = Free
        /\ port' = <<p>>
        /\ fed' = [fed EXCEPT ![p] = "serving"]
        /\ UNCHANGED failed
     \/ /\ port # Free
        /\ fed' = [fed EXCEPT ![p] = "returned"]
        /\ failed' = failed \cup {<<p>>}
        /\ UNCHANGED port
  /\ UNCHANGED <<proc, canceled, tdVars, wlVars, stream>>

FederationFails(p) ==
  /\ "accept" \in MayFail[p]
  /\ fed[p] = "serving"
  /\ fed' = [fed EXCEPT ![p] = "returned"]
  /\ port' = Free
  /\ failed' = failed \cup {<<p>>}
  /\ UNCHANGED <<proc, canceled, tdVars, wlVars, stream>>

-----------------------------------------------------------------------------
(* The environment.                                                        *)

\* The caller of wlapi.Run cancels its context, as the test server does.
Cancel(p) ==
  /\ proc[p] = "running"
  /\ p \notin canceled
  /\ canceled' = canceled \cup {p}
  /\ UNCHANGED <<proc, failed, tdVars, wlVars, fedVars, stream>>

\* An interrupt or a crash: the kernel closes everything, and no path goes.
Kill(p) ==
  /\ proc[p] = "running"
  /\ proc' = [proc EXCEPT ![p] = "dead"]
  /\ td' = [g \in Groups |-> IF g[1] = p THEN "idle" ELSE td[g]]
  /\ made' = [g \in Groups |-> IF g[1] = p THEN 0 ELSE made[g]]
  /\ wl' = [x \in Servers |-> IF x[1] = p THEN "idle" ELSE wl[x]]
  /\ stopper' = [x \in Servers |-> IF x[1] = p THEN "none" ELSE stopper[x]]
  /\ open' = {x \in open : x[1] # p}
  /\ fed' = [fed EXCEPT ![p] = "off"]
  /\ port' = IF port = <<p>> THEN Free ELSE port
  /\ stream' = [c \in Clients |-> IF stream[c] # Free /\ stream[c][1] = p THEN Free ELSE stream[c]]
  /\ canceled' = canceled \ {p}
  /\ failed' = failed \ ({<<p>>} \cup {g \in Groups : g[1] = p})
  /\ UNCHANGED sock

\* A client dials a path and opens a stream, one that lasts until it leaves.
Connect(c, f) ==
  /\ stream[c] = Free
  /\ sock[f] \in open
  /\ wl[sock[f]] = "serving"
  /\ stopper[sock[f]] = "wait"
  /\ stream' = [stream EXCEPT ![c] = sock[f]]
  /\ UNCHANGED <<proc, canceled, failed, tdVars, wlVars, fedVars>>

Leave(c) ==
  /\ stream[c] # Free
  /\ stream' = [stream EXCEPT ![c] = Free]
  /\ UNCHANGED <<proc, canceled, failed, tdVars, wlVars, fedVars>>

-----------------------------------------------------------------------------
TdNext(g) ==
  Rotate(g) \/ NewWorkload(g) \/ StartWorkloads(g) \/ TdReturns(g)

WorkloadNext(x) == Listen(x) \/ Serve(x) \/ WorkloadReturns(x)

StopperNext(x) == GracefulStop(x) \/ Drained(x)

Faults ==
  \/ \E p \in Processes : Cancel(p) \/ Kill(p) \/ FederationFails(p)
  \/ \E x \in Servers : AcceptFails(x)

\* Every process has ended.
Over ==
  /\ \A p \in Processes : proc[p] \in {"returned", "dead"}
  /\ \A c \in Clients : stream[c] = Free
  /\ UNCHANGED vars

Next ==
  \/ \E p \in Processes : Start(p) \/ RunReturns(p) \/ FederationListens(p)
  \/ \E g \in Groups : TdNext(g)
  \/ \E x \in Servers : WorkloadNext(x) \/ StopperNext(x)
  \/ \E c \in Clients : Leave(c) \/ \E f \in Paths : Connect(c, f)
  \/ Faults
  \/ Over

Spec == Init /\ [][Next]_vars

\* The scheduler runs every goroutine that is not blocked; a client that has
\* a stream leaves in the end.  Nothing makes anyone cancel, kill or connect.
FairSpec ==
  /\ Spec
  /\ \A p \in Processes : WF_vars(RunReturns(p)) /\ WF_vars(FederationListens(p))
  /\ \A g \in Groups : WF_vars(TdNext(g))
  /\ \A x \in Servers : WF_vars(WorkloadNext(x)) /\ WF_vars(StopperNext(x))
  /\ \A c \in Clients : WF_vars(Leave(c))

-----------------------------------------------------------------------------
(* Properties.                                                             *)

\* Types, and: a listener is open only while wl.Run has it in hand.
TypeOK ==
  /\ proc \in [Processes -> {"idle", "running", "returned", "dead"}]
  /\ canceled \subseteq Processes
  /\ failed \subseteq {<<p>> : p \in Processes} \cup Groups
  /\ td \in [Groups -> {"idle", "rotate", "prepare", "serve", "returned"}]
  /\ \A g \in Groups : made[g] \in 0..Len(Configured(g))
  /\ wl \in [Servers -> {"idle", "listen", "bound", "serving", "broken", "returned"}]
  /\ stopper \in [Servers -> {"none", "wait", "draining", "done"}]
  /\ open \subseteq {x \in Servers : wl[x] \in {"bound", "serving"}}
  /\ sock \in [Paths -> Servers \cup {Free}]
  /\ fed \in [Processes -> {"off", "listen", "serving", "returned"}]
  /\ port \in {Free, Other} \cup {<<p>> : p \in Processes}
  /\ stream \in [Clients -> Servers \cup {Free}]

\* The sockets of different trust domains are different files.
PathsOfTdsDiffer(p) ==
  \A x, y \in Servers :
    x[1] = p /\ y[1] = p /\ GroupOf(x) # GroupOf(y) => Path(x) # Path(y)

\* A workload that serves can be reached at its path until its context is
\* done, even when another workload of its trust domain is configured with the
\* same path: that one fails, because every path is cleared before any workload
\* listens.  (Two trust domains with one path do take it from each other.)
ServingReachable ==
  \A x \in Servers :
    PathsOfTdsDiffer(x[1]) /\ wl[x] = "serving" /\ stopper[x] = "wait"
      => sock[Path(x)] = x /\ x \in open

\* When Run has returned, its context was canceled or something in it had failed:
\* no failure is swallowed.  And nothing of it is left: no listener, no stream that
\* a handler still serves, no socket file a client could dial in vain.
ReturnedClean ==
  \A p \in Processes : proc[p] = "returned" =>
    /\ RunCtxDone(p)
    /\ \A x \in Servers : x[1] = p =>
         x \notin open /\ StreamsOf(x) = {} /\ sock[Path(x)] # x

\* Once the context of Run is canceled or anything in it has failed, Run
\* returns, unless the federation endpoint is up: that one runs until killed.
ShutdownCompletes ==
  \A p \in Processes :
    (proc[p] = "running" /\ (RunCtxDone(p) \/ \E g \in Groups : g[1] = p /\ g \in failed))
      ~> (proc[p] # "running" \/ fed[p] = "serving")

\* The process is up: every socket answers, and so does the federation
\* endpoint if there is one.
Up(p) ==
  /\ \A x \in Servers : x[1] = p => wl[x] = "serving" /\ sock[Path(x)] = x
  /\ fed[p] \in {"off", "serving"}

\* A process of whose operations none fails, with a path for every workload, comes
\* up, whatever an earlier process left behind, unless it is itself canceled or
\* killed, or another program has its port.
RestartServes ==
  \A p \in {q \in Processes : MayFail[q] = {} /\ IsInjective(SocketPath[q])} :
    (proc[p] = "running") ~> (Up(p) \/ p \in canceled \/ proc[p] = "dead" \/ port = Other)

=============================================================================
