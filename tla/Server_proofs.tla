---------------------------- MODULE Server_proofs ----------------------------
(***************************************************************************)
(* Proofs about Server, for every number of processes, trust domains and   *)
(* workloads, every configuration, and every choice of what may fail.      *)
(***************************************************************************)
EXTENDS Server, TLAPS

\* A process only runs when those before it have ended.
OrderInv ==
  \A p, q \in Processes : q < p /\ proc[p] # "idle" => proc[q] \in {"returned", "dead"}

\* Where a process is says where its trust domains are, and these where the
\* workloads are.
RunInv ==
  \A g \in Groups :
    /\ proc[g[1]] \in {"idle", "dead"} => td[g] = "idle"
    /\ proc[g[1]] = "returned" => td[g] = "returned"
TdInv ==
  \A x \in Servers :
    /\ td[GroupOf(x)] \in {"idle", "rotate", "prepare"} => wl[x] = "idle"
    /\ td[GroupOf(x)] = "returned" => wl[x] \in {"idle", "returned"}

\* The stopper runs beside Serve, and a listener is open between Listen and the
\* first of the two that closes it.
StopInv ==
  \A x \in Servers :
    /\ wl[x] \in {"idle", "listen"} => stopper[x] = "none"
    /\ wl[x] \in {"bound", "serving", "broken"} => stopper[x] # "none"
    /\ wl[x] = "returned" => stopper[x] \in {"none", "done"}
    /\ wl[x] = "bound" => x \in open
    /\ wl[x] = "serving" => (x \in open <=> stopper[x] = "wait")

\* A socket file belongs to an open listener or to a process that was killed, and
\* an open listener has its file, unless another trust domain has taken it.
SockInv ==
  \A f \in Paths : sock[f] # Free =>
    /\ Path(sock[f]) = f
    /\ sock[f] \in open \/ proc[sock[f][1]] = "dead"
ReachInv == \A x \in open : PathsOfTdsDiffer(x[1]) => sock[Path(x)] = x

\* A stream keeps GracefulStop from returning.
StreamInv == \A c \in Clients : stream[c] # Free => stopper[stream[c]] \in {"wait", "draining"}

\* Nothing stops or returns but for a reason, which goes up with it.
DoneInv ==
  /\ \A x \in Servers :
       stopper[x] \in {"draining", "done"} \/ wl[x] = "returned" => TdCtxDone(GroupOf(x))
  /\ \A g \in Groups :
       td[g] = "returned" /\ Configured(g) # <<>> => RunCtxDone(g[1])

Inv ==
  /\ TypeOK /\ made \in [Groups -> Nat]
  /\ OrderInv /\ RunInv /\ TdInv /\ StopInv /\ SockInv /\ ReachInv /\ StreamInv /\ DoneInv


-----------------------------------------------------------------------------
(* What the names stand for.                                               *)

\* A trust domain of a process, and its workloads.
LEMMA GroupFacts ==
  ASSUME NEW g \in Groups
  PROVE  /\ g[1] \in Processes /\ g[2] \in TrustDomains /\ g = <<g[1], g[2]>>
         /\ g # <<g[1]>>
         /\ Len(Configured(g)) \in Nat
         /\ \A i \in 1..Len(Configured(g)) : <<g[1], Configured(g)[i]>> \in ServersOf(g)
         /\ \A x \in ServersOf(g) : x \in Servers /\ x[1] = g[1] /\ GroupOf(x) = g
<1>1. g[1] \in Processes /\ g[2] \in TrustDomains /\ g = <<g[1], g[2]>>
  BY DEF Groups
<1>2. Configured(g) \in Seq(ToSet(Configured(g)))
  BY ConfigAssumption DEF ConfigAssumption
<1>3. \A i \in 1..Len(Configured(g)) : Configured(g)[i] \in ToSet(Configured(g))
  BY <1>2
<1>4. \A i \in 1..Len(Configured(g)) : <<g[1], Configured(g)[i]>> \in ServersOf(g)
  BY <1>3 DEF ServersOf
<1>5. \A x \in ServersOf(g) : x \in Servers /\ x[1] = g[1]
  BY DEF Servers, ServersOf
<1>6. \A h \in Groups : h # g => ServersOf(g) \cap ServersOf(h) = {}
  BY ConfigAssumption DEF ConfigAssumption
<1>7. \A x \in ServersOf(g) : GroupOf(x) = g
  BY <1>6 DEF GroupOf
<1> QED
  BY <1>1, <1>2, <1>4, <1>5, <1>7

\* A workload of a process.
LEMMA ServerFacts ==
  ASSUME NEW x \in Servers
  PROVE  /\ x # Free /\ x[1] \in Processes /\ Path(x) \in Paths
         /\ GroupOf(x) \in Groups /\ x \in ServersOf(GroupOf(x)) /\ GroupOf(x)[1] = x[1]
<1>1. PICK g \in Groups : x \in ServersOf(g)
  BY DEF Servers
<1>2. GroupOf(x) = g /\ x[1] = g[1] /\ g[1] \in Processes
  BY <1>1, GroupFacts
<1>3. x # Free
  BY <1>1 DEF ServersOf, Free
<1>4. Path(x) \in Paths
  BY DEF Paths
<1> QED
  BY <1>1, <1>2, <1>3, <1>4

\* Processes run one after the other.
LEMMA OneRuns ==
  ASSUME OrderInv, NEW p \in Processes, NEW q \in Processes,
         proc[p] = "running", proc[q] = "running"
  PROVE  p = q
<1>1. p \in Nat /\ q \in Nat
  BY ConfigAssumption DEF ConfigAssumption
<1>2. ~(p < q) /\ ~(q < p)
  BY DEF OrderInv
<1> QED
  BY <1>1, <1>2

\* An open listener is one of a process that runs and a trust domain that serves.
LEMMA OpenRuns ==
  ASSUME Inv, NEW x \in open
  PROVE  x \in Servers /\ td[GroupOf(x)] = "serve" /\ proc[x[1]] = "running"
<1>1. x \in Servers /\ wl[x] \in {"bound", "serving"}
  BY DEF Inv, TypeOK
<1>2. GroupOf(x) \in Groups /\ GroupOf(x)[1] = x[1] /\ x[1] \in Processes
  BY <1>1, ServerFacts
<1>3. td[GroupOf(x)] = "serve"
  BY <1>1, <1>2 DEF Inv, TypeOK, TdInv
<1>4. proc[x[1]] = "running"
  BY <1>2, <1>3 DEF Inv, TypeOK, RunInv
<1> QED
  BY <1>1, <1>3, <1>4

\* Contexts that are done stay done while their process lives.
LEMMA DoneStays ==
  ASSUME failed \subseteq failed', canceled \subseteq canceled'
  PROVE  /\ \A p : RunCtxDone(p) => RunCtxDone(p)'
         /\ \A g : TdCtxDone(g) => TdCtxDone(g)'
BY DEF RunCtxDone, TdCtxDone

\* Initially nothing runs and no path is taken.
LEMMA InitInv == Init => Inv
<1> SUFFICES ASSUME Init PROVE Inv
  OBVIOUS
<1>1. TypeOK
  <2>1. \A g \in Groups : made[g] \in 0..Len(Configured(g))
    BY GroupFacts DEF Init
  <2>2. port \in {Free, Other}
    BY DEF Init
  <2> QED
    BY <2>1, <2>2 DEF Init, TypeOK
<1>2. TdInv /\ StopInv
  BY ServerFacts DEF Init, TdInv, StopInv
<1>3. RunInv /\ OrderInv
  BY GroupFacts DEF Init, RunInv, OrderInv
<1>4. SockInv /\ ReachInv /\ StreamInv
  BY DEF Init, SockInv, ReachInv, StreamInv
<1>5. DoneInv
  BY DEF Init, DoneInv
<1> QED
  BY <1>1, <1>2, <1>3, <1>4, <1>5 DEF Init, Inv

-----------------------------------------------------------------------------
(* One lemma for each action.                                              *)

\* A process that starts finds no listener open: those before it have ended.
LEMMA StartInv == ASSUME Inv, NEW p \in Processes, Start(p) PROVE Inv'
<1> USE DEF Inv, Start, wlVars, fedVars
<1>1. TypeOK' /\ made' \in [Groups -> Nat]
  <2>1. fed' \in [Processes -> {"off", "listen", "serving", "returned"}]
    BY DEF TypeOK
  <2> QED
    BY <2>1 DEF TypeOK
<1>2. OrderInv'
  BY ConfigAssumption DEF ConfigAssumption, TypeOK, OrderInv
<1>3. RunInv'
  BY GroupFacts DEF TypeOK, RunInv
<1>4. TdInv'
  <2> SUFFICES ASSUME NEW x \in Servers PROVE TdInv!(x)'
    BY DEF TdInv
  <2>1. GroupOf(x) \in Groups /\ GroupOf(x)[1] \in Processes
    BY ServerFacts, GroupFacts
  <2>2. td[GroupOf(x)] = "idle" \/ td'[GroupOf(x)] = td[GroupOf(x)]
    BY <2>1 DEF TypeOK, RunInv
  <2>3. GroupOf(x)[1] = p => td[GroupOf(x)] = "idle"
    BY <2>1 DEF TypeOK, RunInv
  <2> QED
    BY <2>1, <2>2, <2>3 DEF TdInv, TypeOK
<1>5. StopInv' /\ StreamInv' /\ ReachInv'
  BY DEF StopInv, StreamInv, ReachInv
<1>6. SockInv'
  BY DEF SockInv, TypeOK
<1>7. DoneInv'
  BY GroupFacts DEF DoneInv, RunCtxDone, TdCtxDone, TypeOK, RunInv
<1> QED
  BY <1>1, <1>2, <1>3, <1>4, <1>5, <1>6, <1>7

\* Run returns when all its goroutines have.
LEMMA RunReturnsInv == ASSUME Inv, NEW p \in Processes, RunReturns(p) PROVE Inv'
<1> USE DEF Inv, RunReturns, tdVars, wlVars, fedVars
<1>1. TypeOK' /\ made' \in [Groups -> Nat]
  BY DEF TypeOK
<1>2. OrderInv'
  BY DEF TypeOK, OrderInv
<1>3. RunInv'
  BY GroupFacts DEF TypeOK, RunInv
<1>4. TdInv' /\ StopInv' /\ StreamInv' /\ ReachInv'
  BY DEF TdInv, StopInv, StreamInv, ReachInv
<1>5. SockInv'
  BY DEF SockInv, TypeOK
<1>6. DoneInv'
  BY DEF DoneInv, RunCtxDone, TdCtxDone
<1> QED
  BY <1>1, <1>2, <1>3, <1>4, <1>5, <1>6

\* What only the contexts and the federation endpoint see.
LEMMA ContextInv ==
  ASSUME Inv, NEW p \in Processes,
         FederationListens(p) \/ FederationFails(p) \/ Cancel(p)
  PROVE  Inv'
<1> USE DEF Inv, tdVars, wlVars, fedVars
<1>1. /\ UNCHANGED <<proc, tdVars, wlVars, stream>>
      /\ failed \subseteq failed' /\ canceled \subseteq canceled'
  BY DEF FederationListens, FederationFails, Cancel
<1>2. /\ canceled' \subseteq Processes
      /\ failed' \subseteq {<<q>> : q \in Processes} \cup Groups
      /\ fed' \in [Processes -> {"off", "listen", "serving", "returned"}]
      /\ port' \in {Free, Other} \cup {<<q>> : q \in Processes}
  <2>1. CASE FederationListens(p)
    <3>1. <<p>> \in {<<q>> : q \in Processes}
      OBVIOUS
    <3>2. UNCHANGED canceled /\ failed' \subseteq failed \cup {<<p>>}
      BY <2>1 DEF FederationListens
    <3>3. fed' \in [Processes -> {"off", "listen", "serving", "returned"}]
      BY <2>1 DEF FederationListens, TypeOK
    <3>4. port' \in {port, <<p>>}
      BY <2>1 DEF FederationListens
    <3> QED
      BY <3>1, <3>2, <3>3, <3>4 DEF TypeOK
  <2>2. CASE FederationFails(p)
    BY <2>2 DEF FederationFails, TypeOK
  <2>3. CASE Cancel(p)
    BY <2>3 DEF Cancel, TypeOK
  <2> QED
    BY <2>1, <2>2, <2>3
<1>3. TypeOK' /\ made' \in [Groups -> Nat]
  BY <1>1, <1>2 DEF TypeOK
<1>4. OrderInv' /\ RunInv' /\ TdInv' /\ StopInv' /\ SockInv' /\ ReachInv' /\ StreamInv'
  BY <1>1 DEF OrderInv, RunInv, TdInv, StopInv, SockInv, ReachInv, StreamInv
<1>5. DoneInv'
  BY <1>1, DoneStays DEF DoneInv
<1> QED
  BY <1>3, <1>4, <1>5

\* A trust domain that fails before any of its workloads runs.
LEMMA TdFailsInv ==
  ASSUME Inv, NEW g \in Groups, td[g] \in {"rotate", "prepare"}, TdFails(g),
         UNCHANGED <<proc, canceled, made, wlVars, fedVars, stream>>
  PROVE  Inv'
<1> USE DEF Inv, TdFails, wlVars, fedVars
<1>1. TypeOK' /\ made' \in [Groups -> Nat]
  BY GroupFacts DEF TypeOK
<1>2. OrderInv' /\ StopInv' /\ SockInv' /\ ReachInv' /\ StreamInv'
  BY DEF OrderInv, StopInv, SockInv, ReachInv, StreamInv
<1>3. RunInv'
  BY GroupFacts DEF RunInv, TypeOK
<1>4. TdInv'
  BY ServerFacts DEF TdInv, TypeOK
<1>5. DoneInv'
  <2>1. /\ \A q : RunCtxDone(q) => RunCtxDone(q)'
        /\ \A h : TdCtxDone(h) => TdCtxDone(h)'
    BY DoneStays
  <2>2. RunCtxDone(g[1])'
    BY DEF RunCtxDone
  <2> QED
    BY <2>1, <2>2 DEF DoneInv, TypeOK
<1> QED
  BY <1>1, <1>2, <1>3, <1>4, <1>5

\* Rotation fails, or goes on to the workloads.
LEMMA RotateInv == ASSUME Inv, NEW g \in Groups, Rotate(g) PROVE Inv'
<1>1. CASE TdFails(g)
  BY <1>1, TdFailsInv DEF Rotate
<1>2. CASE ~TdFails(g)
  <2> USE <1>2 DEF Inv, Rotate, wlVars, fedVars
  <2>1. TypeOK' /\ made' \in [Groups -> Nat]
    BY DEF TypeOK
  <2>2. OrderInv' /\ StopInv' /\ SockInv' /\ ReachInv' /\ StreamInv'
    BY DEF OrderInv, StopInv, SockInv, ReachInv, StreamInv
  <2>3. RunInv'
    BY GroupFacts DEF RunInv, TypeOK
  <2>4. TdInv'
    BY ServerFacts DEF TdInv, TypeOK
  <2>5. DoneInv'
    BY DEF DoneInv, TypeOK, RunCtxDone, TdCtxDone
  <2> QED
    BY <2>1, <2>2, <2>3, <2>4, <2>5
<1> QED
  BY <1>1, <1>2

\* NewWorkload removes the file of nobody who listens, as its trust domain does not
\* serve yet.
LEMMA NewWorkloadInv == ASSUME Inv, NEW g \in Groups, NewWorkload(g) PROVE Inv'
<1>1. CASE TdFails(g) /\ UNCHANGED <<made, sock>>
  BY <1>1, TdFailsInv DEF NewWorkload, wlVars
<1> DEFINE w == <<g[1], Configured(g)[made'[g]]>>
<1>2. CASE /\ made' = [made EXCEPT ![g] = @ + 1]
           /\ sock' = [sock EXCEPT ![Path(w)] = Free]
           /\ UNCHANGED <<failed, td>>
  <2> USE <1>2 DEF Inv, NewWorkload, fedVars
  <2>1. /\ td[g] = "prepare" /\ made' \in [Groups -> Nat]
        /\ \A h \in Groups : made'[h] \in 0..Len(Configured(h))
        /\ w \in ServersOf(g)
    <3>1. made[g] \in Nat /\ made[g] < Len(Configured(g)) /\ made'[g] = made[g] + 1
      OBVIOUS
    <3>2. \A h \in Groups : h # g => made'[h] = made[h]
      OBVIOUS
    <3>3. made'[g] \in 1..Len(Configured(g))
      BY <3>1, GroupFacts
    <3> QED
      BY <3>1, <3>2, <3>3, GroupFacts DEF TypeOK
  <2>2. w \in Servers /\ w[1] = g[1] /\ GroupOf(w) = g
    BY <2>1, GroupFacts
  <2>3. TypeOK'
    BY <2>1, <2>2, ServerFacts DEF TypeOK
  <2>4. OrderInv' /\ RunInv' /\ TdInv' /\ StopInv' /\ StreamInv'
    BY DEF OrderInv, RunInv, TdInv, StopInv, StreamInv
  <2>5. SockInv'
    <3>1. \A f \in Paths : sock'[f] # Free => sock'[f] = sock[f]
      BY DEF TypeOK
    <3> QED
      BY <3>1 DEF SockInv
  <2>6. ReachInv'
    <3> SUFFICES ASSUME NEW x \in open, PathsOfTdsDiffer(x[1]) PROVE sock'[Path(x)] = x
      BY DEF ReachInv
    <3>1. x \in Servers /\ td[GroupOf(x)] = "serve" /\ proc[x[1]] = "running"
      BY OpenRuns
    <3>2. proc[g[1]] = "running"
      BY <2>1, GroupFacts DEF TypeOK, RunInv
    <3>3. x[1] = g[1]
      BY <3>1, <3>2, OneRuns, ServerFacts, GroupFacts
    <3>4. GroupOf(x) # GroupOf(w)
      BY <2>1, <2>2, <3>1
    <3>5. Path(x) # Path(w)
      BY <2>2, <3>1, <3>3, <3>4 DEF PathsOfTdsDiffer
    <3> QED
      BY <3>1, <3>5, ServerFacts DEF TypeOK, ReachInv
  <2>7. DoneInv'
    BY DEF DoneInv, RunCtxDone, TdCtxDone
  <2> QED
    BY <2>1, <2>3, <2>4, <2>5, <2>6, <2>7
<1> QED
  BY <1>1, <1>2 DEF NewWorkload

\* From here on the workloads of a trust domain run.
LEMMA StartWorkloadsInv == ASSUME Inv, NEW g \in Groups, StartWorkloads(g) PROVE Inv'
<1> USE DEF Inv, StartWorkloads, fedVars
<1>1. \A x \in Servers : GroupOf(x) = g => wl[x] = "idle"
  BY DEF TdInv
<1>2. TypeOK' /\ made' \in [Groups -> Nat]
  BY <1>1 DEF TypeOK
<1>3. OrderInv' /\ SockInv' /\ ReachInv' /\ StreamInv'
  BY DEF OrderInv, SockInv, ReachInv, StreamInv
<1>4. RunInv'
  BY GroupFacts DEF RunInv, TypeOK
<1>5. TdInv'
  BY ServerFacts DEF TdInv, TypeOK
<1>6. StopInv'
  BY <1>1 DEF StopInv, TypeOK
<1>7. DoneInv'
  BY <1>1 DEF DoneInv, TypeOK, RunCtxDone, TdCtxDone
<1> QED
  BY <1>2, <1>3, <1>4, <1>5, <1>6, <1>7

\* A trust domain returns when all its workloads have.
LEMMA TdReturnsInv == ASSUME Inv, NEW g \in Groups, TdReturns(g) PROVE Inv'
<1> USE DEF Inv, TdReturns, wlVars, fedVars
<1>1. failed \subseteq failed' /\ failed' \subseteq failed \cup {<<g[1]>>}
  OBVIOUS
<1>2. TypeOK' /\ made' \in [Groups -> Nat]
  BY <1>1, GroupFacts DEF TypeOK
<1>3. OrderInv' /\ StopInv' /\ SockInv' /\ ReachInv' /\ StreamInv'
  BY DEF OrderInv, StopInv, SockInv, ReachInv, StreamInv
<1>4. RunInv'
  BY GroupFacts DEF RunInv, TypeOK
<1>5. TdInv'
  BY ServerFacts DEF TdInv, TypeOK
<1>6. DoneInv'
  <2>1. /\ \A q : RunCtxDone(q) => RunCtxDone(q)'
        /\ \A h : TdCtxDone(h) => TdCtxDone(h)'
    BY <1>1, DoneStays
  <2>2. ASSUME Configured(g) # <<>> PROVE RunCtxDone(g[1])'
    <3> DEFINE x == <<g[1], Configured(g)[1]>>
    <3>1. 1 \in 1..Len(Configured(g))
      <4>1. Configured(g) \in Seq(ToSet(Configured(g)))
        BY ConfigAssumption DEF ConfigAssumption
      <4> QED
        BY <2>2, <4>1
    <3>2. x \in Servers /\ GroupOf(x) = g
      BY <3>1, GroupFacts
    <3>3. TdCtxDone(g)
      BY <3>2 DEF DoneInv
    <3>4. g \in failed => <<g[1]>> \in failed'
      OBVIOUS
    <3> QED
      BY <2>1, <3>3, <3>4 DEF TdCtxDone, RunCtxDone
  <2> QED
    BY <2>1, <2>2 DEF DoneInv, TypeOK
<1> QED
  BY <1>2, <1>3, <1>4, <1>5, <1>6

\* Closing a listener takes nobody else's socket file.
LEMMA CloseFacts ==
  ASSUME Inv, NEW x \in Servers, CloseListener(x)
  PROVE  /\ open' = open \ {x}
         /\ sock' \in [Paths -> Servers \cup {Free}]
         /\ \A f \in Paths : sock'[f] # Free =>
              /\ Path(sock'[f]) = f
              /\ sock'[f] \in open' \/ proc[sock'[f][1]] = "dead"
         /\ \A y \in open' : PathsOfTdsDiffer(y[1]) => sock'[Path(y)] = y
<1> USE DEF Inv, CloseListener
<1>1. sock' \in [Paths -> Servers \cup {Free}]
  BY DEF TypeOK
<1>2. ASSUME NEW f \in Paths, sock'[f] # Free
      PROVE  /\ sock'[f] = sock[f] /\ Path(sock'[f]) = f
             /\ sock'[f] \in open' \/ proc[sock'[f][1]] = "dead"
  <2>1. sock'[f] = sock[f]
    BY <1>2 DEF TypeOK
  <2>2. Path(sock[f]) = f /\ (sock[f] \in open \/ proc[sock[f][1]] = "dead")
    BY <1>2, <2>1 DEF SockInv
  <2>3. x \in open => sock[f] # x
    BY <1>2, <2>2 DEF TypeOK
  <2> QED
    BY <2>1, <2>2, <2>3
<1>3. ASSUME NEW y \in open', PathsOfTdsDiffer(y[1]) PROVE sock'[Path(y)] = y
  <2>1. y \in open /\ y # x /\ sock[Path(y)] = y
    BY <1>3 DEF ReachInv
  <2>2. y \in Servers /\ Path(y) \in Paths
    BY <2>1, OpenRuns, ServerFacts
  <2>3. x \in open => Path(x) # Path(y)
    <3> SUFFICES ASSUME x \in open PROVE Path(x) # Path(y)
      OBVIOUS
    <3>1. x[1] = y[1]
      BY <2>1, <2>2, OpenRuns, OneRuns, ServerFacts
    <3>2. sock[Path(x)] = x
      BY <1>3, <3>1 DEF ReachInv
    <3> QED
      BY <2>1, <3>2
  <2> QED
    BY <2>1, <2>2, <2>3 DEF TypeOK
<1> QED
  BY <1>1, <1>2, <1>3

\* Listen takes the path only when nobody holds it.
LEMMA ListenInv == ASSUME Inv, NEW x \in Servers, Listen(x) PROVE Inv'
<1> USE DEF Inv, Listen, tdVars, fedVars
<1>1. GroupOf(x) \in Groups /\ Path(x) \in Paths /\ x # Free
  BY ServerFacts
<1>2. td[GroupOf(x)] = "serve"
  BY <1>1 DEF TypeOK, TdInv
<1>3. stopper[x] = "none" /\ x \notin open
  BY DEF StopInv, TypeOK
<1> DEFINE Binds == /\ sock[Path(x)] = Free /\ sock' = [sock EXCEPT ![Path(x)] = x]
                    /\ open' = open \cup {x}
                    /\ wl' = [wl EXCEPT ![x] = "bound"]
                    /\ stopper' = [stopper EXCEPT ![x] = "wait"]
                    /\ UNCHANGED failed
           Fails == /\ wl' = [wl EXCEPT ![x] = "returned"]
                    /\ failed' = failed \cup {GroupOf(x)}
                    /\ UNCHANGED <<stopper, open, sock>>
<1>a. Binds \/ Fails
  OBVIOUS
<1>4. /\ wl' \in [Servers -> {"idle", "listen", "bound", "serving", "broken", "returned"}]
      /\ stopper' \in [Servers -> {"none", "wait", "draining", "done"}]
      /\ \A y \in Servers : y # x => wl'[y] = wl[y] /\ stopper'[y] = stopper[y]
      /\ failed \subseteq failed' /\ failed' \subseteq failed \cup Groups
  <2>1. CASE Binds
    BY <2>1 DEF TypeOK
  <2>2. CASE Fails
    BY <1>1, <2>2 DEF TypeOK
  <2> QED
    BY <1>a, <2>1, <2>2
<1>5. \/ /\ Binds /\ wl'[x] = "bound" /\ stopper'[x] = "wait"
      \/ /\ Fails /\ wl'[x] = "returned" /\ stopper'[x] = "none" /\ GroupOf(x) \in failed'
  BY <1>3, <1>a DEF TypeOK
<1>6. TypeOK' /\ made' \in [Groups -> Nat]
  <2>1. open' \subseteq {y \in Servers : wl'[y] \in {"bound", "serving"}}
    <3>1. ASSUME NEW y \in open
          PROVE  y \in Servers /\ wl'[y] \in {"bound", "serving"}
      <4>1. y \in Servers /\ y # x /\ wl[y] \in {"bound", "serving"}
        BY <1>3 DEF TypeOK
      <4>2. wl'[y] = wl[y]
        BY <1>4, <4>1
      <4> QED
        BY <4>1, <4>2
    <3>2. open' = open \/ (open' = open \cup {x} /\ wl'[x] = "bound")
      BY <1>5
    <3> QED
      BY <3>1, <3>2
  <2>2. sock' \in [Paths -> Servers \cup {Free}]
    <3>1. sock \in [Paths -> Servers \cup {Free}]
      BY DEF TypeOK
    <3>2. sock' = sock \/ sock' = [sock EXCEPT ![Path(x)] = x]
      BY <1>a
    <3> QED
      BY <3>1, <3>2
  <2> QED
    BY <1>4, <2>1, <2>2 DEF TypeOK
<1>7. OrderInv' /\ RunInv'
  BY DEF OrderInv, RunInv
<1>8. TdInv'
  BY <1>2, <1>4 DEF TdInv
<1>9. StopInv'
  <2> SUFFICES ASSUME NEW y \in Servers PROVE StopInv!(y)'
    BY DEF StopInv
  <2>1. CASE y = x
    BY <1>3, <1>5, <2>1
  <2>2. CASE y # x
    <3>1. wl'[y] = wl[y] /\ stopper'[y] = stopper[y] /\ (y \in open' <=> y \in open)
      BY <1>4, <1>5, <2>2
    <3> QED
      BY <3>1 DEF StopInv
  <2> QED
    BY <2>1, <2>2
<1>10. SockInv' /\ ReachInv'
  <2>1. CASE Binds
    <3>1. \A f \in Paths : sock'[f] = IF f = Path(x) THEN x ELSE sock[f]
      BY <2>1 DEF TypeOK
    <3>2. SockInv'
      BY <1>1, <2>1, <3>1 DEF SockInv
    <3>3. \A y \in open : Path(y) \in Paths /\ y # Free
      BY OpenRuns, ServerFacts
    <3>4. ReachInv'
      BY <1>1, <2>1, <3>1, <3>3 DEF ReachInv
    <3> QED
      BY <3>2, <3>4
  <2>2. CASE Fails
    BY <2>2 DEF SockInv, ReachInv
  <2> QED
    BY <1>a, <2>1, <2>2
<1>11. StreamInv'
  <2>1. \A c \in Clients : stream[c] # Free => stream[c] \in Servers /\ stream[c] # x
    BY <1>3 DEF StreamInv, TypeOK
  <2> QED
    BY <1>4, <2>1 DEF StreamInv
<1>12. DoneInv'
  <2>1. /\ \A q : RunCtxDone(q) => RunCtxDone(q)'
        /\ \A h : TdCtxDone(h) => TdCtxDone(h)'
    BY <1>4, DoneStays
  <2>2. GroupOf(x) \in failed' => TdCtxDone(GroupOf(x))'
    BY DEF TdCtxDone
  <2> QED
    BY <1>4, <1>5, <2>1, <2>2 DEF DoneInv
<1> QED
  BY <1>6, <1>7, <1>8, <1>9, <1>10, <1>11, <1>12

\* Serve or AcceptFails: from now on the listener is served, or closed.
LEMMA ServeInv ==
  ASSUME Inv, NEW x \in Servers, Serve(x) \/ AcceptFails(x)
  PROVE  Inv'
<1> USE DEF Inv, tdVars, fedVars
<1>1. /\ wl[x] \in {"bound", "serving"}
      /\ UNCHANGED <<proc, canceled, failed, tdVars, stopper, fedVars, stream>>
      /\ \/ /\ wl' = [wl EXCEPT ![x] = "serving"] /\ wl[x] = "bound" /\ stopper[x] = "wait"
            /\ UNCHANGED <<open, sock>>
         \/ /\ wl' = [wl EXCEPT ![x] = "broken"]
            /\ CloseListener(x)
  BY DEF Serve, AcceptFails
<1>2. GroupOf(x) \in Groups /\ td[GroupOf(x)] = "serve"
  BY <1>1, ServerFacts DEF TypeOK, TdInv
<1>3. stopper[x] # "none" /\ (wl[x] = "bound" => x \in open)
  BY <1>1 DEF StopInv
<1>4. /\ wl' \in [Servers -> {"idle", "listen", "bound", "serving", "broken", "returned"}]
      /\ \A y \in Servers : y # x => wl'[y] = wl[y]
      /\ \/ wl'[x] = "serving" /\ wl[x] = "bound" /\ stopper[x] = "wait" /\ UNCHANGED <<open, sock>>
         \/ wl'[x] = "broken" /\ CloseListener(x)
  <2>1. wl \in [Servers -> {"idle", "listen", "bound", "serving", "broken", "returned"}]
    BY DEF TypeOK
  <2>2. PICK state \in {"serving", "broken"} : wl' = [wl EXCEPT ![x] = state]
    BY <1>1
  <2>3. /\ wl' \in [Servers -> {"idle", "listen", "bound", "serving", "broken", "returned"}]
        /\ wl'[x] = state /\ \A y \in Servers : y # x => wl'[y] = wl[y]
    BY <2>1, <2>2
  <2> QED
    BY <1>1, <2>1, <2>3
<1>5. /\ sock' \in [Paths -> Servers \cup {Free}]
      /\ SockInv' /\ ReachInv'
      /\ open' \subseteq {y \in Servers : wl'[y] \in {"bound", "serving"}}
      /\ \A y \in Servers : y # x => (y \in open' <=> y \in open)
      /\ wl'[x] = "broken" => x \notin open'
      /\ wl'[x] = "serving" => x \in open'
  <2>1. CASE UNCHANGED <<open, sock>> /\ wl'[x] = "serving" /\ wl[x] = "bound"
    BY <1>1, <1>3, <1>4, <2>1 DEF TypeOK, SockInv, ReachInv
  <2>2. CASE CloseListener(x) /\ wl'[x] = "broken"
    <3>1. open' = open \ {x}
      BY <2>2, CloseFacts
    <3> QED
      BY <1>1, <1>4, <2>2, <3>1, CloseFacts DEF SockInv, ReachInv, TypeOK
  <2> QED
    BY <1>4, <2>1, <2>2
<1>6. TypeOK' /\ made' \in [Groups -> Nat]
  BY <1>1, <1>4, <1>5 DEF TypeOK
<1>7. OrderInv' /\ RunInv' /\ StreamInv'
  BY <1>1 DEF OrderInv, RunInv, StreamInv
<1>8. TdInv'
  BY <1>1, <1>2, <1>4 DEF TdInv
<1>9. StopInv'
  <2> SUFFICES ASSUME NEW y \in Servers PROVE StopInv!(y)'
    BY DEF StopInv
  <2>1. CASE y = x
    BY <1>1, <1>3, <1>4, <1>5, <2>1
  <2>2. CASE y # x
    BY <1>1, <1>4, <1>5, <2>2 DEF StopInv
  <2> QED
    BY <2>1, <2>2
<1>10. DoneInv'
  BY <1>1, <1>4 DEF DoneInv, RunCtxDone, TdCtxDone
<1> QED
  BY <1>5, <1>6, <1>7, <1>8, <1>9, <1>10

\* GracefulStop closes the listener if Serve has taken it.
LEMMA GracefulStopInv == ASSUME Inv, NEW x \in Servers, GracefulStop(x) PROVE Inv'
<1> USE DEF Inv, GracefulStop, tdVars, fedVars
<1>1. /\ UNCHANGED <<proc, canceled, failed, tdVars, wl, fedVars, stream>>
      /\ stopper' \in [Servers -> {"none", "wait", "draining", "done"}]
      /\ \A y \in Servers : y # x => stopper'[y] = stopper[y]
      /\ stopper[x] = "wait" /\ stopper'[x] = "draining" /\ TdCtxDone(GroupOf(x))
  BY DEF TypeOK
<1>2. /\ sock' \in [Paths -> Servers \cup {Free}]
      /\ SockInv' /\ ReachInv'
      /\ \A y \in Servers : y # x => (y \in open' <=> y \in open)
      /\ open' \subseteq open
      /\ wl[x] = "bound" => (x \in open' <=> x \in open)
      /\ wl[x] = "serving" => x \notin open'
  <2>1. CASE wl[x] = "serving"
    <3>1. CloseListener(x)
      BY <2>1
    <3> QED
      BY <1>1, <2>1, <3>1, CloseFacts DEF SockInv, ReachInv
  <2>2. CASE wl[x] # "serving"
    BY <1>1, <2>2 DEF TypeOK, SockInv, ReachInv
  <2> QED
    BY <2>1, <2>2
<1>3. TypeOK' /\ made' \in [Groups -> Nat]
  BY <1>1, <1>2 DEF TypeOK
<1>4. OrderInv' /\ RunInv' /\ TdInv'
  BY <1>1 DEF OrderInv, RunInv, TdInv
<1>5. StopInv'
  <2> SUFFICES ASSUME NEW y \in Servers PROVE StopInv!(y)'
    BY DEF StopInv
  <2>1. CASE y = x
    BY <1>1, <1>2, <2>1 DEF StopInv
  <2>2. CASE y # x
    BY <1>1, <1>2, <2>2 DEF StopInv
  <2> QED
    BY <2>1, <2>2
<1>6. StreamInv'
  <2>1. \A c \in Clients : stream[c] # Free => stream[c] \in Servers
    BY DEF TypeOK
  <2> QED
    BY <1>1, <2>1 DEF StreamInv
<1>7. DoneInv'
  BY <1>1 DEF DoneInv, RunCtxDone, TdCtxDone
<1> QED
  BY <1>2, <1>3, <1>4, <1>5, <1>6, <1>7

\* GracefulStop returns when no stream is left.
LEMMA DrainedInv == ASSUME Inv, NEW x \in Servers, Drained(x) PROVE Inv'
<1> USE DEF Inv, Drained, tdVars, fedVars
<1>1. /\ stopper' \in [Servers -> {"none", "wait", "draining", "done"}]
      /\ \A y \in Servers : y # x => stopper'[y] = stopper[y]
      /\ stopper[x] = "draining" /\ stopper'[x] = "done"
  BY DEF TypeOK
<1>2. TypeOK' /\ made' \in [Groups -> Nat]
  BY <1>1 DEF TypeOK
<1>3. OrderInv' /\ RunInv' /\ TdInv' /\ SockInv' /\ ReachInv'
  BY DEF OrderInv, RunInv, TdInv, SockInv, ReachInv
<1>4. StopInv'
  BY <1>1 DEF StopInv
<1>5. StreamInv'
  <2>1. \A c \in Clients : stream[c] # Free => stream[c] \in Servers /\ stream[c] # x
    BY DEF TypeOK, StreamsOf
  <2> QED
    BY <1>1, <2>1 DEF StreamInv
<1>6. DoneInv'
  BY <1>1 DEF DoneInv, RunCtxDone, TdCtxDone
<1> QED
  BY <1>2, <1>3, <1>4, <1>5, <1>6

\* A workload returns when the stopper has.
LEMMA WorkloadReturnsInv == ASSUME Inv, NEW x \in Servers, WorkloadReturns(x) PROVE Inv'
<1> USE DEF Inv, WorkloadReturns, tdVars, fedVars
<1>1. /\ wl' \in [Servers -> {"idle", "listen", "bound", "serving", "broken", "returned"}]
      /\ \A y \in Servers : y # x => wl'[y] = wl[y]
      /\ wl[x] \in {"serving", "broken"} /\ wl'[x] = "returned" /\ stopper[x] = "done"
  BY DEF TypeOK
<1>2. x \notin open
  BY <1>1 DEF StopInv, TypeOK
<1>3. GroupOf(x) \in Groups /\ td[GroupOf(x)] = "serve"
  BY <1>1, ServerFacts DEF TypeOK, TdInv
<1>4. failed \subseteq failed' /\ failed' \subseteq failed \cup Groups
  BY <1>3
<1>5. TypeOK' /\ made' \in [Groups -> Nat]
  <2>1. open' \subseteq {y \in Servers : wl'[y] \in {"bound", "serving"}}
    BY <1>1, <1>2 DEF TypeOK
  <2> QED
    BY <1>1, <1>4, <2>1 DEF TypeOK
<1>6. OrderInv' /\ RunInv' /\ SockInv' /\ ReachInv' /\ StreamInv'
  BY DEF OrderInv, RunInv, SockInv, ReachInv, StreamInv
<1>7. TdInv'
  BY <1>1, <1>3 DEF TdInv
<1>8. StopInv'
  BY <1>1, <1>2 DEF StopInv
<1>9. DoneInv'
  <2>1. /\ \A q : RunCtxDone(q) => RunCtxDone(q)'
        /\ \A h : TdCtxDone(h) => TdCtxDone(h)'
    BY <1>4, DoneStays
  <2>2. TdCtxDone(GroupOf(x))
    BY <1>1 DEF DoneInv
  <2> QED
    BY <1>1, <2>1, <2>2 DEF DoneInv
<1> QED
  BY <1>5, <1>6, <1>7, <1>8, <1>9

\* Clients: they connect to what serves, and hold it up until they leave.
LEMMA ClientInv ==
  ASSUME Inv, NEW c \in Clients, Leave(c) \/ \E f \in Paths : Connect(c, f)
  PROVE  Inv'
<1> USE DEF Inv, tdVars, wlVars, fedVars
<1>1. UNCHANGED <<proc, canceled, failed, tdVars, wlVars, fedVars>>
  BY DEF Leave, Connect
<1>2. /\ stream' \in [Clients -> Servers \cup {Free}]
      /\ StreamInv'
  <2>1. CASE Leave(c)
    BY <2>1 DEF Leave, TypeOK, StreamInv
  <2>2. ASSUME NEW f \in Paths, Connect(c, f)
        PROVE  stream' \in [Clients -> Servers \cup {Free}] /\ StreamInv'
    <3>1. sock[f] \in Servers /\ stopper[sock[f]] = "wait"
      BY <2>2 DEF Connect, TypeOK
    <3>2. stream' = [stream EXCEPT ![c] = sock[f]]
      BY <2>2 DEF Connect
    <3> QED
      BY <1>1, <3>1, <3>2 DEF TypeOK, StreamInv
  <2> QED
    BY <2>1, <2>2
<1>3. TypeOK' /\ made' \in [Groups -> Nat]
  BY <1>1, <1>2 DEF TypeOK
<1>4. OrderInv' /\ RunInv' /\ TdInv' /\ StopInv' /\ SockInv' /\ ReachInv'
  BY <1>1 DEF OrderInv, RunInv, TdInv, StopInv, SockInv, ReachInv
<1>5. DoneInv'
  BY <1>1 DEF DoneInv, RunCtxDone, TdCtxDone
<1> QED
  BY <1>2, <1>3, <1>4, <1>5

\* Of the process that is killed nothing is left but its socket files.
LEMMA KillInv == ASSUME Inv, NEW p \in Processes, Kill(p) PROVE Inv'
<1> USE DEF Inv, Kill
<1>1. \A x \in Servers : /\ x[1] \in Processes /\ GroupOf(x) \in Groups
                         /\ GroupOf(x)[1] = x[1] /\ x # Free /\ Path(x) \in Paths
  BY ServerFacts
<1>2. /\ \A q \in Processes : proc'[q] = IF q = p THEN "dead" ELSE proc[q]
      /\ \A g \in Groups : td'[g] = IF g[1] = p THEN "idle" ELSE td[g]
      /\ \A x \in Servers : wl'[x] = IF x[1] = p THEN "idle" ELSE wl[x]
      /\ \A x \in Servers : stopper'[x] = IF x[1] = p THEN "none" ELSE stopper[x]
  BY DEF TypeOK
<1>3. /\ \A q : q # p => (RunCtxDone(q) => RunCtxDone(q)')
      /\ \A g \in Groups : g[1] # p => (TdCtxDone(g) => TdCtxDone(g)')
  <2>1. \A q : q # p /\ <<q>> \in failed => <<q>> \in failed'
    BY DEF TypeOK
  <2>2. \A g \in Groups : g[1] # p /\ g \in failed => g \in failed'
    BY GroupFacts
  <2> QED
    BY <2>1, <2>2 DEF RunCtxDone, TdCtxDone
<1>4. TypeOK' /\ made' \in [Groups -> Nat]
  <2>1. /\ proc' \in [Processes -> {"idle", "running", "returned", "dead"}]
        /\ fed' \in [Processes -> {"off", "listen", "serving", "returned"}]
        /\ canceled' \subseteq Processes
        /\ failed' \subseteq {<<q>> : q \in Processes} \cup Groups
        /\ port' \in {Free, Other} \cup {<<q>> : q \in Processes}
    BY DEF TypeOK
  <2>2. /\ td' \in [Groups -> {"idle", "rotate", "prepare", "serve", "returned"}]
        /\ made' \in [Groups -> Nat]
        /\ \A g \in Groups : made'[g] \in 0..Len(Configured(g))
    BY GroupFacts DEF TypeOK
  <2>3. /\ wl' \in [Servers -> {"idle", "listen", "bound", "serving", "broken", "returned"}]
        /\ stopper' \in [Servers -> {"none", "wait", "draining", "done"}]
    BY DEF TypeOK
  <2>4. open' \subseteq {x \in Servers : wl'[x] \in {"bound", "serving"}}
    BY <1>2 DEF TypeOK
  <2>5. /\ sock' \in [Paths -> Servers \cup {Free}]
        /\ stream' \in [Clients -> Servers \cup {Free}]
    BY DEF TypeOK
  <2> QED
    BY <2>1, <2>2, <2>3, <2>4, <2>5 DEF TypeOK
<1>5. OrderInv'
  BY <1>2 DEF OrderInv
<1>6. RunInv' /\ TdInv'
  BY <1>1, <1>2, GroupFacts DEF RunInv, TdInv
<1>7. StopInv'
  BY <1>2 DEF StopInv
<1>8. SockInv'
  <2> SUFFICES ASSUME NEW f \in Paths, sock[f] # Free
               PROVE  sock[f] \in open' \/ proc'[sock[f][1]] = "dead"
    BY DEF SockInv
  <2>1. sock[f] \in Servers
    BY DEF TypeOK
  <2>2. sock[f] \in open \/ proc[sock[f][1]] = "dead"
    BY DEF SockInv
  <2> QED
    BY <1>1, <1>2, <2>1, <2>2
<1>9. ReachInv'
  BY DEF ReachInv
<1>10. StreamInv'
  <2> SUFFICES ASSUME NEW c \in Clients, stream'[c] # Free
               PROVE  stopper'[stream'[c]] \in {"wait", "draining"}
    BY DEF StreamInv
  <2>1. stream'[c] = stream[c] /\ stream[c] # Free /\ stream[c][1] # p
    OBVIOUS
  <2>2. stream[c] \in Servers
    BY <2>1 DEF TypeOK
  <2> QED
    BY <1>2, <2>1, <2>2 DEF StreamInv
<1>11. DoneInv'
  <2>1. ASSUME NEW x \in Servers, stopper'[x] \in {"draining", "done"} \/ wl'[x] = "returned"
        PROVE  TdCtxDone(GroupOf(x))'
    <3>1. x[1] # p /\ stopper'[x] = stopper[x] /\ wl'[x] = wl[x]
      BY <1>2, <2>1
    <3>2. TdCtxDone(GroupOf(x))
      BY <2>1, <3>1 DEF DoneInv
    <3> QED
      BY <1>1, <1>3, <3>1, <3>2
  <2>2. ASSUME NEW g \in Groups, td'[g] = "returned", Configured(g) # <<>>
        PROVE  RunCtxDone(g[1])'
    <3>1. g[1] # p /\ td[g] = "returned"
      BY <1>2, <2>2
    <3>2. RunCtxDone(g[1])
      BY <2>2, <3>1 DEF DoneInv
    <3> QED
      BY <1>3, <3>1, <3>2
  <2> QED
    BY <2>1, <2>2 DEF DoneInv
<1> QED
  BY <1>4, <1>5, <1>6, <1>7, <1>8, <1>9, <1>10, <1>11

-----------------------------------------------------------------------------
(* The theorems.                                                           *)

\* The invariant is inductive.
LEMMA InvHolds == Spec => []Inv
<1>1. Inv /\ [Next]_vars => Inv'
  <2> SUFFICES ASSUME Inv, [Next]_vars PROVE Inv'
    OBVIOUS
  <2>1. CASE UNCHANGED vars
    BY <2>1 DEF Inv, TypeOK, OrderInv, RunInv, TdInv, StopInv, SockInv, ReachInv, StreamInv,
                DoneInv, RunCtxDone, TdCtxDone, vars, tdVars, wlVars, fedVars
  <2>2. ASSUME NEW p \in Processes,
               Start(p) \/ RunReturns(p) \/ FederationListens(p)
                 \/ Cancel(p) \/ Kill(p) \/ FederationFails(p)
        PROVE  Inv'
    BY <2>2, StartInv, RunReturnsInv, ContextInv, KillInv
  <2>3. ASSUME NEW g \in Groups, TdNext(g) PROVE Inv'
    BY <2>3, RotateInv, NewWorkloadInv, StartWorkloadsInv, TdReturnsInv DEF TdNext
  <2>4. ASSUME NEW x \in Servers, WorkloadNext(x) \/ StopperNext(x) \/ AcceptFails(x)
        PROVE  Inv'
    BY <2>4, ListenInv, ServeInv, WorkloadReturnsInv, GracefulStopInv, DrainedInv
       DEF WorkloadNext, StopperNext
  <2>5. ASSUME NEW c \in Clients, Leave(c) \/ \E f \in Paths : Connect(c, f) PROVE Inv'
    BY <2>5, ClientInv
  <2> QED
    BY <2>1, <2>2, <2>3, <2>4, <2>5 DEF Next, Faults, Over
<1> QED
  BY InitInv, <1>1, PTL DEF Spec

\* The types hold in every reachable state, and a listener is only open while
\* wl.Run has it in hand, so that none is leaked whatever fails.
THEOREM TypeCorrect == Spec => []TypeOK
  BY InvHolds, PTL DEF Inv

\* Who serves is reachable at its path, for every configuration in which trust domains
\* have paths of their own, also after any number of processes that were killed.
THEOREM Reachable == Spec => []ServingReachable
<1>1. Inv => ServingReachable
  BY DEF Inv, TypeOK, StopInv, ReachInv, ServingReachable
<1> QED
  BY InvHolds, <1>1, PTL

\* When wlapi.Run has returned there was a reason, and nothing of the process is left:
\* no listener, no stream, no socket file.
THEOREM CleanReturn == Spec => []ReturnedClean
<1>1. Inv => ReturnedClean
  <2> SUFFICES ASSUME Inv, NEW p \in Processes, proc[p] = "returned"
               PROVE  /\ RunCtxDone(p)
                      /\ \A x \in Servers : x[1] = p =>
                           x \notin open /\ StreamsOf(x) = {} /\ sock[Path(x)] # x
    BY DEF ReturnedClean
  <2>1. RunCtxDone(p)
    <3>1. PICK t \in TrustDomains : Configured(<<p, t>>) # <<>>
      BY ConfigAssumption DEF ConfigAssumption
    <3>2. <<p, t>> \in Groups /\ <<p, t>>[1] = p
      BY DEF Groups
    <3> QED
      BY <3>1, <3>2 DEF Inv, RunInv, DoneInv
  <2>2. ASSUME NEW x \in Servers, x[1] = p
        PROVE  x \notin open /\ StreamsOf(x) = {} /\ sock[Path(x)] # x
    <3>1. GroupOf(x) \in Groups /\ GroupOf(x)[1] = p /\ x # Free /\ Path(x) \in Paths
      BY <2>2, ServerFacts
    <3>2. wl[x] \in {"idle", "returned"}
      BY <3>1 DEF Inv, RunInv, TdInv
    <3>3. x \notin open
      BY <3>2 DEF Inv, TypeOK
    <3>4. stopper[x] \in {"none", "done"}
      BY <3>2 DEF Inv, StopInv
    <3>5. StreamsOf(x) = {}
      BY <3>1, <3>4 DEF Inv, StreamInv, StreamsOf
    <3> QED
      BY <2>2, <3>1, <3>3, <3>5 DEF Inv, SockInv
  <2> QED
    BY <2>1, <2>2
<1> QED
  BY InvHolds, <1>1, PTL

=============================================================================
