---------------------------- MODULE SVIDStream ----------------------------
(***************************************************************************)
(* FetchX509SVID, the long-lived stream of the Workload API server         *)
(* (internal/wlapi/workload.go): generate a key, mint, send, then wait for *)
(* the rotation timer or for the end of the stream's context.  One trust   *)
(* domain whose X.509 authority was created at time 0 and is never         *)
(* replaced (TrustDomain shows that it is the same for every mint), and    *)
(* one handler goroutine for each stream.                                  *)
(*                                                                         *)
(* Time: a handler that can run does so before the clock advances, and so  *)
(* does a client that reads promptly; a handler only falls behind when it  *)
(* is blocked, which is when gRPC's flow-control window is full.           *)
(***************************************************************************)
EXTENDS Integers, SequencesExt, Lifetime

CONSTANTS
  Streams,            \* the streams clients may open, each once
  X509SVIDTTL,        \* h.config.X509SVIDTTL
  X509SVIDRotateAt,   \* h.config.X509SVIDRotateAt
  AuthorityNotAfter,  \* expiry of the trust domain's only X.509 authority
  SVIDBackdatePeriod,
  Window,             \* messages the transport takes before Send blocks
  Prompt,             \* the streams whose clients read before time passes
  MaxTime             \* bound on the clock

ASSUME StreamAssumption ==
  /\ X509SVIDTTL \in Int
  /\ X509SVIDRotateAt \in Nat \ {0}
  /\ AuthorityNotAfter \in Int
  /\ SVIDBackdatePeriod \in Nat
  /\ Window \in Nat \ {0}
  /\ Prompt \subseteq Streams
  /\ MaxTime \in Nat

VARIABLES
  now,      \* time.Now()
  pc,       \* where the handler is
  ctx,      \* stream.Context(): live, canceled, or past its deadline
  fresh,    \* the SVID minted and not yet sent
  timer,    \* when time.After fires
  wire,     \* sent and not yet read by the client
  held,     \* the SVID the client read last
  status    \* what the handler returned

handlerVars == <<pc, fresh, timer, status>>
vars == <<now, handlerVars, ctx, wire, held>>

NoSVID == [notAfter |-> 0 - 1]
SVID == [at : Nat, notBefore : Int, notAfter : Int]

Init ==
  /\ now = 0
  /\ pc = [s \in Streams |-> "idle"]
  /\ ctx = [s \in Streams |-> "live"]
  /\ fresh = [s \in Streams |-> NoSVID]
  /\ timer = [s \in Streams |-> 0]
  /\ wire = [s \in Streams |-> <<>>]
  /\ held = [s \in Streams |-> NoSVID]
  /\ status = [s \in Streams |-> "none"]

Goto(s, from, to) == pc[s] = from /\ pc' = [pc EXCEPT ![s] = to]

HandlerReturns(s, from, st) ==
  /\ Goto(s, from, "returned")
  /\ status' = [status EXCEPT ![s] = st]

Open(s) ==
  /\ Goto(s, "idle", "mint")
  /\ UNCHANGED <<now, fresh, timer, status, ctx, wire, held>>

\* The SVID minted now, within the life of the authority.
NewSVID ==
  LET life == DetermineLifetime(now, X509SVIDTTL, AuthorityNotAfter, SVIDBackdatePeriod)
  IN [at |-> now, notBefore |-> life.notBefore, notAfter |-> life.notAfter]

\* A plausible bug: a failed mint is skipped and retried at the next rotation.
Mint_skip(s) ==
  \/ /\ X509SVIDTTL <= 0 \/ CapPassed(now, AuthorityNotAfter)
     /\ Goto(s, "mint", "wait")
     /\ timer' = [timer EXCEPT ![s] = now + X509SVIDRotateAt]
     /\ UNCHANGED <<now, ctx, wire, held, fresh, status>>
  \/ /\ X509SVIDTTL > 0 /\ ~CapPassed(now, AuthorityNotAfter)
     /\ Goto(s, "mint", "send")
     /\ fresh' = [fresh EXCEPT ![s] = NewSVID]
     /\ UNCHANGED <<now, ctx, wire, held, timer, status>>

\* generateKey, then MintX509SVID: either error ends the stream as Internal.
Mint(s) ==
  \/ /\ HandlerReturns(s, "mint", "internal")
     /\ UNCHANGED <<now, ctx, wire, held, timer, fresh>>
  \/ /\ X509SVIDTTL > 0 /\ ~CapPassed(now, AuthorityNotAfter)
     /\ Goto(s, "mint", "send")
     /\ fresh' = [fresh EXCEPT ![s] = NewSVID]
     /\ UNCHANGED <<now, ctx, wire, held, timer, status>>

\* A plausible bug: the timer is set for the whole life of the SVID.
Send_late(s) ==
  /\ Len(wire[s]) < Window
  /\ Goto(s, "send", "wait")
  /\ wire' = [wire EXCEPT ![s] = Append(@, fresh[s])]
  /\ timer' = [timer EXCEPT ![s] = now + X509SVIDTTL]
  /\ UNCHANGED <<now, ctx, held, fresh, status>>

\* stream.Send, then time.After: the timer starts when the message is taken.
Send(s) ==
  /\ Len(wire[s]) < Window
  /\ Goto(s, "send", "wait")
  /\ wire' = [wire EXCEPT ![s] = Append(@, fresh[s])]
  /\ timer' = [timer EXCEPT ![s] = now + X509SVIDRotateAt]
  /\ UNCHANGED <<now, ctx, held, fresh, status>>

\* A plausible bug: the error of Send is ignored.
SendFails_ignored(s) ==
  /\ ctx[s] # "live"
  /\ Goto(s, "send", "mint")
  /\ UNCHANGED <<now, ctx, held, fresh, wire, timer, status>>

\* Send returns the error of a stream that is over, blocked or not.
SendFails(s) ==
  /\ ctx[s] # "live"
  /\ HandlerReturns(s, "send", "send error")
  /\ UNCHANGED <<now, ctx, wire, held, timer, fresh>>

TimerFires(s) ==
  /\ timer[s] <= now
  /\ Goto(s, "wait", "mint")
  /\ UNCHANGED <<now, fresh, timer, status, ctx, wire, held>>

\* A plausible bug: a cancellation by the client is reported as an error.
ContextDone_raw(s) ==
  /\ ctx[s] # "live"
  /\ HandlerReturns(s, "wait", ctx[s])
  /\ UNCHANGED <<now, fresh, timer, ctx, wire, held>>

\* A client that went away is no error, one that ran out of time is.
ContextDone(s) ==
  /\ ctx[s] # "live"
  /\ HandlerReturns(s, "wait", IF ctx[s] = "canceled" THEN "nil" ELSE "deadline exceeded")
  /\ UNCHANGED <<now, fresh, timer, ctx, wire, held>>

-----------------------------------------------------------------------------
(* The client, as the server sees it.                                      *)

Recv(s) ==
  /\ wire[s] # <<>>
  /\ ctx[s] = "live"
  /\ held' = [held EXCEPT ![s] = Head(wire[s])]
  /\ wire' = [wire EXCEPT ![s] = Tail(@)]
  /\ UNCHANGED <<now, handlerVars, ctx>>

\* The client cancels, disconnects, or set a deadline that has passed.
ClientEnds(s) ==
  /\ pc[s] # "idle"
  /\ ctx[s] = "live"
  /\ \E how \in {"canceled", "deadline"} : ctx' = [ctx EXCEPT ![s] = how]
  /\ UNCHANGED <<now, handlerVars, wire, held>>

-----------------------------------------------------------------------------
HandlerNext(s) ==
  Mint(s) \/ Send(s) \/ SendFails(s) \/ TimerFires(s) \/ ContextDone(s)

\* A handler that is not blocked.
CanRun(s) ==
  \/ pc[s] = "mint"
  \/ pc[s] = "send" /\ (Len(wire[s]) < Window \/ ctx[s] # "live")
  \/ pc[s] = "wait" /\ (timer[s] <= now \/ ctx[s] # "live")

Tick ==
  /\ now < MaxTime
  /\ \A s \in Streams : ~CanRun(s)
  /\ \A s \in Prompt : ctx[s] = "live" => wire[s] = <<>>
  /\ now' = now + 1
  /\ UNCHANGED <<handlerVars, ctx, wire, held>>

\* Nothing more can happen within the bound on the clock.
Quiescent ==
  /\ now = MaxTime
  /\ \A s \in Streams : ~CanRun(s)
  /\ UNCHANGED vars

Next ==
  \/ \E s \in Streams : Open(s) \/ HandlerNext(s) \/ Recv(s) \/ ClientEnds(s)
  \/ Tick
  \/ Quiescent

Spec == Init /\ [][Next]_vars

\* Goroutines that can run do; nothing is assumed of the clients.
FairSpec == Spec /\ \A s \in Streams : WF_vars(HandlerNext(s))

-----------------------------------------------------------------------------
(* Properties.                                                             *)

HandlerStates == {"idle", "mint", "send", "wait", "returned"}

TypeOK ==
  /\ now \in Nat
  /\ pc \in [Streams -> HandlerStates]
  /\ ctx \in [Streams -> {"live", "canceled", "deadline"}]
  /\ fresh \in [Streams -> SVID \cup {NoSVID}]
  /\ timer \in [Streams -> Nat]
  /\ wire \in [Streams -> Seq(SVID)]
  /\ held \in [Streams -> SVID \cup {NoSVID}]
  /\ status \in [Streams -> {"none", "nil", "internal", "send error", "deadline exceeded"}]

\* A stream that is open and waiting for the next rotation, as a client sees it.
Attached(s) == pc[s] = "wait" /\ ctx[s] = "live"

\* If the rotation period is shorter than the life of an SVID, a client that
\* reads promptly always holds an SVID that has not expired: for as long as
\* the authority has not, and across every rotation, the capped ones included.
HeldSVIDValid ==
  X509SVIDRotateAt < X509SVIDTTL =>
    \A s \in Prompt :
      Attached(s) /\ wire[s] = <<>> /\ now < AuthorityNotAfter => now < held[s].notAfter

\* The authority is never replaced, so SVIDs stop at its expiry.  A client is
\* then not left with an expired SVID and a stream that looks healthy for
\* longer than one rotation period: the next mint fails and ends the stream.
StaleAtMostRotateAt ==
  \A s \in Prompt : Attached(s) => now <= AuthorityNotAfter + X509SVIDRotateAt

\* A handler whose client has gone returns, even from a Send that is blocked:
\* GracefulStop, which waits for the handlers, waits for clients only.
HandlerLeaves == \A s \in Streams : (ctx[s] # "live") ~> (pc[s] = "returned")

=============================================================================
