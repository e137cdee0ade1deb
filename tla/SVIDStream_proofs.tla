-------------------------- MODULE SVIDStream_proofs -------------------------
(***************************************************************************)
(* Proofs about the X.509 stream: a client that reads promptly holds a     *)
(* valid SVID while the authority lives, and is not left with an expired   *)
(* one for longer than a rotation period after that.                       *)
(***************************************************************************)
EXTENDS SVIDStream, TLAPS

\* The SVID sent last on s: on its way, or else the one the client holds.
Newest(s) == IF wire[s] = <<>> THEN held[s] ELSE wire[s][Len(wire[s])]

\* svid was minted within the life of the authority and is capped by it.
MintedInTime(svid) ==
  /\ svid \in SVID
  /\ svid.at < AuthorityNotAfter
  /\ svid.notAfter = CappedAtMost(svid.at, X509SVIDTTL, AuthorityNotAfter)

\* A handler whose client reads promptly is never blocked in Send, so that no
\* time passes between mint and send; its timer runs from the mint, and time
\* does not pass the timer.
PromptInv ==
  \A s \in Prompt : ctx[s] = "live" =>
    /\ pc[s] = "send" => MintedInTime(fresh[s]) /\ fresh[s].at = now
    /\ pc[s] = "wait" => /\ MintedInTime(Newest(s))
                         /\ timer[s] = Newest(s).at + X509SVIDRotateAt
                         /\ now <= timer[s]

\* While a handler sends, what it sends is an SVID.
FreshInv == \A s \in Streams : pc[s] = "send" => fresh[s] \in SVID

Inv == TypeOK /\ FreshInv /\ PromptInv

-----------------------------------------------------------------------------

\* Taking the head off a sequence leaves its last element the last.
LEMMA LastOfTail ==
  ASSUME NEW S, NEW q \in Seq(S), q # <<>>
  PROVE  /\ Head(q) \in S /\ Tail(q) \in Seq(S)
         /\ Tail(q) = <<>> => Head(q) = q[Len(q)]
         /\ Tail(q) # <<>> => Tail(q)[Len(Tail(q))] = q[Len(q)]
<1>1. Len(q) \in Nat /\ Len(q) > 0 /\ Head(q) \in S /\ Tail(q) \in Seq(S)
  OBVIOUS
<1>2. Head(q) = q[1] /\ Len(Tail(q)) = Len(q) - 1
  BY <1>1
<1>3. Tail(q) = <<>> => Len(q) = 1
  <2>1. Len(<<>>) = 0
    OBVIOUS
  <2>2. Tail(q) = <<>> => Len(Tail(q)) = 0
    BY <2>1, Zenon
  <2> QED
    BY <1>1, <1>2, <2>2
<1>4. Tail(q) # <<>> => Len(Tail(q)) > 0
  BY <1>1
<1>5. Tail(q) # <<>> => Tail(q)[Len(Tail(q))] = q[Len(q)]
  BY <1>1, <1>2, <1>4
<1> QED
  BY <1>1, <1>2, <1>3, <1>5

\* What Mint makes is an SVID that is minted now and capped.
LEMMA NewSVIDType ==
  ASSUME now \in Nat
  PROVE  NewSVID \in SVID /\ NewSVID.at = now
         /\ NewSVID.notAfter = CappedAtMost(now, X509SVIDTTL, AuthorityNotAfter)
<1>1. NewSVID = [at |-> now, notBefore |-> now - SVIDBackdatePeriod,
                 notAfter |-> CappedAtMost(now, X509SVIDTTL, AuthorityNotAfter)]
  BY DEF NewSVID, DetermineLifetime
<1>2. CappedAtMost(now, X509SVIDTTL, AuthorityNotAfter) \in Int
  BY StreamAssumption DEF CappedAtMost, StreamAssumption
<1>3. now - SVIDBackdatePeriod \in Int
  BY StreamAssumption DEF StreamAssumption
<1> QED
  BY <1>1, <1>2, <1>3 DEF SVID

\* Initially no stream is open.
LEMMA InitInv == Init => Inv
BY StreamAssumption DEF Init, Inv, TypeOK, FreshInv, PromptInv, StreamAssumption,
   HandlerStates

\* A stream that opens has yet to mint.
LEMMA OpenInv ==
  ASSUME Inv, NEW s \in Streams, Open(s)
  PROVE  Inv'
<1>1. /\ pc' = [pc EXCEPT ![s] = "mint"]
      /\ UNCHANGED <<now, fresh, timer, status, ctx, wire, held>>
  BY DEF Open, Goto
<1>2. TypeOK'
  BY <1>1 DEF Inv, TypeOK, HandlerStates
<1>3. \A r \in Streams : pc'[r] = "send" \/ pc'[r] = "wait" => pc'[r] = pc[r]
  BY <1>1 DEF Inv, TypeOK
<1>4. FreshInv'
  BY <1>1, <1>3 DEF Inv, FreshInv
<1>5. PromptInv'
  BY <1>1, <1>3, StreamAssumption DEF Inv, PromptInv, Newest, StreamAssumption
<1> QED
  BY <1>2, <1>4, <1>5 DEF Inv

\* Mint is where the authority's life is checked.
LEMMA MintInv ==
  ASSUME Inv, NEW s \in Streams, Mint(s)
  PROVE  Inv'
<1>1. UNCHANGED <<now, ctx, wire, held, timer>> /\ TypeOK /\ pc[s] = "mint"
  BY DEF Inv, Mint, HandlerReturns, Goto
<1>2. CASE HandlerReturns(s, "mint", "internal") /\ UNCHANGED fresh
  <2>1. /\ pc' = [pc EXCEPT ![s] = "returned"] /\ fresh' = fresh
        /\ status' = [status EXCEPT ![s] = "internal"]
    BY <1>2 DEF HandlerReturns, Goto
  <2>2. TypeOK'
    BY <1>1, <2>1 DEF TypeOK, HandlerStates
  <2>3. \A r \in Streams : pc'[r] = "send" \/ pc'[r] = "wait" => pc'[r] = pc[r]
    BY <1>1, <2>1 DEF TypeOK
  <2>4. FreshInv'
    BY <2>1, <2>3 DEF Inv, FreshInv
  <2>5. PromptInv'
    BY <1>1, <2>1, <2>3, StreamAssumption DEF Inv, PromptInv, Newest, StreamAssumption
  <2> QED
    BY <2>2, <2>4, <2>5 DEF Inv
<1>3. CASE ~CapPassed(now, AuthorityNotAfter) /\ pc' = [pc EXCEPT ![s] = "send"]
           /\ fresh' = [fresh EXCEPT ![s] = NewSVID] /\ status' = status
  <2>1. /\ NewSVID \in SVID /\ NewSVID.at = now
        /\ NewSVID.notAfter = CappedAtMost(now, X509SVIDTTL, AuthorityNotAfter)
    BY <1>1, NewSVIDType DEF TypeOK
  <2>2. now < AuthorityNotAfter
    BY <1>3 DEF CapPassed
  <2>3. /\ pc'[s] = "send" /\ fresh'[s] = NewSVID
        /\ \A r \in Streams \ {s} : pc'[r] = pc[r] /\ fresh'[r] = fresh[r]
    BY <1>1, <1>3 DEF TypeOK
  <2>4. TypeOK'
    <3>1. fresh' \in [Streams -> SVID \cup {NoSVID}]
      BY <1>1, <1>3, <2>1 DEF TypeOK
    <3> QED
      BY <1>1, <1>3, <3>1 DEF TypeOK, HandlerStates
  <2>5. FreshInv'
    BY <2>1, <2>3 DEF Inv, FreshInv
  <2>6. PromptInv'
    <3>1. SUFFICES ASSUME NEW r \in Prompt, ctx[r] = "live"
                   PROVE  /\ pc'[r] = "send" => MintedInTime(fresh'[r]) /\ fresh'[r].at = now
                          /\ pc'[r] = "wait" => /\ MintedInTime(Newest(r))
                                                /\ timer[r] = Newest(r).at + X509SVIDRotateAt
                                                /\ now <= timer[r]
      BY <1>1 DEF PromptInv, Newest, MintedInTime
    <3>2. CASE r = s
      BY <2>1, <2>2, <2>3, <3>2 DEF MintedInTime
    <3>3. CASE r # s
      BY <2>3, <3>1, <3>3, StreamAssumption DEF Inv, PromptInv, StreamAssumption
    <3> QED
      BY <3>2, <3>3
  <2> QED
    BY <2>4, <2>5, <2>6 DEF Inv
<1> QED
  BY <1>2, <1>3 DEF Mint, Goto

\* Send starts the timer; with a prompt client no time has passed since the mint.
LEMMA SendInv ==
  ASSUME Inv, NEW s \in Streams, Send(s)
  PROVE  Inv'
<1>1. /\ pc[s] = "send" /\ pc' = [pc EXCEPT ![s] = "wait"]
      /\ wire' = [wire EXCEPT ![s] = Append(wire[s], fresh[s])]
      /\ timer' = [timer EXCEPT ![s] = now + X509SVIDRotateAt]
      /\ UNCHANGED <<now, ctx, held, fresh, status>>
  BY DEF Send, Goto
<1>2. TypeOK /\ fresh[s] \in SVID
  BY <1>1 DEF Inv, FreshInv
<1>3. now \in Nat /\ X509SVIDRotateAt \in Nat /\ wire[s] \in Seq(SVID)
  BY <1>2, StreamAssumption DEF TypeOK, StreamAssumption
<1>4. /\ Append(wire[s], fresh[s]) \in Seq(SVID)
      /\ Append(wire[s], fresh[s]) # <<>>
      /\ Append(wire[s], fresh[s])[Len(Append(wire[s], fresh[s]))] = fresh[s]
  BY <1>2, <1>3
<1>5. /\ pc'[s] = "wait" /\ wire'[s] = Append(wire[s], fresh[s])
      /\ timer'[s] = now + X509SVIDRotateAt
      /\ \A r \in Streams \ {s} : pc'[r] = pc[r] /\ wire'[r] = wire[r] /\ timer'[r] = timer[r]
  BY <1>1, <1>2 DEF TypeOK
<1>6. TypeOK'
  <2>1. wire' \in [Streams -> Seq(SVID)]
    <3>1. wire \in [Streams -> Seq(SVID)]
      BY <1>2 DEF TypeOK
    <3> QED
      BY <1>1, <1>4, <3>1
  <2>2. timer' \in [Streams -> Nat]
    <3>1. timer \in [Streams -> Nat]
      BY <1>2 DEF TypeOK
    <3>2. now + X509SVIDRotateAt \in Nat
      BY <1>3
    <3> QED
      BY <1>1, <3>1, <3>2
  <2> QED
    BY <1>1, <1>2, <2>1, <2>2 DEF TypeOK, HandlerStates
<1>7. FreshInv'
  BY <1>1, <1>5 DEF Inv, FreshInv
<1>8. PromptInv'
  <2>1. SUFFICES ASSUME NEW r \in Prompt, ctx[r] = "live"
                 PROVE  /\ pc'[r] = "send" => MintedInTime(fresh[r]) /\ fresh[r].at = now
                        /\ pc'[r] = "wait" => /\ MintedInTime(Newest(r)')
                                              /\ timer'[r] = Newest(r)'.at + X509SVIDRotateAt
                                              /\ now <= timer'[r]
    BY <1>1 DEF PromptInv, MintedInTime
  <2>2. CASE r = s
    <3>1. Newest(r)' = fresh[s]
      BY <1>4, <1>5, <2>2 DEF Newest
    <3>2. MintedInTime(fresh[s]) /\ fresh[s].at = now
      BY <1>1, <2>1, <2>2 DEF Inv, PromptInv
    <3> QED
      BY <1>3, <1>5, <2>2, <3>1, <3>2
  <2>3. CASE r # s
    <3>1. Newest(r)' = Newest(r)
      BY <1>1, <1>5, <2>3, StreamAssumption DEF Newest, StreamAssumption
    <3> QED
      BY <1>1, <1>5, <2>1, <2>3, <3>1, StreamAssumption DEF Inv, PromptInv, StreamAssumption
  <2> QED
    BY <2>2, <2>3
<1> QED
  BY <1>6, <1>7, <1>8 DEF Inv

\* The handler returns, or goes on to the next mint.
LEMMA LeaveInv ==
  ASSUME Inv, NEW s \in Streams, SendFails(s) \/ TimerFires(s) \/ ContextDone(s)
  PROVE  Inv'
<1>1. /\ UNCHANGED <<now, fresh, timer, ctx, wire, held>>
      /\ pc' = [pc EXCEPT ![s] = "returned"] \/ pc' = [pc EXCEPT ![s] = "mint"]
  BY DEF SendFails, TimerFires, ContextDone, HandlerReturns, Goto
<1>2. status' \in [Streams -> {"none", "nil", "internal", "send error", "deadline exceeded"}]
  <2>1. status \in [Streams -> {"none", "nil", "internal", "send error", "deadline exceeded"}]
    BY DEF Inv, TypeOK
  <2>2. PICK st \in {"send error", "nil", "deadline exceeded"} :
          status' = [status EXCEPT ![s] = st] \/ status' = status
    BY DEF SendFails, TimerFires, ContextDone, HandlerReturns
  <2> QED
    BY <2>1, <2>2
<1>3. TypeOK'
  BY <1>1, <1>2 DEF Inv, TypeOK, HandlerStates
<1>4. \A r \in Streams : pc'[r] = "send" \/ pc'[r] = "wait" => pc'[r] = pc[r]
  BY <1>1 DEF Inv, TypeOK
<1>5. FreshInv'
  BY <1>1, <1>4 DEF Inv, FreshInv
<1>6. PromptInv'
  BY <1>1, <1>4, StreamAssumption DEF Inv, PromptInv, Newest, StreamAssumption
<1> QED
  BY <1>3, <1>5, <1>6 DEF Inv

\* A client that reads moves the newest SVID from the wire to itself.
LEMMA RecvInv ==
  ASSUME Inv, NEW s \in Streams, Recv(s)
  PROVE  Inv'
<1>1. /\ wire[s] # <<>>
      /\ held' = [held EXCEPT ![s] = Head(wire[s])]
      /\ wire' = [wire EXCEPT ![s] = Tail(wire[s])]
      /\ UNCHANGED <<now, pc, fresh, timer, status, ctx>>
  BY DEF Recv, handlerVars
<1>2. TypeOK /\ wire[s] \in Seq(SVID)
  BY DEF Inv, TypeOK
<1>3. /\ Head(wire[s]) \in SVID /\ Tail(wire[s]) \in Seq(SVID)
      /\ Tail(wire[s]) = <<>> => Head(wire[s]) = wire[s][Len(wire[s])]
      /\ Tail(wire[s]) # <<>> => Tail(wire[s])[Len(Tail(wire[s]))] = wire[s][Len(wire[s])]
  BY <1>1, <1>2, LastOfTail
<1>4. /\ held'[s] = Head(wire[s]) /\ wire'[s] = Tail(wire[s])
      /\ \A r \in Streams \ {s} : held'[r] = held[r] /\ wire'[r] = wire[r]
  BY <1>1, <1>2 DEF TypeOK
<1>5. TypeOK'
  <2>1. wire' \in [Streams -> Seq(SVID)]
    <3>1. wire \in [Streams -> Seq(SVID)]
      BY <1>2 DEF TypeOK
    <3> QED
      BY <1>1, <1>3, <3>1
  <2>2. held' \in [Streams -> SVID \cup {NoSVID}]
    BY <1>1, <1>2, <1>3 DEF TypeOK
  <2> QED
    BY <1>1, <1>2, <2>1, <2>2 DEF TypeOK
<1>6. \A r \in Streams : Newest(r)' = Newest(r)
  <2>1. Newest(s)' = Newest(s)
    BY <1>1, <1>3, <1>4 DEF Newest
  <2> QED
    BY <1>4, <2>1 DEF Newest
<1>7. FreshInv'
  BY <1>1 DEF Inv, FreshInv
<1>8. PromptInv'
  <2>1. SUFFICES ASSUME NEW r \in Prompt, ctx[r] = "live"
                 PROVE  /\ pc[r] = "send" => MintedInTime(fresh[r]) /\ fresh[r].at = now
                        /\ pc[r] = "wait" => /\ MintedInTime(Newest(r)')
                                             /\ timer[r] = Newest(r)'.at + X509SVIDRotateAt
                                             /\ now <= timer[r]
    BY <1>1 DEF PromptInv, MintedInTime
  <2> QED
    BY <1>6, <2>1, StreamAssumption DEF Inv, PromptInv, StreamAssumption
<1> QED
  BY <1>5, <1>7, <1>8 DEF Inv

\* A client that goes away is not spoken of.
LEMMA ClientEndsInv ==
  ASSUME Inv, NEW s \in Streams, ClientEnds(s)
  PROVE  Inv'
<1>1. /\ UNCHANGED <<now, pc, fresh, timer, status, wire, held>>
      /\ \E how \in {"canceled", "deadline"} : ctx' = [ctx EXCEPT ![s] = how]
  BY DEF ClientEnds, handlerVars
<1>2. /\ ctx' \in [Streams -> {"live", "canceled", "deadline"}]
      /\ \A r \in Streams : ctx'[r] = "live" => ctx[r] = "live"
  BY <1>1 DEF Inv, TypeOK
<1>3. TypeOK' /\ FreshInv'
  BY <1>1, <1>2 DEF Inv, TypeOK, FreshInv
<1>4. PromptInv'
  BY <1>1, <1>2, StreamAssumption DEF Inv, PromptInv, Newest, StreamAssumption
<1> QED
  BY <1>3, <1>4 DEF Inv

\* Time passes only when no handler can run: a handler that waits has a timer
\* that is still to come, and one that sends is blocked, which it is not when
\* its client has read everything.
LEMMA TickInv ==
  ASSUME Inv, Tick
  PROVE  Inv'
<1>1. /\ now' = now + 1 /\ UNCHANGED <<pc, fresh, timer, status, ctx, wire, held>>
      /\ \A s \in Streams : ~CanRun(s)
      /\ \A s \in Prompt : ctx[s] = "live" => wire[s] = <<>>
  BY DEF Tick, handlerVars
<1>2. TypeOK'
  <2>1. now' \in Nat
    <3>1. now \in Nat
      BY DEF Inv, TypeOK
    <3> QED
      BY <1>1, <3>1
  <2> QED
    BY <1>1, <2>1 DEF Inv, TypeOK
<1>3. FreshInv'
  BY <1>1 DEF Inv, FreshInv
<1>4. PromptInv'
  <2>1. SUFFICES ASSUME NEW s \in Prompt, ctx[s] = "live"
                 PROVE  /\ pc[s] # "send"
                        /\ pc[s] = "wait" => /\ MintedInTime(Newest(s))
                                             /\ timer[s] = Newest(s).at + X509SVIDRotateAt
                                             /\ now + 1 <= timer[s]
    BY <1>1 DEF PromptInv, MintedInTime, Newest
  <2>2. s \in Streams /\ ~CanRun(s) /\ wire[s] = <<>>
    BY <1>1, <2>1, StreamAssumption DEF StreamAssumption
  <2>3. pc[s] # "send"
    <3>1. Len(wire[s]) = 0 /\ 0 < Window
      BY <2>2, StreamAssumption DEF StreamAssumption
    <3> QED
      BY <2>2, <3>1 DEF CanRun
  <2>4. now \in Nat /\ timer[s] \in Nat
    BY <2>2 DEF Inv, TypeOK
  <2>5. pc[s] = "wait" => now + 1 <= timer[s]
    BY <2>2, <2>4 DEF CanRun
  <2> QED
    BY <2>1, <2>3, <2>5 DEF Inv, PromptInv
<1> QED
  BY <1>2, <1>3, <1>4 DEF Inv

\* The invariant is inductive.
LEMMA InvHolds == Spec => []Inv
<1>1. Inv /\ UNCHANGED vars => Inv'
  <2>1. TypeOK /\ FreshInv /\ UNCHANGED vars => TypeOK' /\ FreshInv'
    BY DEF TypeOK, FreshInv, vars, handlerVars
  <2>2. PromptInv /\ UNCHANGED vars => PromptInv'
    BY DEF PromptInv, Newest, MintedInTime, vars, handlerVars
  <2> QED
    BY <2>1, <2>2 DEF Inv
<1>2. Inv /\ [Next]_vars => Inv'
  <2>1. SUFFICES ASSUME Inv, [Next]_vars PROVE Inv'
    OBVIOUS
  <2>2. CASE \E s \in Streams : Open(s) \/ HandlerNext(s) \/ Recv(s) \/ ClientEnds(s)
    BY <2>1, <2>2, OpenInv, MintInv, SendInv, LeaveInv, RecvInv, ClientEndsInv
    DEF HandlerNext
  <2>3. CASE Tick
    BY <2>1, <2>3, TickInv
  <2>4. CASE Quiescent \/ UNCHANGED vars
    BY <1>1, <2>1, <2>4 DEF Quiescent
  <2> QED
    BY <2>1, <2>2, <2>3, <2>4 DEF Next
<1> QED
  BY InitInv, <1>2, PTL DEF Spec

-----------------------------------------------------------------------------
(* The theorems.                                                           *)

\* Types hold, whatever the TTLs and however far a client falls behind.
THEOREM TypeCorrect == Spec => []TypeOK
<1>1. Inv => TypeOK
  BY DEF Inv
<1> QED
  BY InvHolds, <1>1, PTL

\* For any TTL, rotation period and window: a client that reads promptly holds
\* an SVID that has not expired, as long as the authority has not.
THEOREM NeverWithoutSVID == Spec => []HeldSVIDValid
<1>1. Inv => HeldSVIDValid
  <2>1. SUFFICES ASSUME Inv, X509SVIDRotateAt < X509SVIDTTL, NEW s \in Prompt,
                        Attached(s), wire[s] = <<>>, now < AuthorityNotAfter
                 PROVE  now < held[s].notAfter
    BY DEF HeldSVIDValid
  <2>2. /\ MintedInTime(held[s]) /\ timer[s] = held[s].at + X509SVIDRotateAt
        /\ now <= timer[s] /\ now \in Nat
    BY <2>1 DEF Inv, TypeOK, PromptInv, Attached, Newest
  <2>3. /\ held[s].at \in Nat
        /\ held[s].notAfter = CappedAtMost(held[s].at, X509SVIDTTL, AuthorityNotAfter)
    BY <2>2 DEF MintedInTime, SVID
  <2> QED
    BY <2>1, <2>2, <2>3, StreamAssumption DEF CappedAtMost, StreamAssumption
<1> QED
  BY InvHolds, <1>1, PTL

\* Past the expiry of the authority a client that reads promptly is on its own
\* within one rotation period, for any TTL, rotation period and window.
THEOREM StreamEndsInTime == Spec => []StaleAtMostRotateAt
<1>1. Inv => StaleAtMostRotateAt
  <2>1. SUFFICES ASSUME Inv, NEW s \in Prompt, Attached(s)
                 PROVE  now <= AuthorityNotAfter + X509SVIDRotateAt
    BY DEF StaleAtMostRotateAt
  <2>2. /\ MintedInTime(Newest(s)) /\ timer[s] = Newest(s).at + X509SVIDRotateAt
        /\ now <= timer[s] /\ now \in Nat
    BY <2>1 DEF Inv, TypeOK, PromptInv, Attached
  <2>3. Newest(s).at \in Nat /\ Newest(s).at < AuthorityNotAfter
    BY <2>2 DEF MintedInTime, SVID
  <2> QED
    BY <2>2, <2>3, StreamAssumption DEF StreamAssumption
<1> QED
  BY InvHolds, <1>1, PTL

=============================================================================
