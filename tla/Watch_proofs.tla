---------------------------- MODULE Watch_proofs ----------------------------
(* Proofs about Watch: its types, and that a watch ends only when it is       *)
(* interrupted or refused, for every kind of command, command line and server.*)
EXTENDS Watch, TLAPS

\* Which command can be where, and what it then holds.
PhaseInv ==
  /\ pc \in {"connect", "streaming", "backoff", "returned"} => Streams
  /\ pc \in {"fetch", "fetching", "emit", "select"} => kind = "jwt"
  /\ pc \in {"fetching", "emit"} => wire # <<>>

\* Only the user's interrupt cancels, and go-spiffe gives up on nothing but that and
\* a refusal.
CauseInv ==
  /\ err = "canceled" => canceled
  /\ pc = "returned" => canceled \/ err = "refused"

Inv == TypeOK /\ PhaseInv /\ CauseInv

\* Initially no watch has begun.
LEMMA InitInv == Init => Inv
<1> SUFFICES ASSUME Init PROVE Inv
  OBVIOUS
<1>1. {canceled, serving, attached, tick} \subseteq BOOLEAN
  BY Zenon DEF Init
<1>2. TypeOK
  BY <1>1, WatchAssumption DEF WatchAssumption, Init, TypeOK
<1> QED
  BY <1>2 DEF Init, Inv, PhaseInv, CauseInv, Streams

\* Servers come, go and rotate; the user interrupts.
LEMMA EnvironmentInv == Inv /\ Environment => Inv'
<1> SUFFICES ASSUME Inv, Environment PROVE Inv'
  OBVIOUS
<1> USE WatchAssumption DEF WatchAssumption, Inv, TypeOK, PhaseInv, CauseInv, Streams, world, stream, screen
<1>1. CASE Kill
  <2>1. {serving', attached'} \subseteq BOOLEAN
    BY <1>1, Zenon DEF Kill
  <2> QED
    BY <1>1, <2>1 DEF Kill
<1>2. CASE Restart
  BY <1>2 DEF Restart
<1>3. CASE Rotate
  <2>1. issued' \in 1..MaxIssued
    BY <1>3 DEF Rotate
  <2>2. \/ wire' = wire
        \/ wire' = Append(wire, issued')
    BY <1>3 DEF Rotate
  <2>3. wire' \in Seq(1..MaxIssued) /\ (wire # <<>> => wire' # <<>>)
    BY <2>1, <2>2
  <2> QED
    BY <1>3, <2>1, <2>3 DEF Rotate
<1>4. CASE Cancel
  <2>1. canceled' /\ {canceled', attached'} \subseteq BOOLEAN
    BY <1>4, Zenon DEF Cancel
  <2> QED
    BY <1>4, <2>1 DEF Cancel
<1> QED
  BY <1>1, <1>2, <1>3, <1>4 DEF Environment

\* The arguments are checked before anything else happens.
LEMMA StartInv == Inv /\ (Start \/ Ticks) => Inv'
<1> SUFFICES ASSUME Inv, Start \/ Ticks PROVE Inv'
  OBVIOUS
<1> USE WatchAssumption DEF WatchAssumption, Inv, TypeOK, PhaseInv, CauseInv, Streams, world, stream, screen
<1>1. CASE StartX509
  BY <1>1 DEF StartX509, Return, Emit
<1>2. CASE StartJWT
  BY <1>2 DEF StartJWT, Return, Emit
<1>3. CASE StartBundle
  BY <1>3 DEF StartBundle, Return, Emit
<1>4. CASE Ticks
  BY <1>4 DEF Ticks
<1> QED
  BY <1>1, <1>2, <1>3, <1>4 DEF Start

\* The stream watchers, with the retry loop of go-spiffe.
LEMMA StreamInv == Inv /\ (Connect \/ Stream) => Inv'
<1> SUFFICES ASSUME Inv, Connect \/ Stream PROVE Inv'
  OBVIOUS
<1> USE WatchAssumption DEF WatchAssumption, Inv, TypeOK, PhaseInv, CauseInv, Streams, world, stream, screen
<1>1. CASE Connect
  BY <1>1 DEF Connect
<1>2. CASE ConnectFails
  BY <1>2 DEF ConnectFails
<1>3. CASE OnUpdate
  <2>1. Head(wire) \in 1..MaxIssued /\ Tail(wire) \in Seq(1..MaxIssued)
    BY <1>3 DEF OnUpdate
  <2> QED
    BY <1>3, <2>1 DEF OnUpdate, Emit
<1>4. CASE StreamEnds
  BY <1>4 DEF StreamEnds
<1>5. CASE OnWatchError
  BY <1>5 DEF OnWatchError, Emit
<1>6. CASE BackoffEnds
  BY <1>6 DEF BackoffEnds
<1>7. CASE StreamReturns
  BY <1>7 DEF StreamReturns, Return
<1> QED
  BY <1>1, <1>2, <1>3, <1>4, <1>5, <1>6, <1>7 DEF Stream

\* The watcher that polls.
LEMMA PollInv == Inv /\ (Fetch \/ Poll) => Inv'
<1> SUFFICES ASSUME Inv, Fetch \/ Poll PROVE Inv'
  OBVIOUS
<1> USE WatchAssumption DEF WatchAssumption, Inv, TypeOK, PhaseInv, CauseInv, Streams, world, stream, screen
<1>1. CASE Fetch
  BY <1>1 DEF Fetch
<1>2. CASE FetchReturns
  BY <1>2 DEF FetchReturns
<1>3. CASE FetchFails
  BY <1>3 DEF FetchFails
<1>4. CASE EmitFetched
  <2>1. Head(wire) \in 1..MaxIssued
    BY <1>4 DEF EmitFetched
  <2> QED
    BY <1>4, <2>1 DEF EmitFetched, Emit
<1>5. CASE EmitError
  BY <1>5 DEF EmitError, Emit
<1>6. CASE Select
  <2>1. CASE canceled /\ Return("nil") /\ UNCHANGED tick
    BY <1>6, <2>1 DEF Select, Return
  <2>2. CASE tick /\ tick' = FALSE /\ pc' = "fetch" /\ UNCHANGED result
    <3>1. pc = "select" /\ kind = "jwt" /\ UNCHANGED <<world, stream, screen>>
      BY <1>6 DEF Select
    <3>2. TypeOK'
      BY <2>2, <3>1
    <3>3. PhaseInv' /\ CauseInv'
      BY <2>2, <3>1
    <3> QED
      BY <3>2, <3>3
  <2> QED
    BY <1>6, <2>1, <2>2 DEF Select
<1> QED
  BY <1>1, <1>2, <1>3, <1>4, <1>5, <1>6 DEF Poll

\* The invariant is inductive.
LEMMA InvHolds == Spec => []Inv
<1>1. Inv /\ [Next]_vars => Inv'
  <2> SUFFICES ASSUME Inv, [Next]_vars PROVE Inv'
    OBVIOUS
  <2>1. CASE UNCHANGED vars
    BY <2>1 DEF Inv, TypeOK, PhaseInv, CauseInv, Streams, vars
  <2> QED
    BY <2>1, EnvironmentInv, StartInv, StreamInv, PollInv DEF Next
<1> QED
  BY InitInv, <1>1, PTL DEF Spec

\* The types hold for every set of commands, command lines and bounds, and only a
\* Watch that has returned has a result.
THEOREM TypeCorrect == Spec => []TypeOK
  BY InvHolds, PTL DEF Inv

\* A watch whose command line is in order returns only when it is interrupted, and
\* then without an error, or refused (x509watcher.go:47, jwtwatcher.go:68).
THEOREM EndsOnlyInterrupted == Spec => WatchesUntilInterrupted
<1> DEFINE Ends == arg = "good" /\ pc' = "done" /\ pc # "done" =>
                     \/ canceled /\ result' = "nil"
                     \/ ~canceled /\ result' = "error" /\ err = "refused"
<1>1. Inv /\ [Next]_vars => [Ends]_vars
  <2> SUFFICES ASSUME Inv, Next, arg = "good", pc' = "done", pc # "done"
               PROVE Ends
    BY DEF Inv
  <2> USE DEF Inv, PhaseInv, CauseInv, Streams, world, stream, screen, Return
  <2>1. CASE Environment
    BY <2>1 DEF Environment, Kill, Restart, Rotate, Cancel
  <2>2. CASE Start \/ Ticks
    BY <2>2 DEF Start, StartX509, StartJWT, StartBundle, Ticks
  <2>3. CASE Connect \/ Stream
    BY <2>3 DEF Connect, Stream, ConnectFails, OnUpdate, StreamEnds, OnWatchError,
                BackoffEnds, StreamReturns
  <2>4. CASE Fetch \/ Poll
    BY <2>4 DEF Fetch, Poll, FetchReturns, FetchFails, EmitFetched, EmitError, Select
  <2> QED
    BY <2>1, <2>2, <2>3, <2>4 DEF Next
<1> QED
  BY InvHolds, <1>1, PTL DEF Spec, WatchesUntilInterrupted

=============================================================================
