------------------------------- MODULE Watch -------------------------------
(* `watch x509-svid`, `watch jwt-svid` and `watch bundle`: one command       *)
(* (internal/watch, cmd/watch.go) against a Workload API server that is      *)
(* killed and started again, and a user who may interrupt it at any moment.  *)
(*                                                                           *)
(* What the server gives out is a number that grows whenever an SVID is      *)
(* rotated or a server with new keys starts.  An X.509 stream gets every     *)
(* number, a bundle stream only the one at its start, a JWT fetch the one at *)
(* the moment it is served.  The retry loop of go-spiffe is external; its    *)
(* back-off is a wait of any length.                                         *)
EXTENDS Integers, Sequences

CONSTANTS
  Kinds,     \* the commands tried, of "x509", "jwt", "bundle"
  Args,      \* how the command line may be: "good", or what is wrong with it
  Refusals,  \* subset of {TRUE}: whether a server may answer InvalidArgument
  MaxIssued  \* bound on the numbers the server gives out

ASSUME WatchAssumption ==
  /\ Kinds \subseteq {"x509", "jwt", "bundle"}
  /\ Args \subseteq {"good", "badSocket", "badFormat", "noAudience", "badType"}
  /\ Refusals \subseteq {TRUE} /\ MaxIssued \in Nat \ {0}

VARIABLES
  kind, arg,   \* the command and its arguments
  pc,          \* where its Watch is
  canceled,    \* the signal context is done
  serving,     \* a server listens on the socket
  issued,      \* the newest number a server has given out
  attached,    \* the server has this command's stream
  wire,        \* numbers sent on the stream and not received; for a JWT fetch, its reply
  err,         \* why the stream or fetch failed: "none", "server", "refused", "canceled"
  tick,        \* the ticker's channel holds a tick
  shown,       \* the newest number printed
  line,        \* the last line printed: [event, cause of an error]
  result       \* what Watch returned: "none", "nil" or "error"

vars == <<kind, arg, pc, canceled, serving, issued, attached, wire, err, tick,
          shown, line, result>>
world == <<kind, arg, canceled, serving, issued>>
stream == <<attached, wire, err>>
screen == <<shown, line>>

Streams == kind \in {"x509", "bundle"}

Init ==
  /\ kind \in Kinds /\ arg \in Args
  /\ arg = "noAudience" => kind = "jwt"
  /\ arg = "badType" => kind = "bundle"
  /\ pc = "start" /\ result = "none"
  /\ canceled = FALSE
  /\ serving \in BOOLEAN /\ issued = 1
  /\ attached = FALSE /\ wire = <<>> /\ err = "none" /\ tick = FALSE
  /\ shown = 0 /\ line = [event |-> "none", cause |-> "none"]

\* Formatter.Emit: one more line on the output.
Emit(event, cause) == line' = [event |-> event, cause |-> cause]

Return(value) == pc' = "done" /\ result' = value

-----------------------------------------------------------------------------
(* The server and the user.                                                  *)

\* The process behind the socket dies; what it had sent may still arrive.
Kill ==
  /\ serving
  /\ serving' = FALSE /\ attached' = FALSE
  /\ UNCHANGED <<kind, arg, pc, canceled, issued, wire, err, tick, screen, result>>

\* The next one starts, with keys of its own.
Restart ==
  /\ ~serving /\ issued < MaxIssued
  /\ serving' = TRUE /\ issued' = issued + 1
  /\ UNCHANGED <<kind, arg, pc, canceled, stream, tick, screen, result>>

\* The server rotates: an open X.509 stream is sent the new SVID; the bundle
\* streams are not (their handlers send once and wait).
Rotate ==
  /\ serving /\ issued < MaxIssued /\ kind # "bundle"
  /\ issued' = issued + 1
  /\ wire' = IF attached /\ kind = "x509" THEN Append(wire, issued + 1) ELSE wire
  /\ UNCHANGED <<kind, arg, pc, canceled, serving, attached, err, tick, screen, result>>

\* SIGINT or SIGTERM: the context of the command is done, its stream is torn down.
Cancel ==
  /\ ~canceled /\ pc # "done"
  /\ canceled' = TRUE
  /\ attached' = FALSE
  /\ UNCHANGED <<kind, arg, pc, serving, issued, wire, err, tick, screen, result>>

-----------------------------------------------------------------------------
(* Start: the checks each command makes before it says "watching".           *)

\* workloadapi.New does not connect; the X.509 watcher goes on to its stream.
StartX509 ==
  /\ pc = "start" /\ kind = "x509"
  /\ IF arg \in {"badSocket", "badFormat"}
     THEN Return("error") /\ UNCHANGED screen
     ELSE pc' = "connect" /\ Emit("watching", "none") /\ UNCHANGED <<result, shown>>
  /\ UNCHANGED <<world, stream, tick>>

\* No audience is an error before anything else is looked at.
StartJWT ==
  /\ pc = "start" /\ kind = "jwt"
  /\ IF arg \in {"noAudience", "badSocket", "badFormat"}
     THEN Return("error") /\ UNCHANGED screen
     ELSE pc' = "fetch" /\ Emit("watching", "none") /\ UNCHANGED <<result, shown>>
  /\ UNCHANGED <<world, stream, tick>>

\* Mutant: the watch goes on after an unknown type.
StartBundle_goesOn ==
  /\ pc = "start" /\ kind = "bundle"
  /\ pc' = "connect" /\ Emit("watching", "none")
  /\ result' = IF arg = "good" THEN "none" ELSE "error"
  /\ UNCHANGED <<world, stream, tick, shown>>

\* The bundle type is looked at last, after "watching".
StartBundle ==
  /\ pc = "start" /\ kind = "bundle"
  /\ IF arg \in {"badSocket", "badFormat"}
     THEN Return("error") /\ UNCHANGED screen
     ELSE /\ Emit("watching", "none") /\ UNCHANGED shown
          /\ IF arg = "badType" THEN Return("error")
             ELSE pc' = "connect" /\ UNCHANGED result
  /\ UNCHANGED <<world, stream, tick>>

-----------------------------------------------------------------------------
(* The stream of an X.509 or bundle watcher: WatchX509Context and             *)
(* WatchX509Bundles of go-spiffe, and the callbacks they are given.           *)

\* The call reaches a server, which sends what it has.
Connect ==
  /\ pc = "connect" /\ serving /\ ~canceled
  /\ pc' = "streaming" /\ attached' = TRUE
  /\ wire' = <<issued>> /\ err' = "none"
  /\ UNCHANGED <<world, tick, screen, result>>

\* The call fails: canceled, refused, or no server, also for a while after one
\* is back, while the gRPC channel waits before it dials again.
ConnectFails ==
  /\ pc = "connect"
  /\ \E why \in {"canceled", "server", "refused"} :
       /\ canceled <=> why = "canceled"
       /\ why = "refused" => serving /\ TRUE \in Refusals
       /\ err' = why
  /\ pc' = "failed"
  /\ UNCHANGED <<world, attached, wire, tick, screen, result>>

\* OnX509ContextUpdate, OnX509BundlesUpdate, OnJWTBundlesUpdate.
OnUpdate ==
  /\ pc = "streaming" /\ wire # <<>>
  /\ shown' = Head(wire) /\ Emit("updated", "none")
  /\ wire' = Tail(wire)
  /\ UNCHANGED <<world, pc, attached, err, tick, result>>

\* Mutant: only the user's end is noticed.
StreamEnds_unnoticed ==
  /\ pc = "streaming" /\ canceled
  /\ err' = "canceled" /\ wire' = <<>> /\ pc' = "failed"
  /\ UNCHANGED <<world, attached, tick, screen, result>>

\* The stream has ended, by the server or the user, and either may be noticed
\* when both have ended it; what was not received is lost.
StreamEnds ==
  /\ pc = "streaming" /\ ~attached
  /\ err' \in {why \in {"server", "canceled"} : why = "canceled" => canceled}
  /\ wire' = <<>> /\ pc' = "failed"
  /\ UNCHANGED <<world, attached, tick, screen, result>>

\* The ...WatchError callbacks print the error, whatever it is; go-spiffe then
\* returns what is Canceled or InvalidArgument and waits for a while otherwise.
OnWatchError ==
  /\ pc = "failed" /\ Streams
  /\ Emit("error", err) /\ UNCHANGED shown
  /\ pc' = IF err \in {"canceled", "refused"} THEN "returned" ELSE "backoff"
  /\ UNCHANGED <<world, stream, tick, result>>

\* The wait ends: with the context the watch is over, otherwise it tries again.
BackoffEnds ==
  /\ pc = "backoff"
  /\ pc' \in {p \in {"connect", "returned"} : p = "returned" => canceled}
  /\ UNCHANGED <<world, stream, tick, screen, result>>

\* Mutant: every end of the stream is an error.
StreamReturns_error ==
  /\ pc = "returned"
  /\ Return("error")
  /\ UNCHANGED <<world, stream, tick, screen>>

\* Watch returns an error only if the context is not done by now.
StreamReturns ==
  /\ pc = "returned"
  /\ Return(IF canceled THEN "nil" ELSE "error")
  /\ UNCHANGED <<world, stream, tick, screen>>

-----------------------------------------------------------------------------
(* The loop of the JWT watcher.                                              *)

\* FetchJWTSVID reaches the server, which mints a token.
Fetch ==
  /\ pc = "fetch" /\ serving /\ ~canceled
  /\ pc' = "fetching" /\ wire' = <<issued>> /\ err' = "none"
  /\ UNCHANGED <<world, attached, tick, screen, result>>

\* The reply comes in, also when a signal has come in the meantime.
FetchReturns ==
  /\ pc = "fetching"
  /\ pc' = "emit"
  /\ UNCHANGED <<world, stream, tick, screen, result>>

\* The fetch fails: canceled, refused, no server, or a reply that was lost.
FetchFails ==
  /\ pc \in {"fetch", "fetching"}
  /\ \E why \in {"canceled", "server", "refused"} :
       /\ canceled <=> why = "canceled"
       /\ why = "refused" => serving /\ TRUE \in Refusals
       /\ pc = "fetching" => ~serving \/ canceled
       /\ err' = why
  /\ wire' = <<>> /\ pc' = "failed"
  /\ UNCHANGED <<world, attached, tick, screen, result>>

EmitFetched ==
  /\ pc = "emit"
  /\ shown' = Head(wire) /\ Emit("updated", "none")
  /\ wire' = <<>> /\ pc' = "select"
  /\ UNCHANGED <<world, attached, err, tick, result>>

\* fetchAndEmit prints the error unless the context is done by now.
EmitError ==
  /\ pc = "failed" /\ kind = "jwt"
  /\ IF canceled THEN UNCHANGED line ELSE Emit("error", err)
  /\ pc' = "select"
  /\ UNCHANGED <<world, stream, tick, shown, result>>

\* The ticker: a tick that finds the channel full is dropped.
Ticks ==
  /\ kind = "jwt" /\ pc \notin {"start", "done"} /\ ~tick
  /\ tick' = TRUE
  /\ UNCHANGED <<world, pc, stream, screen, result>>

\* Mutant: a tick goes before the context.
Select_tickFirst ==
  /\ pc = "select"
  /\ \/ canceled /\ ~tick /\ Return("nil") /\ UNCHANGED tick
     \/ tick /\ tick' = FALSE /\ pc' = "fetch" /\ UNCHANGED result
  /\ UNCHANGED <<world, stream, screen>>

\* The select of the loop; with the context done and a tick there, either case.
Select ==
  /\ pc = "select"
  /\ \/ canceled /\ Return("nil") /\ UNCHANGED tick
     \/ tick /\ tick' = FALSE /\ pc' = "fetch" /\ UNCHANGED result
  /\ UNCHANGED <<world, stream, screen>>

-----------------------------------------------------------------------------
Environment == Kill \/ Restart \/ Rotate \/ Cancel
Start == StartX509 \/ StartJWT \/ StartBundle
Stream == \/ ConnectFails \/ OnUpdate \/ StreamEnds \/ OnWatchError
          \/ BackoffEnds \/ StreamReturns
Poll == FetchReturns \/ FetchFails \/ EmitFetched \/ EmitError \/ Select

Next == Environment \/ Start \/ Connect \/ Stream \/ Fetch \/ Poll \/ Ticks

Spec == Init /\ [][Next]_vars

\* The command runs, the wait and the ticker end, and a call that can again and
\* again reach a server does: the channel stops waiting and dials.  Of the select
\* with both cases ready, the scheduler takes each in the end.
FairSpec ==
  /\ Spec
  /\ WF_vars(Start \/ Stream \/ Poll)
  /\ SF_vars(Connect) /\ SF_vars(Fetch)
  /\ WF_vars(Ticks) /\ SF_vars(Select /\ pc' = "done")

-----------------------------------------------------------------------------
(* Properties.                                                               *)

TypeOK ==
  /\ kind \in Kinds /\ arg \in Args
  /\ pc \in {"start", "connect", "streaming", "failed", "backoff", "returned",
             "fetch", "fetching", "emit", "select", "done"}
  /\ canceled \in BOOLEAN /\ serving \in BOOLEAN /\ attached \in BOOLEAN /\ tick \in BOOLEAN
  /\ issued \in 1..MaxIssued /\ shown \in 0..MaxIssued
  /\ wire \in Seq(1..MaxIssued)
  /\ err \in {"none", "server", "refused", "canceled"}
  /\ line \in [event : {"none", "watching", "updated", "error"},
               cause : {"none", "server", "refused", "canceled"}]
  /\ result \in {"none", "nil", "error"} /\ (pc = "done" <=> result # "none")

\* "Continuously streams ... until interrupted (Ctrl+C)": a command line in order
\* ends with the interrupt or a server that refuses it, and once the interrupt has
\* come it is no error, wherever the watch is.
WatchesUntilInterrupted ==
  [][arg = "good" /\ pc' = "done" /\ pc # "done" =>
       \/ canceled /\ result' = "nil"
       \/ ~canceled /\ result' = "error" /\ err = "refused"]_vars

\* An interrupted command returns.
InterruptEnds == canceled ~> pc = "done"

\* When a server stays up and the command is not interrupted, what was
\* printed last is what the server gives out, however often it went away before.
Recovers ==
  <>[](serving /\ ~canceled /\ pc # "done") => <>[](shown = issued)

=============================================================================
