# A TLA+ model of spiffecli

`spiffecli` is a command line tool around SPIFFE: it runs a development server
that simulates the Workload API, and it fetches, watches, inspects and verifies
SVIDs and trust bundles. This directory holds TLA+ modules that model the parts of
it with behaviour worth checking, the TLC configurations that check them, and proofs
for TLAPS. `PROJECT.json` is the index: components, runs, the source lines
behind each definition, hazards, findings, theorems.

    tlc -config TrustDomain.cfg TrustDomainMC            # a run of PROJECT.json
    tlapm Issuance_proofs.tla                            # the proofs, of each *_proofs module

## The system

| Part | State | Operations | What is hard |
|---|---|---|---|
| Trust domains (`internal/wlapi/trustdomain.go`) | two slices of authorities under an RWMutex; one key counter for all | `Run`: rotate both authorities, then the workloads; `MintX509SVID`, `MintJWTSVID`, `X509Bundles`, `JWTBundles`, `Bundle` | half of the reads do not take the lock; the checks after `RUnlock` read the field again |
| Workload API handlers (`workload.go`) | one goroutine a call; a loop for each X.509 stream | four `Fetch...` handlers | slow clients, clients that go away, rotation against expiry |
| Federation endpoint (`federation.go`) | none of its own | GET a bundle | serves while the trust domains still start; ignores its context |
| Signing (`x509authority`, `jwtauthority`) | none | mint within the authority's life | off-by-one at the expiry, backdating |
| Life of the server (`wlapi.go`, `Run` of trust domain and workload) | goroutines in nested errgroups, socket files, a port | start, listen, serve, stop | failure of one of several, cancellation between two steps, files left by a crash |
| Test clock (`internal/test/testclock`, `internal/clock`) | a heap of timers under a mutex and a condition variable | timers, tickers, `Sleep`, `Advance`, `Step`, `Block` | lost wake-ups, zero and negative durations |
| Configuration (`config.go`, `cmd/run.go`) | a TOML file | `run` writes the default one; `LoadConfig` | a crash or an editor while it is written; sockets in common |
| Watchers (`internal/watch`) | a stream or a ticker | three watch loops | reconnection, cancellation |
| Get, verify, inspect (`cmd`, `x509svid`, `jwtsvid`, `bundle`, `x509verify`, `jwtinspect`) | output files | fetch and write; read and verify | failure between two files, a server that goes away or is another by now, no time limit on HTTP |
| X.509 inspection (`x509inspect`) | none | order a chain, build a tree | cycles, ties, missing issuers |
| Test fixtures (`testauthority`, `testkey`, `testx509`) | authorities; a key file | rotate; load and extend | several processes, one file |

How they interact: `wlapi.Run` starts one goroutine for each trust domain and one for
the federation endpoint. A trust domain creates its two authorities, prepares
every workload's socket and then starts one goroutine a workload. gRPC calls each
handler in a goroutine of its own, and net/http each federation request; both reach the
trust domain's slices directly. Errors and cancellations travel through
contexts derived by `errgroup`. The signing packages are called synchronously. All
other commands are processes of their own: they meet a server at its socket or
its federation endpoint, and each other in the files one writes and another reads.

## Modules

| Module | Models |
|---|---|
| `Lifetime` | the validity arithmetic the two signing packages each have a copy of |
| `TrustDomain` | trust domains, handlers and federation requests, interleaved at every lock operation and every access to shared memory |
| `Issuance` | what a trust domain promises: authorities are created one after the other, and a reply is computed from all that exist at one instant |
| `TrustDomain_proofs` | the proofs about `TrustDomain` alone |
| `Issuance_proofs` | that `TrustDomain` implements `Issuance`, and what bundles hold; extends `TrustDomain_proofs` |
| `SVIDStream_proofs`, `Server_proofs`, `TestClock_proofs`, `Watch_proofs`, `X509Inspect_proofs`, `CommandLine_proofs` | the proofs about the module they are named for |
| `SVIDStream` | the loop of `FetchX509SVID` over time, with flow control |
| `Server` | the life of the server, its goroutines, sockets and port, through kill and restart |
| `TestClock` | the deterministic clock and `clock.Sleep` |
| `X509Inspect` | `inspect x509`: the union of two files of certificates, who issued whom, the leaf, the chain, the shortest path, the forest |
| `Watch` | the three watch commands against a server that goes away and comes back |
| `Files` | processes that read and write whole files, fail and are killed in the middle of it |
| `Tokens` | JWTs: who signs, who validates, who takes one for a JWT-SVID |
| `Config` | `LoadConfig` |
| `Startup` | `run`: the default configuration, and the sockets as others see them; extends `Files`, `Config` |
| `Commands` | `get`, `verify`, `inspect jwt`, `inspect jwks`; extends `Startup`, `Tokens` |
| `TestKeys` | the bucket of test keys; extends `Files` |
| `CommandLine` | all of these processes on one machine; extends `Commands`, `TestKeys` |
| `TrustDomainMC`, `ServerMC`, `TestClockMC`, `X509InspectMC`, `CommandLineMC` | the constants of the runs |

**TrustDomain.** `run[td]` is the program counter of `td.Run`, `pc[c]` that of a
call. The mutex has a writer that announces itself (`LockAnnounce`) before it
acquires (`LockAcquire`), as Go's RWMutex does: from then on `RLock` blocks.
A mint is four steps, because the code reads the field four times over: `RLock`,
`CopyAuthorities`, `CheckAuthorities` (without the lock) and the mint proper.
The two unlocked bundle methods have a state, `readUnlocked`, in which they
hold nothing, so that a race would be seen as a pair of states. Certificates are
records of what a verifier reads from them; keys are left out, the `n`-th
certificate of a trust domain stands for its key. Signing may fail after the checks of
a mint (`Signing`), which then returns an error.

**SVIDStream.** One authority with a fixed expiry, handlers that mint, send, and
wait. `Window` bounds the messages gRPC takes before `Send` blocks. Time only passes
when no handler can run and the clients of the streams in `Prompt` have read.

**Server.** Rotation is one step that may fail. `sock` says which listener a socket
file belongs to, `open` which listeners are open: a killed process leaves
the file and closes the listener. `stopper` is the goroutine that waits for the
context and calls `GracefulStop`. `failed` holds the errgroups that have seen an
error; their contexts are then done. `MayFail` chooses for each process what may fail. The
second process has its own configuration and starts when the first has ended.

**TestClock.** Every operation is atomic because it holds the mutex throughout,
except `Block`: between its check and the moment it is on the condition's
list (`parking`) only one thing can happen, the broadcast that does not take
the mutex. `Advance` is in closed form: channels are independent, so the order in which
timers that are due together fire cannot be seen.

**X509Inspect.** A certificate is the record of the fields the code compares; a key
identifier is the key it names (`HonestKeyIds`), so that a link made by
identifiers alone can be compared with who really signed. Parents, leaf and union are
operators, the walk of `buildChain` and the recursion of `writeTreeNode` are
steps; `stack` holds the calls that are pending. `Certificate.Verify` is external and
described by the chains it accepts and the order its search finds them in.

**Watch.** What a server gives out is a number that grows with rotation and with
a new server; `wire` is what is on its way. The retry loop belongs to go-spiffe: it hands
every error to the callback, returns `Canceled` and `InvalidArgument`, and waits and
tries again after any other. Its waits, like a gRPC channel's before it dials again, have
no length.

**CommandLine.** A process has a `job`, which is its command with its flags, a step `pc` and
what it holds in memory; it begins when it likes and may be killed. `WriteFile` is what
`os.WriteFile` does, which calls `write(2)` in a loop: it opens the file, which may fail and
truncates it; puts a part of the content there (`Prefixes` says which parts can be told apart), then
the rest; and closes it. Each of these may fail, the last with everything in place, and a failure, like a kill,
leaves what is there by then. Other processes read, truncate and write the same file between any two of
these steps (`Filled`). A path is split at its dots, as
`privateKeyFilename` puts `-key` before the first of them. Certificates and tokens name the server
process that signed them, because its authorities live as long as it does. The
start of a server is one step (`Load`): what happens during it is in `TrustDomain`
and `Server`. A source of go-spiffe dials until the deadline and then follows
the server at its socket (`Refresh`). What HTTP brings (`Web`) is anything.

## Runs

| Run | Question | Bounds |
|---|---|---|
| `TrustDomain` | races, missing authorities, SVID lifetimes, key IDs, currency of the bundle streams; do the concurrent calls look like atomic ones; does a bundle verify what was issued before it; does start-up finish, do calls return | 2 trust domains, a workload in one, 2 calls of any method, clock to the expiry of one authority, federation on (262,400 states) |
| `SVIDStream` | does a client that reads always hold a valid SVID; how long can it be stale once the authority has expired; what does a slow client read; do handlers leave | 2 streams, one of them prompt, window 2, clock past the authority's expiry by more than one period |
| `Server_shutdown` | reachability, what is left after return, swallowed errors; does an error or a cancellation bring everything down; does the next process come up | 2 trust domains, 3 workloads, two of them on one path, with and without federation endpoint, every failure in the first process, none in the second |
| `X509Inspect_views` | are the links of chain and forest real; does the chain go up as far as there are issuers; is anything drawn twice or left out; which certificate is the leaf | 10 certificates, files of up to 2 and bundles of up to 3 of them in any order, 6 sets of flags |
| `Watch` | does a watch end only when interrupted or refused, and then end; is an interrupt no error; does it catch up with a server that was away | all 3 commands, 4 numbers given out, one interrupt |
| `TestClock` | timers never overdue, sleeps never early, nothing left behind; does a blocked driver notice | 1 handle, 2 sleeps, durations -1 to 1, steps 0 to 2, clock to 2 |
| `CommandLine` | what gets write, do verifies accept; do key and certificate belong together; whose configuration is served, whose is overwritten; do test keys agree; do `inspect` and `verify` agree on tokens; does every command end | 13 scenarios of up to 4 processes, and 1296 tokens, see below (243,494 states) |

Two calls and one writer a trust domain are enough to meet every pair of
conflicting accesses, and a reader that waits behind a writer that waits for another reader. The
second trust domain draws key IDs from the same counter. The proofs lift these bounds, but for liveness.
In `Server`, a trust domain with two workloads and one beside it has a failing
workload, its sibling and a stranger. One stream is enough to hold up a shutdown.

The certificates of `X509Inspect` are chosen for the cases where a first match can be
the wrong one: two roots that certified each other, an intermediate certified by both, a
CA of its name with another key, leaves with and without an authority key
identifier. Five certificates are what a detour longer than the shortest path takes. In `Watch`
four numbers allow three restarts or rotations, so that a server can be lost
before, during and after the first update.

`CommandLineMC` lists what is started together, with the files there are before: a server,
or one after the other or both at a time, with two gets of one file, with a get and the verify
of what it wrote, for each kind of file and each source of trust; a user who saves a
configuration that is good, has an invalid path or shares a socket, while `run` asks or loads; three
test binaries, with and without CI; and 1296 tokens
under `inspect` and `verify` at once: every token that the code can tell apart by its headers, key, subject,
audience and one of the times `exp`, `nbf` and `iat`, each on both sides of the leeway of a minute. Order, failures and kills are free. Two writers
and a reader meet in every scenario that has a file with two writers; no command reads more
than two files or needs more than one server at a time.

Five runs end in a violation. Each is a difference between the code and what its
documents or its own assertions say.

* `TrustDomain_jwtexpiry`: `MintJWTSVID` never reads the expiry it stored for the JWT
  authority; it caps a token at the expiry of an authority created now. Past
  `jwt_authority_ttl` tokens are still signed. `TestExpiredAuthority` of
  `jwtauthority` tests a check the server cannot fail.
* `TestClock_timeout`: the time-out of `Block` can be lost, and `Block` then hangs
  where it should fail the test.
* `X509Inspect_circle`: where every certificate has a parent, the forest starts at
  the first certificate of the file, "so the visited-set cycle guard can fire". A leaf
  in front of two CAs that certified each other hangs off the circle and is not in it: the
  guard never fires, and the CAs are not drawn.
* `CommandLine_typ`: `isSvid` says that `typ`, "if present", is `JWT` or `JOSE`, but rejects every token
  that has no extra header at all, which `verify` accepts. `InspectAgrees` leaves these tokens to this run.
* `X509Inspect_shortest`: `--shortest-path` shows the first chain that `Verify` finds,
  which need not be the shortest.

Behaviour the models show that no document speaks of is recorded under
`hazards` with a note, or here: a `Serve` that fails is not reported before the context is
done; the federation endpoint keeps a canceled `Run` from returning; trust domains
configured with one socket path take it from each other, and a second `run` takes the sockets of
the first even when it then fails on its port; a client that reads late
may see its SVID expire because the rotation timer only starts after `Send`; a
negative `x509_svid_rotate_at` makes the stream spin; SVIDs are backdated by ten
seconds, the authority that signs them by one; a timer of the test clock that is reset to expire
now stays silent until the clock moves; the stream watchers print the user's own
interrupt as an error; certificates below a circle of parents vanish from the forest without a
note when another root is there; a default configuration that was cut off while it was
written, by a kill or by a full disk, may decode and is then served; a file of test keys that was
cut off between two PEM blocks loads, and keys are made anew in place of committed ones; test binaries
at the same time may find the keys that another is in the middle of writing; `privateKeyFilename` puts
`-key` at the first dot of the whole path, so that the key of `./cert.pem` goes to `-key./cert.pem` and that of
`a.d/cert.pem` to `a-key.d/cert.pem`, where the comment (`x509svid/client.go:146-148`) says before the extension; a configuration saved while `run` asks whether to write one
is overwritten; two `get x509-svid` of one file may leave the key of one beside the certificate of
the other; a `file://` URL is checked by its path and then opened as it is, so
`verify x509` never reads it; a `JwkSource` has one set of keys for every trust
domain, whatever `--trust-domain` says; `get jwt-svid --decode` writes no file; the requests over HTTP
have no time limit.

## Fairness

`FairSpec` of each module assumes weak fairness of every goroutine: the Go scheduler
runs what can run. Go's RWMutex admits a waiting writer before later readers,
which is in the actions and not in the fairness. Nothing is assumed of clients in
`TrustDomain` and `SVIDStream`. `Server` assumes that a client that has a stream
leaves in the end, without which `GracefulStop` waits for ever, as it should;
nobody has to cancel, kill or connect. `TestClock` assumes that the context of `Block`
expires, which is five seconds of real time. `Watch` assumes strong fairness of a call
that can again and again reach a server (the gRPC channel dials again in the end) and of the
branch of a `select` that is again and again ready (Go picks among the ready ones at
random), but not that anybody interrupts or that a server comes back. `X509Inspect`
has no liveness property: that it ends is in the bounds on what it shows
(no certificate twice). `CommandLine` assumes that a process that can take its next step, or
whose time is up, does; nobody has to begin, to confirm or to be killed, and what is asked
over HTTP need not answer.

## Proofs

Each theorem is for every value of its module's constants that the `ASSUME` of that
module allows, and rests on nothing else. The assumptions say what the constants are
(the TTLs are integers, negative ones included, as the configuration accepts them) and,
where it matters, what the code guarantees of them. TLC evaluates them in the runs.

| Module | Theorems | State |
|---|---|---|
| `TrustDomain_proofs` | `TypeCorrect`, `RaceFreedom`, `MintsSucceed`, `X509Contained`, `KeyIDsDistinct` | the types; no data race; the branches marked unexpected are unreachable; an X.509 SVID within its authority; distinct key IDs |
| `Issuance_proofs` | `Implements`, `BundlesStayCurrent`, `BundlesVerify` | the refinement of `Issuance`; what a bundle stream sent once stays current; a bundle verifies what was issued before it |
| `SVIDStream_proofs` | `TypeCorrect`, `NeverWithoutSVID`, `StreamEndsInTime` | a prompt client holds a valid SVID; how long it can be stale at most |
| `Server_proofs` | `TypeCorrect`, `Reachable`, `CleanReturn` | what serves can be reached; nothing is left of a `Run` that returned, and it had a reason |
| `TestClock_proofs` | `TypeCorrect`, `NeverOverdue`, `SleepCorrect` | no timer in the past; sleeps neither early nor left behind |
| `Watch_proofs` | `TypeCorrect`, `EndsOnlyInterrupted` | a watch ends only interrupted or refused |
| `X509Inspect_proofs` | `TypeCorrect`, `ChainsAreIssued`, `ChainsGoToTheTop`, `SvidIsLast`, `DrawnOnce`, `HiddenByCircles` | the links of a chain are signatures; it goes up as far as there are issuers; the SVID is its leaf; the forest has each certificate once, under an issuer, and leaves out circles alone |
| `CommandLine_proofs` | `TypeCorrect`, `ConfigKept`, `PairsMatch`, `WholeServed`, `KeysAgreed`, `InspectionAgrees`, `RoundTrips` | what the user saved is replaced only by a run that asked before; a get leaves a pair; one whole document is served unless a write of it failed; tests keep and share keys; `inspect` and `verify` agree; `verify` accepts what gets wrote |

None of the invariants is inductive alone.

**TrustDomain.** `Inv` adds: `WriterInv` (the writer holds `td.mu` exactly in
the states between `LockAcquire` and the append) and `ReaderInv` (the readers are
the calls in a locked read, and none is there while the writer holds the lock), which
give mutual exclusion for the locked reads; `PhaseInv` (from the program counter of `td.Run`
it follows how many authorities exist) and `ListenInv` (who listens has a trust
domain that serves), which give it for the unlocked ones: a workload is only
called when the appends are over; `CallInv` and `MintInv` (what a call past `RLock`
has copied is a non-empty prefix), for the emptiness check; `KeyInv` (no key ID
that is in use or in hand exceeds the counter, and those in hand differ), for the
key IDs. `InvHolds` proves the conjunction inductive, one lemma for each group of actions,
and the theorems follow from it.

**Issuance.** The refinement has a lemma for each step: the appends publish, the mints and
the bundle methods answer, and every other step stutters (`HiddenStep`). A mint answers with
what was copied some steps before, and is still an answer computed at this instant because
of `PhaseInv` and `ListenInv`: who can be called has a trust domain whose appends are over.
`AnsweredInv` (an answer is the last thing that happens to a call) keeps replies from
changing. `StepPublishes` says how a slice may change at all, from which `BundlesStayCurrent`
follows; `IssuedInv` (the issuer of an SVID that was answered is among the authorities) gives
`BundlesVerify`.

**SVIDStream.** `PromptInv` carries both properties: a prompt client never blocks `Send`, so no
time passes between a mint and its send, and the timer runs from the mint. Hence the newest
SVID was minted less than a rotation period ago, within the life of the authority. Without "no
time passes" neither holds, which is the hazard at `workload.go:121`.

**Server.** `RunInv` and `TdInv` tie a process to its trust domains and these to their
workloads; `OrderInv` says that one process runs at a time. `StopInv` relates the two goroutines
of a workload, `Serve` and the one that stops it, to the listener; `SockInv` says whose the
files are, and `ReachInv` that an open listener has its file, for which no `NewWorkload` of its
trust domain may come after its `Listen` (`TdInv`). `StreamInv` and `DoneInv` give the
clean return: a stream keeps `GracefulStop` from returning, and nothing stops but for a reason
that reaches the context of `Run`.

**TestClock.** `AsleepInv` is the heart: the timer of a sleep is not due early and has not
fired early. `IdleInv` keeps the timers of sleeps one-shot and unused before. The step that
is not routine is `Advance`, which moves a ticker on by a multiple of its interval
(`NextTick`): the division leaves it later than now.

**Watch.** `PhaseInv` says which command can be where, `CauseInv` that only the user's interrupt
cancels and that go-spiffe gives up on that and on a refusal alone.

**X509Inspect.** `WalkInv` says that the chain so far starts at the leaf, that each certificate is followed
by the parent `buildParentMap` gave it, and that none is met twice; `ShownInv` what has become of it when it is shown,
or of the one of `Verify`'s. Of the forest, `DrawnInv` says that the trees that are done, and the one that
is being drawn, are closed upwards, `ChildrenInv` that the children of what is drawn are drawn or pending, `StackInv`
and `LinesInv` where a pending call will draw its line, and `RootsInv` which roots are left. When the stack and the
roots are empty a certificate that is not drawn hence has a parent that is not drawn either, and so on, which
in a finite file is a circle. The walks upwards, the circles and the chains of `Verify` are recursive functions; what is
proved of them goes by the set of the numbers for which it holds (`Induction`, `Recursion`), as no theorem
with an operator parameter can be used. The assumption that matters is `HonestKeyIds`: an identifier is derived from
its key. Without it the code does make links that are no signatures.

**CommandLine.** `Inv` knows of each open file whose it is (`OpenInv`), which job can be at which step
(`StepInv`), that no configuration has a socket where a command reads or writes (`FileInv`, for every document
that may be left in it, be it torn), and repeats the assumptions (`JobInv`). Along with it goes
`Frame`: a step of a process changes nothing of another, and of the files only those its job is there to
write. On these two rest six arguments.

* `ConfigKept`: a run that asks whether to write the default began before the user saved, since one that
  begins later finds the file (`EditInv`).
* `PairsMatch`: `GetInv` follows one get through its two writes. The key is in place and untouched while the
  certificate is written, and a file that is open holds what its writer has put there, so that what the last step
  of a write leaves (`WriteDone`) is its content; `Frame`
  keeps others out, as those that share a file with it had ended.
* `WholeServed`: `ServeInv` says whose document is in the file: one that somebody wrote, or else the part that a
  run has left which failed, was killed or still writes (`Cuts`). A step from there to serving serves what the
  file held (`StartsWhole`). That two default sockets differ (`OneSocketEach`) is a matter of `DefaultSocket`.
* `KeysAgreed`: the premise of the property, a bucket whose makers run alone and come to their end (`Orderly`), holds in
  every state before if it holds at the end, so the invariants are stated under it. `KeysInv` has each test hold the
  committed keys once it holds any, and the file have them unless it is being written; `SharedInv` says that what one
  test got comes first in the file, or, while that is written, in the memory of the one that writes it.
* `InspectionAgrees`: `SaidInv` ties the two verdicts to the file, which nobody writes.
* `RoundTrips`: `SourceInv` says that whoever has dialed has the one server there is, and a trust domain which a
  document gives their socket (by `ServeInv`: with one server, no other run has left a part). `MadeInv`
  says what a get has written by what source, `JudgeInv` that a verify holds what its get has written and has turned
  nothing down. Two clients of one trust domain have one source (`SameSource`), so the signer is found; the audience
  is, because `CreateParams` drops none.

The assumptions are about what is started, as the code compares no paths: in `ScenarioAssumption` a
configuration has one user, a path one use, and no document has a socket at a path that is used otherwise; in
`BeforeAssumption` the files there are before are documents someone wrote and keys that are committed; in
`PartAssumption` a cut-off default document names no sockets but its own; in `ClaimsAssumption` the name of a
trust domain is no missing claim. Without the first, `ConfigKept` is
false. Neither `ServesWhole` nor `KeysAgree` can do with fewer excuses: a part of a file may decode, and a process
that reads it then cannot know what is missing. `RoundTrip` is false of a get with
`--decode`, which writes nothing, of keys over plain HTTP, and of two sockets, or one that workloads of two
trust domains share, where the get may reach one of the two and `verify` the other (`OneDomain`).

Only model-checked is liveness (`EverythingReturns`, `HandlerLeaves`, `ShutdownCompletes`,
`RestartServes`, `BlockNotices`, `InterruptEnds`, `Recovers`, `CommandsReturn`), which
this prover cannot reach because of fairness: it holds for the bounds of the runs. Every
invariant, and every action property, that a run finds to hold is a theorem.

## Not modelled

Cryptography, encodings and text are data: the outputs of `inspect` but for the order and the
shape of chain and forest, colours, summaries, PEM, DER and PKCS#12. The components marked
`not_modelled` in `PROJECT.json` have no state that outlives a call. The clock of
`TrustDomain` has no leap or step backwards, and `CommandLine` has no clock: expiry is in the other
modules. gRPC, `errgroup`, `net`, `sync`, `os` and go-spiffe are modelled from how the code uses
them and marked external where a definition stands for them alone. The configuration is any
the type allows in `TrustDomain`; in `SVIDStream` the rotation period is positive. The identity
exchange token is passed on as it is; `--print-chains` and `--password` change no verdict that is
modelled.

Smaller abstractions, none of which a property depends on:

* `Server.NewWorkload` removes the socket file; `os.Remove` may fail, its error is ignored and the listen fails then.
* `SVIDStream.NewSVID` does not cut `NotAfter` to whole seconds: its clock has none smaller.
* `TestClock.AdvanceTo` is one step, although a channel can be read while timers fire: nothing tells when in between.
* `X509Inspect`: an unsupported output format and an error of the text converter, which end the command, and a
  warning about `--tree-fields` are left out. `ConvertOther` stands for all output but the chain and the tree.
* `Watch.Ticks` lets the ticker tick during the first fetch, before the code makes it: this allows more.
* `Startup.WriteDefault`: `MkdirAll` makes a directory and its failure ends `run` like that of the open; `file` has the
  paths whose directories exist or are made.
* `Commands.Refuses` has the checks of formats, root programs, audiences, URLs and sockets, but not of an empty file
  name, nor of a bundle path that is a directory.

`BlockNotices` is written as a leads-to, but what it comes to in `TestClock`, where each push broadcasts in its own
step, is that a driver is never on the waiters' list with the timers there that it waits for: no
wake-up is lost. The version with a push that does not broadcast shows the difference.

## Plan

In `Commands`, chains in PKCS#12 and their passwords.
