------------------------------- MODULE Files -------------------------------
(***************************************************************************)
(* Processes that share files.  The commands of spiffecli, and test        *)
(* binaries with a bucket of keys, read and write whole files with         *)
(* os.ReadFile and os.WriteFile: a write truncates the file, then fills it *)
(* part by part, for all to see, and fails or is cut short with its process*)
(* before, between or after.                                               *)
(* Each process does one job; the modules that extend this one say what.   *)
(***************************************************************************)
EXTENDS Integers, Sequences, FiniteSets

CONSTANTS
  Processes,
  None,
  Prefixes(_)   \* what there is to be read of a content that is written in part

VARIABLES
  job,     \* [Processes -> what the process was started to do]; never changes
  pc,      \* [Processes -> the step it is at, or how it ended]
  mem,     \* [Processes -> what it holds in memory]
  file,    \* [paths in directories that exist, or that Run makes -> content]
  before   \* history: [Processes -> those that had ended when it began]

vars == <<job, pc, mem, file, before>>

\* A file that is not there, and one that is empty or otherwise no such thing.
Absent == [kind |-> "absent"]
Torn == [kind |-> "torn"]

Read(f) == IF f \in DOMAIN file THEN file[f] ELSE Absent

\* How a process ends: a command that fails says why.
Outcomes == {"ok", "refused", "timeout", "error", "unreadable", "rejected", "dead"}

Began(p) == pc[p] # "new"
Ended(p) == pc[p] \in Outcomes
Live(p) == Began(p) /\ ~Ended(p)

\* Two processes were alive at the same time.
Met(p, q) == p # q /\ Began(p) /\ Began(q) /\ p \notin before[q] /\ q \notin before[p]

\* open: None, or what has been put into the file that is open, Torn for nothing yet.
Fresh == [open |-> None, source |-> None, got |-> <<>>, config |-> None, keys |-> <<>>]

Begin(p, l) ==
  /\ pc[p] = "new"
  /\ pc' = [pc EXCEPT ![p] = l]
  /\ before' = [before EXCEPT ![p] = {q \in Processes : Ended(q)}]
  /\ UNCHANGED <<job, mem>>

\* p goes from the step l to the step k, with m in memory.
Goto(p, l, k, m) ==
  /\ pc[p] = l
  /\ pc' = [pc EXCEPT ![p] = k]
  /\ mem' = [mem EXCEPT ![p] = m]
  /\ UNCHANGED <<job, before>>

\* Keys take the place of those there are, after those that are written already; they
\* have about one length.  Where there are none, a hole is left that nobody reads.
KeysOf(c) == IF c.kind = "keys" THEN c.data ELSE <<>>
Spliced(c, n, old) ==
  [c EXCEPT !.data = SubSeq(old, 1, IF n < Len(old) THEN n ELSE Len(old))
                     \o SubSeq(@, n + 1, Len(@)) \o SubSeq(old, Len(@) + 1, Len(old))]

\* What a file may hold when a write of c ends.  A part is written, and the file holds
\* old by now: another writer may have truncated it since, and put something there.
Filled(c, part, old) ==
  IF old \in {part, c} \/ (part = Torn /\ old \in Prefixes(c)) THEN {c}
  ELSE IF c.kind = "keys" THEN {Spliced(c, Len(KeysOf(part)), KeysOf(old))}
  ELSE IF old = Torn THEN {Torn}
  ELSE {c, IF old \in Prefixes(c) THEN old ELSE Torn}

\* Mutant: a file that could not be written is not closed.
WriteFile_leaksOpen(p, l, f, c, k) ==
  /\ pc[p] = l
  /\ IF mem[p].open = None
     THEN /\ f \in DOMAIN file
          /\ Goto(p, l, l, [mem[p] EXCEPT !.open = Torn])
          /\ file' = [file EXCEPT ![f] = Torn]
     ELSE \/ /\ Goto(p, l, k, [mem[p] EXCEPT !.open = None])
             /\ file' = [file EXCEPT ![f] = c]
          \/ /\ Goto(p, l, "error", mem[p])
             /\ UNCHANGED file

\* os.WriteFile(f, c) at the step l, before the step k: the file is opened, which may
\* fail and truncates it, and filled by calls of write(2), of which any may fail; so
\* may Close, when everything is there.  All but the last call put one part there.
WriteFile(p, l, f, c, k) ==
  LET open == mem[p].open IN
  /\ pc[p] = l
  /\ IF open = None
     THEN \/ /\ f \in DOMAIN file
             /\ Goto(p, l, l, [mem[p] EXCEPT !.open = Torn])
             /\ file' = [file EXCEPT ![f] = Torn]
          \/ Goto(p, l, "error", mem[p]) /\ UNCHANGED file
     ELSE \/ /\ open = Torn /\ file[f] = Torn
             /\ \E d \in Prefixes(c) :
                  /\ Goto(p, l, l, [mem[p] EXCEPT !.open = d])
                  /\ file' = [file EXCEPT ![f] = d]
          \/ /\ \E i \in {k, "error"} : Goto(p, l, i, [mem[p] EXCEPT !.open = None])
             /\ \E d \in Filled(c, open, file[f]) : file' = [file EXCEPT ![f] = d]
          \/ /\ Goto(p, l, "error", [mem[p] EXCEPT !.open = None])
             /\ UNCHANGED file

\* A process may be killed at any moment: between two calls of write(2), what is
\* there stays.
Kill(p) ==
  /\ Live(p)
  /\ pc' = [pc EXCEPT ![p] = "dead"]
  /\ mem' = [mem EXCEPT ![p] = Fresh]
  /\ UNCHANGED <<job, before, file>>

=============================================================================
