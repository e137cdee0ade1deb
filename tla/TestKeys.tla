------------------------------ MODULE TestKeys ------------------------------
(***************************************************************************)
(* The bucket of test keys: every test process asks for its keys by index, *)
(* takes them from a file that is kept in the repository, and makes those  *)
(* that are missing and writes the file anew.  The mutexes of bucket and   *)
(* Keys make At atomic in a process but for the file; nothing keeps two    *)
(* processes (go test runs packages in parallel) from doing it at once.    *)
(***************************************************************************)
EXTENDS Files

Tests == {p \in Processes : job[p].cmd = "test"}
KeyFile(keys) == [kind |-> "keys", data |-> keys]

StartTest(p) ==
  /\ job[p].cmd = "test"
  /\ Begin(p, "at")
  /\ UNCHANGED file

\* bucket.load: the keys of the file unless they are loaded; none when there is no
\* file, but an error when there is no PEM block in it.
LoadKeys(p) ==
  LET c == Read(job[p].bucket) IN
  IF mem[p].keys # <<>> THEN mem[p].keys
  ELSE IF c.kind = "keys" THEN c.data
  ELSE IF c = Absent THEN <<>> ELSE None

\* Mutant: a new key is not kept with the others.
At_notKept(p) ==
  LET keys == LoadKeys(p)
      n == Len(mem[p].got) + 1
      Take(k, ks, l) == Goto(p, "at", l, [mem[p] EXCEPT !.got = Append(mem[p].got, k), !.keys = ks])
  IN /\ pc[p] = "at"
     /\ CASE keys # None /\ n <= Len(keys) ->
               Take(keys[n], keys, IF n < job[p].wants THEN "at" ELSE "ok")
          [] keys # None /\ ~(n <= Len(keys)) /\ ~job[p].ci ->
               Take(<<p, n>>, keys, "save keys")
          [] OTHER -> Goto(p, "at", "error", mem[p])
     /\ UNCHANGED file

\* Keys.EC256 and bucket.At: the next key, from the file or new.  Every error
\* panics, and so does a new key when CI is set.
At(p) ==
  LET keys == LoadKeys(p)
      n == Len(mem[p].got) + 1
      Take(k, ks, l) == Goto(p, "at", l, [mem[p] EXCEPT !.got = Append(mem[p].got, k), !.keys = ks])
  IN /\ pc[p] = "at"
     /\ CASE keys # None /\ n <= Len(keys) ->
               Take(keys[n], keys, IF n < job[p].wants THEN "at" ELSE "ok")
          [] keys # None /\ ~(n <= Len(keys)) /\ ~job[p].ci ->
               Take(<<p, n>>, Append(keys, <<p, n>>), "save keys")
          [] OTHER -> Goto(p, "at", "error", mem[p])
     /\ UNCHANGED file

\* bucket.save: all the keys this process knows.
SaveKeys(p) ==
  WriteFile(p, "save keys", job[p].bucket, KeyFile(mem[p].keys),
            IF Len(mem[p].got) < job[p].wants THEN "at" ELSE "ok")

TestNext(p) == At(p) \/ SaveKeys(p)

=============================================================================
