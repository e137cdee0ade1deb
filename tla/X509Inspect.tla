---------------------------- MODULE X509Inspect ----------------------------
(* `inspect x509`: the certificates of a file, and of a bundle file, read    *)
(* and shown as a list, as the chain of their leaf, as the shortest verified *)
(* chain of their leaf, or as a forest (internal/x509inspect).               *)
(*                                                                           *)
(* A certificate is the record of the fields the code compares; two equal    *)
(* records are one certificate, as two equal SHA-256 fingerprints are in the *)
(* code.  A key identifier is the key it is derived from.  One action is one *)
(* stage of Inspect or one turn of a loop; there is one process.             *)
EXTENDS Integers, Sequences, FiniteSets, SequencesExt

CONSTANTS
  Certs,     \* the certificates the files are made of
  Files,     \* contents --filename may have; <<>> stands for an unreadable
             \* file as well as for one without a CERTIFICATE block
  Bundles,   \* the same for --bundle
  Options,   \* the flags one invocation may carry
  NoBundle,  \* --bundle not given
  NoId,      \* an absent key identifier
  Nil        \* Go's nil

\* A key identifier, where there is one, is derived from the key it names.
ASSUME HonestKeyIds ==
  \A c \in Certs : c.ski \in {c.key, NoId} /\ c.aki \in {c.signer, NoId}
ASSUME FilesHoldCerts ==
  /\ Files \subseteq Seq(Certs) /\ Bundles \subseteq Seq(Certs) \cup {NoBundle}
  /\ Nil \notin Certs /\ Nil \notin {"ok", "error"} /\ NoBundle \notin Seq(Certs)
ASSUME OptionRecords ==
  Options \subseteq [format : {"chain", "tree", "other"}, shortest : BOOLEAN,
                     isSvid : BOOLEAN, fieldsKnown : BOOLEAN]

VARIABLES
  opt,      \* the inspector's flags
  file,     \* what --filename holds
  bundle,   \* what --bundle holds
  pc,       \* the stage of Inspect
  all,      \* the union of both files, in order
  cur,      \* buildChain: the certificate the walk has reached
  chain,    \* buildChain: the chain so far, leaf first; then what is shown
  roots,    \* the forest's roots not drawn yet
  stack,    \* the pending writeTreeNode calls of the root being drawn
  visited,  \* writeTreeNode: the certificates of this root drawn so far
  drawn,    \* the forest's lines: certificate and depth
  notes,    \* the diagnostics written to stderr
  result    \* "ok" or "error" once Inspect has returned

vars == <<opt, file, bundle, pc, all, cur, chain, roots, stack, visited, drawn,
          notes, result>>
inputs == <<opt, file, bundle>>
forest == <<roots, stack, visited, drawn>>

-----------------------------------------------------------------------------
(* Certificates.                                                             *)

\* Certificate.CheckSignatureFrom: the issuer is a CA and its key signed c.
CheckSignatureFrom(c, p) == p.isCA /\ c.signer = p.key

\* Mutant: the fallback compares names only.
IsParent_byName(c, p) ==
  /\ c.issuer = p.subject
  /\ c.aki # NoId /\ p.ski # NoId => c.aki = p.ski

\* p is the direct issuer of c: by key identifiers and names where c carries an
\* authority key identifier and p a subject key identifier, by name and
\* signature otherwise.
IsParent(c, p) ==
  /\ c.issuer = p.subject
  /\ IF c.aki # NoId /\ p.ski # NoId THEN c.aki = p.ski
                                     ELSE CheckSignatureFrom(c, p)

IsSelfSigned(c) == c.issuer = c.subject /\ CheckSignatureFrom(c, c)

HasSpiffeID(c) == \E i \in DOMAIN c.uris : c.uris[i] = "spiffe"

\* The rules checkIsSvid tests; c.flaws are those no other code looks at
\* (basic constraints, key usages, validity period).
IsSvidCert(c) == c.uris = <<"spiffe">> /\ ~c.isCA /\ c.flaws = {}

\* What s has at the positions in I, in order.
At(s, I) ==
  LET upTo[n \in 0..Len(s)] ==
        IF n = 0 THEN <<>>
        ELSE IF n \in I THEN Append(upTo[n - 1], s[n]) ELSE upTo[n - 1]
  IN upTo[Len(s)]

\* The first of them, or nil.
FirstAt(s, I) == IF I = {} THEN Nil ELSE s[Min(I)]

FirstPositions(s) == {i \in DOMAIN s : \A j \in 1..(i - 1) : s[j] # s[i]}

\* Mutant: the bundle comes first.
UnionCerts_bundleFirst(a, b) == At(b \o a, FirstPositions(b \o a))

\* a then b, the first of equal certificates kept.
UnionCerts(a, b) == At(a \o b, FirstPositions(a \o b))

\* Each certificate's parent: the first one of s that is an issuer of it.
BuildParentMap(s) ==
  [c \in ToSet(s) |-> FirstAt(s, {i \in DOMAIN s : s[i] # c /\ IsParent(c, s[i])})]

\* The leaf: the first SPIFFE certificate that is no CA; failing that, of those
\* no other claims as a parent, the first that is no CA or else the first.
IdentifyLeaf(s) ==
  LET others    == {i \in DOMAIN s : ~s[i].isCA}
      svids     == {i \in others : HasSpiffeID(s[i])}
      unclaimed == {i \in DOMAIN s : \A c \in ToSet(s) \ {s[i]} : ~IsParent(c, s[i])}
  IN FirstAt(s, IF svids # {} THEN svids
                ELSE IF unclaimed \cap others # {} THEN unclaimed \cap others
                ELSE unclaimed)

\* The certificates whose parent is p, in order.
Children(s, p) ==
  LET parents == BuildParentMap(s) IN At(s, {i \in DOMAIN s : parents[s[i]] = p})

-----------------------------------------------------------------------------
(* Certificate.Verify of the standard library, as shortestPath uses it: the   *)
(* chains from the leaf over intermediates to a root, no subject and key      *)
(* twice in a chain, every signature checked.  It searches depth first, roots *)
(* before intermediates, issuers named by key identifier before the others,   *)
(* and each of these in the order they were added to their pool.              *)

Roots(s) == {c \in ToSet(s) : IsSelfSigned(c)}
Intermediates(s, leaf) == ToSet(s) \ (Roots(s) \cup {leaf})

May(path, p) ==
  /\ Last(path).issuer = p.subject
  /\ CheckSignatureFrom(Last(path), p)
  /\ \A i \in DOMAIN path : path[i].subject # p.subject \/ path[i].key # p.key

\* The paths one longer, by a certificate of the pool.
Extended(paths, pool) ==
  UNION {{Append(path, p) : p \in {q \in pool : May(path, q)}} : path \in paths}

VerifiedChains(s, leaf) ==
  LET partial[n \in 0..Len(s)] ==
        IF n = 0 THEN {<<leaf>>} ELSE Extended(partial[n - 1], Intermediates(s, leaf))
  IN IF leaf \in Roots(s) THEN {<<leaf>>}
     ELSE UNION {Extended(partial[n], Roots(s)) : n \in 0..Len(s)}

\* Whether the search meets chain p before chain q.
FoundBefore(s, p, q) ==
  LET place(c) == CHOOSE i \in DOMAIN s : s[i] = c
      rank(path, i) == (IF path[i] \in Roots(s) THEN 0 ELSE 2 * Len(s) + 2)
                       + (IF path[i - 1].aki = path[i].ski THEN 0 ELSE Len(s) + 1)
                       + place(path[i])
  IN \E i \in 2..Len(p) : /\ i <= Len(q)
                          /\ SubSeq(p, 1, i - 1) = SubSeq(q, 1, i - 1)
                          /\ rank(p, i) < rank(q, i)

\* The one it returns first: these are what is left when each chain that another
\* comes before is taken away.
Verify(s, leaf) ==
  LET chains == VerifiedChains(s, leaf)
  IN {p \in chains : \A q \in chains \ {p} : FoundBefore(s, p, q)}

-----------------------------------------------------------------------------
Init ==
  /\ opt \in Options /\ file \in Files /\ bundle \in Bundles
  /\ pc = "load" /\ result = Nil /\ notes = {}
  /\ all = <<>> /\ cur = Nil /\ chain = <<>>
  /\ roots = <<>> /\ stack = <<>> /\ visited = {} /\ drawn = <<>>

Return(outcome) == pc' = "done" /\ result' = outcome

UsesBundle == opt.format \in {"chain", "tree"}

\* --filename is read first; nothing to read ends it.
LoadFails ==
  /\ pc = "load" /\ file = <<>>
  /\ Return("error")
  /\ UNCHANGED <<inputs, all, cur, chain, forest, notes>>

\* --isSvid looks at the first certificate of the file and shows nothing.
JudgeSvid ==
  /\ pc = "load" /\ file # <<>> /\ opt.isSvid
  /\ Return(IF IsSvidCert(file[1]) THEN "ok" ELSE "error")
  /\ UNCHANGED <<inputs, all, cur, chain, forest, notes>>

\* Mutant: the error is noted and Inspect goes on.
LoadBundle_goesOn ==
  /\ pc = "load" /\ file # <<>> /\ ~opt.isSvid
  /\ pc' = "convert"
  /\ result' = IF UsesBundle /\ bundle = <<>> THEN "error" ELSE Nil
  /\ UNCHANGED <<inputs, all, cur, chain, forest, notes>>

\* The warnings about flags the format ignores; the bundle is read only for the
\* formats that use it, and a bundle that cannot be read ends it.
LoadBundle ==
  /\ pc = "load" /\ file # <<>> /\ ~opt.isSvid
  /\ notes' = notes \cup {n \in {"bundle ignored", "shortest ignored"} :
       \/ n = "bundle ignored" /\ bundle # NoBundle /\ ~UsesBundle
       \/ n = "shortest ignored" /\ opt.shortest /\ opt.format # "chain"}
  /\ IF UsesBundle /\ bundle = <<>>
     THEN Return("error")
     ELSE pc' = "convert" /\ UNCHANGED result
  /\ UNCHANGED <<inputs, all, cur, chain, forest>>

Union == UnionCerts(file, IF bundle = NoBundle THEN <<>> ELSE bundle)

\* json, yaml and summary show the file's certificates as they stand.
ConvertOther ==
  /\ pc = "convert" /\ opt.format = "other"
  /\ chain' = file
  /\ Return("ok")
  /\ UNCHANGED <<inputs, all, cur, forest, notes>>

ConvertCertsToChain ==
  /\ pc = "convert" /\ opt.format = "chain"
  /\ all' = Union
  /\ cur' = IdentifyLeaf(Union)
  /\ IF cur' = Nil THEN Return("error")
     ELSE pc' = (IF opt.shortest THEN "shortest" ELSE "walk") /\ UNCHANGED result
  /\ UNCHANGED <<inputs, chain, forest, notes>>

\* Mutant: the walk does not look whether it has been here.
Walk_unguarded ==
  /\ pc = "walk"
  /\ LET parent == BuildParentMap(all)[cur] IN
     IF parent = Nil
     THEN chain' = Reverse(Append(chain, cur)) /\ Return("ok") /\ UNCHANGED cur
     ELSE chain' = Append(chain, cur) /\ cur' = parent /\ UNCHANGED <<pc, result>>
  /\ UNCHANGED <<inputs, all, forest, notes>>

\* buildChain: one turn of the walk from the leaf to its parents.  It ends at a
\* certificate without a parent and at one it has met before; the chain is then
\* turned round and shown.
Walk ==
  /\ pc = "walk"
  /\ IF cur \in ToSet(chain)
     THEN chain' = Reverse(chain) /\ Return("ok") /\ UNCHANGED cur
     ELSE LET parent == BuildParentMap(all)[cur] IN
          IF parent = Nil
          THEN chain' = Reverse(Append(chain, cur)) /\ Return("ok") /\ UNCHANGED cur
          ELSE chain' = Append(chain, cur) /\ cur' = parent /\ UNCHANGED <<pc, result>>
  /\ UNCHANGED <<inputs, all, forest, notes>>

\* shortestPath: the first of the chains Verify returns.
ShortestPath ==
  /\ pc = "shortest"
  /\ LET chains == VerifiedChains(all, cur) IN
     IF Roots(all) = {} \/ chains = {}
     THEN Return("error") /\ UNCHANGED <<chain, notes>>
     ELSE \E first \in Verify(all, cur) :
            /\ chain' = Reverse(first)
            /\ notes' = notes \cup {n \in {"alternate path"} :
                          \E other \in chains \ {first} : Len(other) = Len(first)}
            /\ Return("ok")
  /\ UNCHANGED <<inputs, all, cur, forest>>

\* The forest: its roots are the certificates without a parent, or the first
\* certificate if every one has a parent.  Unknown --tree-fields end it first.
ConvertCertsToTree ==
  /\ pc = "convert" /\ opt.format = "tree"
  /\ IF ~opt.fieldsKnown
     THEN Return("error") /\ UNCHANGED <<all, roots, notes>>
     ELSE LET orphans == Children(Union, Nil) IN
          /\ all' = Union
          /\ roots' = IF orphans = <<>> THEN <<Union[1]>> ELSE orphans
          /\ notes' = notes \cup {n \in {"no root found"} : orphans = <<>>}
          /\ pc' = "tree" /\ UNCHANGED result
  /\ UNCHANGED <<inputs, cur, chain, stack, visited, drawn>>

\* Mutant: one tree for the first root.
NextRoot_first ==
  /\ pc = "tree" /\ stack = <<>> /\ roots # <<>>
  /\ stack' = << <<Head(roots), 0>> >>
  /\ roots' = <<>>
  /\ visited' = {}
  /\ UNCHANGED <<inputs, pc, all, cur, chain, drawn, notes, result>>

\* The next root: writeTreeNode starts on it with nothing visited.
NextRoot ==
  /\ pc = "tree" /\ stack = <<>> /\ roots # <<>>
  /\ stack' = << <<Head(roots), 0>> >>
  /\ roots' = Tail(roots)
  /\ visited' = {}
  /\ UNCHANGED <<inputs, pc, all, cur, chain, drawn, notes, result>>

\* Mutant: the node does not look whether it has been drawn.
WriteTreeNode_unguarded ==
  /\ pc = "tree" /\ stack # <<>>
  /\ LET below == Children(all, Head(stack)[1]) IN
       stack' = [i \in DOMAIN below |-> <<below[i], Head(stack)[2] + 1>>] \o Tail(stack)
  /\ drawn' = Append(drawn, Head(stack))
  /\ visited' = visited \cup {Head(stack)[1]}
  /\ UNCHANGED <<inputs, pc, all, cur, chain, roots, notes, result>>

\* writeTreeNode: a certificate already drawn under this root is noted and left;
\* any other gets its line, and its children come next, one level deeper.
WriteTreeNode ==
  /\ pc = "tree" /\ stack # <<>>
  /\ LET c     == Head(stack)[1]
         depth == Head(stack)[2]
         below == Children(all, c)
     IN IF c \in visited
        THEN /\ notes' = notes \cup {"cycle"}
             /\ stack' = Tail(stack)
             /\ UNCHANGED <<visited, drawn>>
        ELSE /\ visited' = visited \cup {c}
             /\ drawn' = Append(drawn, <<c, depth>>)
             /\ stack' = [i \in DOMAIN below |-> <<below[i], depth + 1>>] \o Tail(stack)
             /\ UNCHANGED notes
  /\ UNCHANGED <<inputs, pc, all, cur, chain, roots, result>>

TreeReturns ==
  /\ pc = "tree" /\ stack = <<>> /\ roots = <<>>
  /\ Return("ok")
  /\ UNCHANGED <<inputs, all, cur, chain, forest, notes>>

Next ==
  \/ LoadFails \/ JudgeSvid \/ LoadBundle
  \/ ConvertOther \/ ConvertCertsToChain \/ Walk \/ ShortestPath
  \/ ConvertCertsToTree \/ NextRoot \/ WriteTreeNode \/ TreeReturns

Spec == Init /\ [][Next]_vars

-----------------------------------------------------------------------------
(* Properties.                                                               *)

TypeOK ==
  /\ opt \in Options /\ file \in Files /\ bundle \in Bundles
  /\ pc \in {"load", "convert", "walk", "shortest", "tree", "done"}
  /\ all \in Seq(Certs) /\ cur \in Certs \cup {Nil} /\ chain \in Seq(Certs)
  /\ roots \in Seq(Certs) /\ stack \in Seq(Certs \X Nat)
  /\ visited \subseteq Certs /\ drawn \in Seq(Certs \X Nat)
  /\ notes \subseteq {"bundle ignored", "shortest ignored", "alternate path",
                      "no root found", "cycle"}
  /\ result \in {Nil, "ok", "error"} /\ (result # Nil <=> pc = "done")

Shown(format) == pc = "done" /\ result = "ok" /\ ~opt.isSvid /\ opt.format = format

\* p really issued c: the name matches and p's key made the signature.
Issued(p, c) == c.issuer = p.subject /\ c.signer = p.key

\* Each line of a chain issued the next one, although most links are made by
\* comparing identifiers only and CAs of one name may hold different keys.
ChainLinksIssued ==
  Shown("chain") => \A i \in 1..(Len(chain) - 1) : Issued(chain[i], chain[i + 1])

\* However the files are ordered, and with certificates that issued each other,
\* the walk ends: no line repeats, and it stops short of an issuer only where
\* that issuer is shown already.
ChainGoesToTheTop ==
  /\ pc = "walk" \/ Shown("chain") => IsInjective(chain)
  /\ Shown("chain") /\ ~opt.shortest =>
       \/ \A p \in ToSet(all) \ {chain[1]} : ~IsParent(chain[1], p)
       \/ \E i \in DOMAIN chain : i # 1 /\ IsParent(chain[1], chain[i])

\* A file --isSvid accepts has its first certificate on the last line of its
\* chain, whatever the bundle adds.
SvidIsTheLeaf ==
  Shown("chain") /\ IsSvidCert(file[1]) => Last(chain) = file[1]

\* "Filter chain output to the shortest valid path from leaf to a root."
PathIsShortest ==
  Shown("chain") /\ opt.shortest =>
    \A path \in VerifiedChains(all, Last(chain)) : Len(chain) <= Len(path)

Drawn == {drawn[i][1] : i \in DOMAIN drawn}

\* Also among certificates that issued each other, none has two lines in the
\* forest, and the line above one and a level out is one that issued it.
DrawnOnceUnderIssuer ==
  \A i \in DOMAIN drawn :
    /\ \A j \in DOMAIN drawn : drawn[i][1] = drawn[j][1] => i = j
    /\ drawn[i][2] > 0 =>
         \E j \in 1..(i - 1) :
           /\ drawn[j][2] = drawn[i][2] - 1
           /\ \A k \in (j + 1)..(i - 1) : drawn[k][2] >= drawn[i][2]
           /\ Issued(drawn[j][1], drawn[i][1])

\* Following parents upwards from c for as many steps as there are certificates
\* never ends: c is in, or hangs off, a circle of parents.
InCircle(c) ==
  LET up[n \in 0..Len(all)] == IF n = 0 THEN c
                       ELSE IF up[n - 1] = Nil THEN Nil
                       ELSE BuildParentMap(all)[up[n - 1]]
  IN up[Len(all)] # Nil

\* A certificate the forest leaves out is one a circle of parents cuts off: with
\* parents that go up to a root it is drawn, whatever the order of the files.
HiddenOnlyByCircles ==
  Shown("tree") => \A c \in ToSet(all) \ Drawn : InCircle(c)

\* The code picks the first certificate when every one has a parent "so
\* writeTreeNode is entered and the visited-set cycle guard can fire": after
\* "no root found" the circle is found and noted.
CircleIsFound ==
  Shown("tree") /\ "no root found" \in notes => "cycle" \in notes

=============================================================================
