--------------------------- MODULE X509InspectMC ---------------------------
(* A small instance of X509Inspect for TLC: two roots R and S that certified *)
(* each other (X is R's key certified by S, Y is S's key certified by R), an *)
(* intermediate I under R, J the same key under S, K a CA of I's name with   *)
(* another key, and leaves under I.                                          *)
EXTENDS X509Inspect, TLC

Authority(subject, key, issuer, signer) ==
  [subject |-> subject, key |-> key, issuer |-> issuer, signer |-> signer,
   ski |-> key, aki |-> signer, isCA |-> TRUE, uris |-> <<>>, flaws |-> {}]

Leaf(subject, aki, uris, flaws) ==
  [subject |-> subject, key |-> subject, issuer |-> "I", signer |-> "kI",
   ski |-> subject, aki |-> aki, isCA |-> FALSE, uris |-> uris, flaws |-> flaws]

R == Authority("R", "kR", "R", "kR")
S == Authority("S", "kS", "S", "kS")
X == Authority("R", "kR", "S", "kS")
Y == Authority("S", "kS", "R", "kR")
I == Authority("I", "kI", "R", "kR")
J == Authority("I", "kI", "S", "kS")
K == Authority("I", "kK", "R", "kR")
L == Leaf("L", "kI", <<"spiffe">>, {})
M == Leaf("M", NoId, <<"spiffe">>, {"keyUsage"})
T == Leaf("T", "kI", <<"other">>, {})

Authorities == {R, S, X, Y, I, J, K}
Leaves == {L, M, T}
AllCerts == Authorities \cup Leaves

\* One certificate, or a leaf with an authority before or after it.
SomeFiles ==
  {<<>>} \cup {<<c>> : c \in AllCerts}
  \cup UNION {{<<l, c>>, <<c, l>>} : l \in Leaves, c \in Authorities}

\* Up to three certificates, M among them so that a bundle may hold a leaf.
SomeBundles ==
  {NoBundle} \cup {s \in UNION {[1..n -> Authorities \cup {M}] : n \in 0..3} : IsInjective(s)}

Flags(format, shortest, isSvid, fieldsKnown) ==
  [format |-> format, shortest |-> shortest, isSvid |-> isSvid, fieldsKnown |-> fieldsKnown]

SomeOptions ==
  {Flags("chain", FALSE, FALSE, TRUE), Flags("chain", TRUE, FALSE, TRUE),
   Flags("tree", FALSE, FALSE, TRUE), Flags("tree", TRUE, FALSE, FALSE),
   Flags("other", TRUE, FALSE, TRUE), Flags("chain", FALSE, TRUE, TRUE)}

=============================================================================
