------------------------ MODULE X509Inspect_proofs ------------------------
(* Proofs about X509Inspect.                                                  *)
EXTENDS X509Inspect, WellFoundedInduction, TLAPS

-----------------------------------------------------------------------------
(* Induction, over sets of numbers.                                          *)

\* A non-empty set of natural numbers has a least member.
LEMMA Least ==
  ASSUME NEW T, T \subseteq Nat, T # {}
  PROVE  \E x \in T : \A y \in T : x <= y
<1>1. IsWellFoundedOn(OpToRel(<, Nat), Nat)
  BY NatLessThanWellFounded
<1>2. PICK x \in T : \A y \in T : ~ (<<y, x>> \in OpToRel(<, Nat))
  BY <1>1, WFMin
<1>3. \A y \in T : ~(y < x)
  BY <1>2 DEF OpToRel
<1> QED
  BY <1>3

\* A set that holds m and, up to n, the successor of each of its members holds
\* every number from m to n.
LEMMA Induction ==
  ASSUME NEW m \in Nat, NEW n \in Nat, NEW T, m \in T,
         \A k \in m..(n - 1) : k \in T => k + 1 \in T
  PROVE  m..n \subseteq T
<1> SUFFICES ASSUME (m..n) \ T # {} PROVE FALSE
  OBVIOUS
<1> DEFINE U == (m..n) \ T
<1>1. PICK k \in U : \A j \in U : k <= j
  <2>1. U \subseteq Nat /\ U # {}
    OBVIOUS
  <2> HIDE DEF U
  <2> QED
    BY <2>1, Least
<1>2. k # m /\ k - 1 \in m..(n - 1) /\ k - 1 \in T
  BY <1>1
<1> QED
  BY <1>1, <1>2

\* h is x at 0, and at each later place what F makes of h at the one before.
Follows(h, N, X, x, F) ==
  h \in [0..N -> X] /\ h[0] = x /\ \A n \in 1..N : h[n] = F[n][h[n - 1]]

\* There is such an h.
LEMMA Recursion ==
  ASSUME NEW N \in Nat, NEW X, NEW x \in X, NEW F \in [1..N -> [X -> X]]
  PROVE  \E h : Follows(h, N, X, x, F)
<1> DEFINE T == {n \in 0..N : \E h : Follows(h, n, X, x, F)}
<1>1. 0 \in T
  <2>1. Follows([k \in 0..0 |-> x], 0, X, x, F)
    BY DEF Follows
  <2> QED
    BY <2>1
<1>2. ASSUME NEW k \in 0..(N - 1), k \in T PROVE k + 1 \in T
  <2>1. PICK h : Follows(h, k, X, x, F)
    BY <1>2
  <2> DEFINE g == [j \in 0..(k + 1) |-> IF j <= k THEN h[j] ELSE F[k + 1][h[k]]]
  <2>2. g \in [0..(k + 1) -> X]
    BY <2>1, F[k + 1] \in [X -> X], h[k] \in X DEF Follows
  <2>3. g[0] = x
    BY <2>1 DEF Follows
  <2>4. \A j \in 1..(k + 1) : g[j] = F[j][g[j - 1]]
    BY <2>1 DEF Follows
  <2>5. Follows(g, k + 1, X, x, F)
    <3> HIDE DEF g
    <3> QED
      BY <2>2, <2>3, <2>4 DEF Follows
  <2>6. k + 1 \in 0..N
    BY <1>2
  <2> HIDE DEF g
  <2> QED
    BY <2>5, <2>6
<1>3. N \in T
  <2> HIDE DEF T
  <2>1. 0..N \subseteq T
    BY <1>1, <1>2, Induction
  <2> QED
    BY <2>1
<1> QED
  BY <1>3

-----------------------------------------------------------------------------
(* The operators on sequences.                                               *)

\* up has, for each n, what At takes of the first n places of s.
Takes(up, S, s, I) ==
  /\ up \in [0..Len(s) -> Seq(S)]
  /\ up[0] = <<>>
  /\ \A n \in 1..Len(s) : up[n] = IF n \in I THEN Append(up[n - 1], s[n]) ELSE up[n - 1]

\* The function At is computed by satisfies its equation.
LEMMA AtRecursion ==
  ASSUME NEW S, NEW s \in Seq(S), NEW I
  PROVE  \E up : Takes(up, S, s, I) /\ At(s, I) = up[Len(s)]
<1> DEFINE N == Len(s)
           upTo[n \in 0..N] ==
             IF n = 0 THEN <<>>
             ELSE IF n \in I THEN Append(upTo[n - 1], s[n]) ELSE upTo[n - 1]
           Eq(h) == h = [n \in 0..N |->
                      IF n = 0 THEN <<>>
                      ELSE IF n \in I THEN Append(h[n - 1], s[n]) ELSE h[n - 1]]
           F == [n \in 1..N |-> [q \in Seq(S) |-> IF n \in I THEN Append(q, s[n]) ELSE q]]
<1>1. N \in Nat /\ <<>> \in Seq(S)
  OBVIOUS
<1>2. F \in [1..N -> [Seq(S) -> Seq(S)]]
  OBVIOUS
<1>3. PICK h : Follows(h, N, Seq(S), <<>>, F)
  <2> HIDE DEF F, N
  <2> QED
    BY <1>1, <1>2, Recursion
<1>4. Eq(h)
  <2>1. ASSUME NEW n \in 1..N
        PROVE  h[n] = IF n \in I THEN Append(h[n - 1], s[n]) ELSE h[n - 1]
    <3>1. h[n] = F[n][h[n - 1]] /\ h[n - 1] \in Seq(S)
      <4> HIDE DEF F
      <4> QED
        BY <1>3 DEF Follows
    <3>2. F[n] = [q \in Seq(S) |-> IF n \in I THEN Append(q, s[n]) ELSE q]
      OBVIOUS
    <3> HIDE DEF F
    <3> QED
      BY <3>1, <3>2
  <2>2. \A n \in 0..N : h[n] = IF n = 0 THEN <<>>
                             ELSE IF n \in I THEN Append(h[n - 1], s[n]) ELSE h[n - 1]
    <3>1. h[0] = <<>>
      BY <1>3 DEF Follows
    <3>2. \A n \in 0..N : n # 0 => n \in 1..N
      OBVIOUS
    <3> QED
      BY <2>1, <3>1, <3>2, Zenon
  <2>3. h = [n \in 0..N |-> h[n]]
    BY <1>3 DEF Follows
  <2> QED
    BY <2>2, <2>3
<1>5. Eq(upTo)
  <2>1. upTo = CHOOSE g : Eq(g)
    OBVIOUS
  <2> QED
    BY <1>4, <2>1, Zenon
<1>6. At(s, I) = upTo[N]
  BY DEF At
<1>7. upTo \in [0..N -> Seq(S)]
  <2> DEFINE T == {n \in 0..N : upTo[n] \in Seq(S)}
  <2> HIDE DEF upTo
  <2>0. \A n \in 0..N : upTo[n] = IF n = 0 THEN <<>>
                       ELSE IF n \in I THEN Append(upTo[n - 1], s[n]) ELSE upTo[n - 1]
    BY <1>5
  <2>1. 0 \in T
    <3>1. 0 \in 0..N /\ upTo[0] = <<>>
      BY <2>0
    <3> QED
      BY <1>1, <3>1
  <2>2. ASSUME NEW n \in 0..(N - 1), n \in T PROVE n + 1 \in T
    <3>1. n + 1 \in 1..N /\ (n + 1) - 1 = n /\ s[n + 1] \in S /\ upTo[n] \in Seq(S)
      BY <2>2
    <3>2. upTo[n + 1] = IF n + 1 \in I THEN Append(upTo[n], s[n + 1]) ELSE upTo[n]
      BY <2>0, <3>1
    <3>3. upTo[n + 1] \in Seq(S)
      BY <3>1, <3>2
    <3> QED
      BY <3>1, <3>3
  <2>3. 0..N \subseteq T
    <3> HIDE DEF T
    <3> QED
      BY <1>1, <2>1, <2>2, Induction
  <2>4. upTo = [n \in 0..N |-> upTo[n]]
    BY <1>5
  <2> QED
    BY <2>3, <2>4
<1>8. Takes(upTo, S, s, I)
  <2> HIDE DEF upTo
  <2>1. \A n \in 0..N : upTo[n] = IF n = 0 THEN <<>>
                       ELSE IF n \in I THEN Append(upTo[n - 1], s[n]) ELSE upTo[n - 1]
    BY <1>5
  <2>2. upTo[0] = <<>>
    BY <1>1, <2>1
  <2>3. \A n \in 1..N : n \in 0..N /\ n # 0
    BY <1>1
  <2>4. \A n \in 1..N : upTo[n] = IF n \in I THEN Append(upTo[n - 1], s[n]) ELSE upTo[n - 1]
    BY <2>1, <2>3, Zenon
  <2> QED
    BY <1>7, <2>2, <2>4 DEF Takes
<1> QED
  <2> HIDE DEF upTo
  <2> QED
    BY <1>6, <1>8

\* What a sequence is.
LEMMA SeqFacts ==
  ASSUME NEW S, NEW s \in Seq(S)
  PROVE  /\ Len(s) \in Nat /\ DOMAIN s = 1..Len(s)
         /\ \A i \in 1..Len(s) : s[i] \in S /\ s[i] \in ToSet(s)
         /\ ToSet(s) = {s[i] : i \in 1..Len(s)} /\ ToSet(s) \subseteq S
         /\ s # <<>> => Len(s) >= 1 /\ 1 \in 1..Len(s) /\ Len(s) \in 1..Len(s)
<1>1. Len(s) \in Nat /\ DOMAIN s = 1..Len(s) /\ \A i \in 1..Len(s) : s[i] \in S
  OBVIOUS
<1>2. ToSet(s) = {s[i] : i \in 1..Len(s)}
  BY <1>1 DEF ToSet
<1>3. s # <<>> => Len(s) >= 1
  OBVIOUS
<1> QED
  BY <1>1, <1>2, <1>3

\* A sequence with one more at its end.
LEMMA AppendFacts ==
  ASSUME NEW S, NEW s \in Seq(S), NEW e \in S
  PROVE  /\ Append(s, e) \in Seq(S) /\ Append(s, e) # <<>>
         /\ Len(Append(s, e)) = Len(s) + 1 /\ DOMAIN Append(s, e) = 1..(Len(s) + 1)
         /\ Append(s, e)[Len(s) + 1] = e
         /\ \A i \in 1..Len(s) : Append(s, e)[i] = s[i]
         /\ \A i \in 1..(Len(s) + 1) : i \in 1..Len(s) \/ i = Len(s) + 1
OBVIOUS

\* Two sequences put together.
LEMMA ConcatFacts ==
  ASSUME NEW S, NEW s \in Seq(S), NEW t \in Seq(S)
  PROVE  /\ s \o t \in Seq(S) /\ Len(s \o t) = Len(s) + Len(t)
         /\ DOMAIN (s \o t) = 1..(Len(s) + Len(t))
         /\ \A i \in 1..Len(s) : (s \o t)[i] = s[i]
         /\ \A k \in 1..Len(t) : (s \o t)[Len(s) + k] = t[k]
OBVIOUS

\* A sequence and what follows its first.
LEMMA TailFacts ==
  ASSUME NEW S, NEW s \in Seq(S), s # <<>>
  PROVE  /\ Head(s) = s[1] /\ Tail(s) \in Seq(S) /\ DOMAIN Tail(s) = 1..(Len(s) - 1)
         /\ Len(Tail(s)) = Len(s) - 1
         /\ \A i \in 1..(Len(s) - 1) : i + 1 \in 2..Len(s) /\ Tail(s)[i] = s[i + 1]
         /\ ToSet(s) = {Head(s)} \cup ToSet(Tail(s))
         /\ IsInjective(s) => IsInjective(Tail(s)) /\ Head(s) \notin ToSet(Tail(s))
<1> DEFINE n == Len(s)
           t == Tail(s)
<1>1. /\ n \in Nat /\ n >= 1 /\ DOMAIN s = 1..n /\ Head(s) = s[1]
      /\ t \in Seq(S) /\ Len(t) = n - 1 /\ DOMAIN t = 1..(n - 1)
      /\ \A i \in 1..(n - 1) : t[i] = s[i + 1]
  OBVIOUS
<1> HIDE DEF n, t
<1>2. \A i \in 1..(n - 1) : i + 1 \in 2..n /\ i + 1 \in 1..n
  BY <1>1
<1>3. \A i \in 1..n : i = 1 \/ (i - 1 \in 1..(n - 1) /\ (i - 1) + 1 = i)
  BY <1>1
<1>4. ToSet(t) = {t[i] : i \in 1..(n - 1)} /\ ToSet(s) = {s[i] : i \in 1..n}
  BY <1>1 DEF ToSet
<1>5. ToSet(s) = {s[1]} \cup ToSet(t)
  <2>1. ASSUME NEW i \in 1..n PROVE s[i] \in {s[1]} \cup ToSet(t)
    <3>1. i # 1 => s[i] = t[i - 1]
      BY <1>1, <1>3
    <3> QED
      BY <1>3, <1>4, <3>1
  <2>2. ASSUME NEW i \in 1..(n - 1) PROVE t[i] \in ToSet(s)
    BY <1>1, <1>2, <1>4
  <2>3. s[1] \in ToSet(s)
    BY <1>1, <1>4
  <2> QED
    BY <1>4, <2>1, <2>2, <2>3
<1>6. ASSUME IsInjective(s) PROVE IsInjective(t) /\ s[1] \notin ToSet(t)
  <2>1. ASSUME NEW i \in 1..(n - 1), NEW j \in 1..(n - 1), t[i] = t[j] PROVE i = j
    <3>1. i + 1 \in 1..n /\ j + 1 \in 1..n /\ s[i + 1] = s[j + 1]
      BY <1>1, <1>2, <2>1
    <3>2. i + 1 = j + 1
      BY <1>1, <1>6, <3>1 DEF IsInjective
    <3> QED
      BY <3>2
  <2>2. ASSUME NEW i \in 1..(n - 1) PROVE t[i] # s[1]
    <3>1. i + 1 # 1 /\ 1 \in 1..n
      BY <1>1
    <3> QED
      BY <1>1, <1>2, <1>6, <3>1 DEF IsInjective
  <2> QED
    BY <1>1, <1>4, <2>1, <2>2 DEF IsInjective
<1> QED
  BY <1>1, <1>2, <1>5, <1>6 DEF n, t

\* f gives, for each place of q, the place in J of s it was taken from: in order,
\* none twice, none left out.
Places(f, q, s, J) ==
  /\ f \in [1..Len(q) -> J]
  /\ \A j \in 1..Len(q) : q[j] = s[f[j]]
  /\ \A j, k \in 1..Len(q) : j < k => f[j] < f[k]
  /\ \A i \in J : \E j \in 1..Len(q) : f[j] = i

\* At takes what it takes in order.
LEMMA AtPlaces ==
  ASSUME NEW S, NEW s \in Seq(S), NEW I
  PROVE  At(s, I) \in Seq(S) /\ \E f : Places(f, At(s, I), s, I \cap (1..Len(s)))
<1> DEFINE N == Len(s)
<1>1. N \in Nat
  OBVIOUS
<1>2. PICK up : Takes(up, S, s, I) /\ At(s, I) = up[N]
  BY AtRecursion
<1> DEFINE T == {n \in 0..N : \E f : Places(f, up[n], s, I \cap (1..n))}
<1>4. 0 \in T
  <2>1. up[0] = <<>> /\ 0 \in 0..N /\ I \cap (1..0) = {} /\ 1..Len(<<>>) = {}
    BY <1>1, <1>2 DEF Takes
  <2>2. Places([j \in {} |-> 0], <<>>, s, {})
    BY <2>1 DEF Places
  <2> QED
    BY <2>1, <2>2
<1>5. ASSUME NEW n \in 0..(N - 1), n \in T PROVE n + 1 \in T
  <2>1. PICK f : Places(f, up[n], s, I \cap (1..n))
    BY <1>5
  <2>2. /\ n + 1 \in 0..N /\ n + 1 # 0 /\ (n + 1) - 1 = n /\ n \in 0..N
        /\ up[n] \in Seq(S) /\ s[n + 1] \in S
    <3>1. /\ n + 1 \in 0..N /\ n + 1 # 0 /\ (n + 1) - 1 = n /\ n \in 0..N
          /\ n + 1 \in 1..Len(s)
      BY <1>1
    <3>2. up[n] \in Seq(S)
      BY <1>2, <3>1 DEF Takes
    <3>3. s[n + 1] \in S
      BY <3>1
    <3> QED
      BY <3>1, <3>2, <3>3
  <2>3. up[n + 1] = IF n + 1 \in I THEN Append(up[n], s[n + 1]) ELSE up[n]
    <3>1. n + 1 \in 1..N
      BY <2>2
    <3> QED
      BY <1>2, <2>2, <3>1 DEF Takes
  <2>4. CASE n + 1 \notin I
    <3>1. I \cap (1..(n + 1)) = I \cap (1..n)
      BY <2>4, <2>2
    <3> QED
      BY <2>1, <2>2, <2>3, <2>4, <3>1
  <2>5. CASE n + 1 \in I
    <3> DEFINE q == up[n]
               J == I \cap (1..n)
               r == Append(q, s[n + 1])
               K == I \cap (1..(n + 1))
               g == [j \in 1..(Len(q) + 1) |-> IF j <= Len(q) THEN f[j] ELSE n + 1]
    <3>1. q \in Seq(S) /\ Len(q) \in Nat /\ Places(f, q, s, J)
      BY <2>1, <2>2
    <3>2. K = J \cup {n + 1} /\ J \subseteq 1..n
      BY <2>5, <2>2
    <3>3. /\ Len(r) = Len(q) + 1 /\ r[Len(q) + 1] = s[n + 1]
          /\ \A j \in 1..Len(q) : r[j] = q[j]
      BY <3>1, <2>2
    <3> HIDE DEF q, J, K, r
    <3>4. g \in [1..Len(r) -> K]
      BY <3>1, <3>2, <3>3 DEF Places
    <3>5. \A j \in 1..Len(r) : r[j] = s[g[j]]
      BY <3>1, <3>2, <3>3 DEF Places
    <3>6. ASSUME NEW j \in 1..Len(r), NEW k \in 1..Len(r), j < k
          PROVE  g[j] < g[k]
      <4>1. j \in 1..Len(q) /\ f[j] \in 1..n
        <5>1. j \in 1..Len(q)
          BY <3>1, <3>3, <3>6
        <5> QED
          BY <3>1, <3>2, <5>1 DEF Places
      <4>2. k \in 1..Len(q) \/ k = Len(q) + 1
        BY <3>1, <3>3
      <4> QED
        BY <3>1, <3>2, <3>3, <3>6, <4>1, <4>2 DEF Places
    <3>7. \A i \in K : \E j \in 1..Len(r) : g[j] = i
      <4> TAKE i \in K
      <4>1. CASE i \in J
        <5>1. PICK j \in 1..Len(q) : f[j] = i
          BY <3>1, <4>1 DEF Places
        <5> QED
          BY <3>1, <3>3, <5>1
      <4>2. CASE i = n + 1
        BY <3>1, <3>3, <4>2
      <4> QED
        BY <3>2, <4>1, <4>2
    <3>8. Places(g, r, s, K)
      <4> HIDE DEF g
      <4> QED
        BY <3>4, <3>5, <3>6, <3>7 DEF Places
    <3>9. up[n + 1] = r
      BY <2>3, <2>5 DEF r, q
    <3> QED
      BY <2>2, <3>8, <3>9 DEF K
  <2> QED
    BY <2>4, <2>5
<1>6. N \in T
  <2> HIDE DEF T, N
  <2>1. 0..N \subseteq T
    BY <1>1, <1>4, <1>5, Induction
  <2> QED
    BY <1>1, <2>1
<1> QED
  BY <1>1, <1>2, <1>6 DEF Takes

\* What At takes is what s has at those positions.
LEMMA AtMembers ==
  ASSUME NEW S, NEW s \in Seq(S), NEW I \in SUBSET (1..Len(s))
  PROVE  At(s, I) \in Seq(S) /\ ToSet(At(s, I)) = {s[i] : i \in I}
<1> DEFINE q == At(s, I)
<1>1. q \in Seq(S) /\ I \cap (1..Len(s)) = I
  BY AtPlaces
<1>2. PICK f : Places(f, q, s, I)
  BY <1>1, AtPlaces
<1> HIDE DEF q
<1>3. ToSet(q) = {q[j] : j \in 1..Len(q)}
  BY <1>1 DEF ToSet
<1>4. \A j \in 1..Len(q) : q[j] \in {s[i] : i \in I}
  BY <1>2 DEF Places
<1>5. \A i \in I : \E j \in 1..Len(q) : q[j] = s[i]
  BY <1>2 DEF Places
<1>6. ToSet(q) = {s[i] : i \in I}
  BY <1>3, <1>4, <1>5
<1> QED
  BY <1>1, <1>6 DEF q

\* It takes nothing twice where s has nothing twice at those positions.
LEMMA AtInjective ==
  ASSUME NEW S, NEW s \in Seq(S), NEW I \in SUBSET (1..Len(s)),
         \A i, j \in I : s[i] = s[j] => i = j
  PROVE  IsInjective(At(s, I))
<1> DEFINE q == At(s, I)
<1>1. q \in Seq(S) /\ I \cap (1..Len(s)) = I
  BY AtPlaces
<1>2. PICK f : Places(f, q, s, I)
  BY <1>1, AtPlaces
<1> HIDE DEF q
<1>3. ASSUME NEW j \in 1..Len(q), NEW k \in 1..Len(q), q[j] = q[k]
      PROVE  j = k
  <2>1. f[j] \in I /\ f[k] \in I /\ s[f[j]] = s[f[k]]
    BY <1>2, <1>3 DEF Places
  <2>2. f[j] = f[k]
    BY <2>1, Zenon
  <2>3. f[j] \in Nat
    <3>1. I \subseteq Nat
      OBVIOUS
    <3> QED
      BY <2>1, <3>1
  <2>4. ~(j < k) /\ ~(k < j)
    BY <1>2, <2>2, <2>3 DEF Places
  <2> QED
    BY <1>1, <2>4
<1>4. DOMAIN q = 1..Len(q)
  BY <1>1
<1> QED
  BY <1>3, <1>4 DEF IsInjective, q

\* A first position that is taken stays first.
LEMMA AtFirst ==
  ASSUME NEW S, NEW s \in Seq(S), NEW I \in SUBSET (1..Len(s)), 1 \in I
  PROVE  At(s, I) # <<>> /\ At(s, I)[1] = s[1]
<1> DEFINE q == At(s, I)
<1>1. q \in Seq(S) /\ I \cap (1..Len(s)) = I
  BY AtPlaces
<1>2. PICK f : Places(f, q, s, I)
  BY <1>1, AtPlaces
<1> HIDE DEF q
<1>3. PICK j \in 1..Len(q) : f[j] = 1
  BY <1>2 DEF Places
<1>4. 1 \in 1..Len(q) /\ f[1] \in 1..Len(s)
  BY <1>1, <1>2, <1>3 DEF Places
<1>5. j = 1
  <2>1. 1 < j => f[1] < f[j]
    BY <1>2, <1>4 DEF Places
  <2> QED
    BY <1>1, <1>3, <1>4, <2>1
<1>6. q[1] = s[1]
  BY <1>2, <1>3, <1>5 DEF Places
<1> QED
  BY <1>1, <1>4, <1>6 DEF q

\* FirstAt is nil when there is no position, else what is at the least one.
LEMMA FirstAtLeast ==
  ASSUME NEW s, NEW I \in SUBSET (1..Len(s)), Len(s) \in Nat
  PROVE  /\ I = {} => FirstAt(s, I) = Nil
         /\ I # {} => \E i \in I : FirstAt(s, I) = s[i] /\ \A j \in I : i <= j
<1>1. I = {} => FirstAt(s, I) = Nil
  BY DEF FirstAt
<1>2. ASSUME I # {} PROVE \E i \in I : FirstAt(s, I) = s[i] /\ \A j \in I : i <= j
  <2>1. I \subseteq Nat
    OBVIOUS
  <2>2. \E i \in I : \A j \in I : i <= j
    BY <1>2, <2>1, Least
  <2>3. Min(I) \in I /\ \A j \in I : Min(I) <= j
    BY <2>2 DEF Min
  <2> QED
    BY <1>2, <2>3 DEF FirstAt
<1> QED
  BY <1>1, <1>2

-----------------------------------------------------------------------------
(* The operators on certificates.                                            *)

\* With honest key identifiers, a certificate the code takes for the direct
\* issuer has the issuer's name and the key that made the signature.
LEMMA ParentIssued ==
  ASSUME NEW c \in Certs, NEW p \in Certs, IsParent(c, p)
  PROVE  Issued(p, c)
BY HonestKeyIds DEF IsParent, CheckSignatureFrom, Issued

\* The union of a file that is not empty and a bundle has no certificate twice
\* and starts with the file's first one.
LEMMA UnionFacts ==
  ASSUME NEW a \in Seq(Certs), NEW b \in Seq(Certs), a # <<>>
  PROVE  /\ UnionCerts(a, b) \in Seq(Certs)
         /\ IsInjective(UnionCerts(a, b))
         /\ UnionCerts(a, b) # <<>> /\ UnionCerts(a, b)[1] = a[1]
<1> DEFINE s == a \o b
           I == FirstPositions(s)
<1>1. s \in Seq(Certs) /\ 1 \in 1..Len(s) /\ s[1] = a[1]
  OBVIOUS
<1>2. I \in SUBSET (1..Len(s)) /\ 1 \in I
  <2> HIDE DEF s
  <2> QED
    BY <1>1 DEF FirstPositions
<1>3. ASSUME NEW i \in I, NEW j \in I, s[i] = s[j] PROVE i = j
  <2>1. i \in 1..Len(s) /\ j \in 1..Len(s)
    BY <1>2
  <2>2. ~(i < j) /\ ~(j < i)
    BY <1>3, <2>1 DEF FirstPositions
  <2> QED
    BY <2>1, <2>2
<1>4. UnionCerts(a, b) = At(s, I)
  BY DEF UnionCerts
<1> HIDE DEF s, I
<1>5. At(s, I) \in Seq(Certs)
  BY <1>1, <1>2, AtMembers
<1>6. IsInjective(At(s, I))
  BY <1>1, <1>2, <1>3, AtInjective
<1>7. At(s, I) # <<>> /\ At(s, I)[1] = s[1]
  BY <1>1, <1>2, AtFirst
<1> QED
  BY <1>1, <1>4, <1>5, <1>6, <1>7

\* A certificate's parent is another one of the file that is an issuer of it,
\* and it has none only if there is no such other.
LEMMA ParentFacts ==
  ASSUME NEW s \in Seq(Certs), NEW c \in ToSet(s)
  PROVE  /\ BuildParentMap(s)[c] = Nil =>
              \A p \in ToSet(s) \ {c} : ~IsParent(c, p)
         /\ BuildParentMap(s)[c] # Nil =>
              /\ BuildParentMap(s)[c] \in ToSet(s) \ {c}
              /\ IsParent(c, BuildParentMap(s)[c])
<1> DEFINE I == {i \in DOMAIN s : s[i] # c /\ IsParent(c, s[i])}
<1>1. BuildParentMap(s)[c] = FirstAt(s, I)
  BY DEF BuildParentMap
<1>2. I \in SUBSET (1..Len(s)) /\ DOMAIN s = 1..Len(s) /\ Len(s) \in Nat
  OBVIOUS
<1>3. /\ I = {} => FirstAt(s, I) = Nil
      /\ I # {} => \E i \in I : FirstAt(s, I) = s[i]
  <2> HIDE DEF I
  <2> QED
    BY <1>2, FirstAtLeast
<1>4. \A i \in 1..Len(s) : s[i] \in Certs /\ s[i] # Nil
  BY FilesHoldCerts
<1>5. CASE I = {}
  BY <1>1, <1>2, <1>3, <1>5 DEF ToSet
<1>6. CASE I # {}
  <2>1. PICK i \in I : FirstAt(s, I) = s[i]
    BY <1>3, <1>6
  <2> QED
    BY <1>1, <1>2, <1>4, <2>1 DEF ToSet
<1> QED
  BY <1>5, <1>6

\* The leaf is a certificate of the file, if there is one.
LEMMA LeafFacts ==
  ASSUME NEW s \in Seq(Certs), IdentifyLeaf(s) # Nil
  PROVE  IdentifyLeaf(s) \in ToSet(s)
<1> DEFINE others    == {i \in DOMAIN s : ~s[i].isCA}
           svids     == {i \in others : HasSpiffeID(s[i])}
           unclaimed == {i \in DOMAIN s : \A c \in ToSet(s) \ {s[i]} : ~IsParent(c, s[i])}
           I         == IF svids # {} THEN svids
                        ELSE IF unclaimed \cap others # {} THEN unclaimed \cap others
                        ELSE unclaimed
<1>1. IdentifyLeaf(s) = FirstAt(s, I)
  BY DEF IdentifyLeaf
<1>2. DOMAIN s = 1..Len(s) /\ Len(s) \in Nat
  OBVIOUS
<1>3. I \in SUBSET (1..Len(s))
  BY <1>2
<1>4. \E i \in I : FirstAt(s, I) = s[i]
  <2> HIDE DEF I
  <2> QED
    BY <1>1, <1>2, <1>3, FirstAtLeast
<1> HIDE DEF I
<1> QED
  BY <1>1, <1>2, <1>3, <1>4 DEF ToSet

\* An SVID at the head of the file is its leaf.
LEMMA SvidIsLeaf ==
  ASSUME NEW s \in Seq(Certs), s # <<>>, IsSvidCert(s[1])
  PROVE  IdentifyLeaf(s) = s[1]
<1> DEFINE others    == {i \in DOMAIN s : ~s[i].isCA}
           svids     == {i \in others : HasSpiffeID(s[i])}
<1>1. DOMAIN s = 1..Len(s) /\ Len(s) \in Nat /\ 1 \in DOMAIN s
  OBVIOUS
<1>2. 1 \in svids
  <2>1. ~s[1].isCA /\ s[1].uris = <<"spiffe">>
    BY DEF IsSvidCert
  <2>2. HasSpiffeID(s[1])
    BY <2>1 DEF HasSpiffeID
  <2> QED
    BY <1>1, <2>1, <2>2
<1>3. IdentifyLeaf(s) = FirstAt(s, svids)
  BY <1>2 DEF IdentifyLeaf
<1>4. svids \in SUBSET (1..Len(s))
  BY <1>1
<1> HIDE DEF svids
<1>5. PICK i \in svids : FirstAt(s, svids) = s[i] /\ \A j \in svids : i <= j
  BY <1>1, <1>2, <1>4, FirstAtLeast
<1>6. i = 1
  BY <1>2, <1>4, <1>5
<1> QED
  BY <1>3, <1>5, <1>6

\* The certificates below p are those whose parent is p, none of them twice.
LEMMA ChildrenFacts ==
  ASSUME NEW s \in Seq(Certs), IsInjective(s), NEW p
  PROVE  /\ Children(s, p) \in Seq(Certs) /\ IsInjective(Children(s, p))
         /\ ToSet(Children(s, p)) = {c \in ToSet(s) : BuildParentMap(s)[c] = p}
<1> DEFINE I == {i \in DOMAIN s : BuildParentMap(s)[s[i]] = p}
<1>1. I \in SUBSET (1..Len(s)) /\ DOMAIN s = 1..Len(s)
  OBVIOUS
<1>2. Children(s, p) = At(s, I)
  BY DEF Children
<1>3. {s[i] : i \in I} = {c \in ToSet(s) : BuildParentMap(s)[c] = p}
  BY <1>1 DEF ToSet
<1>4. \A i, j \in I : s[i] = s[j] => i = j
  BY <1>1 DEF IsInjective
<1> HIDE DEF I
<1>5. At(s, I) \in Seq(Certs) /\ ToSet(At(s, I)) = {s[i] : i \in I}
  BY <1>1, AtMembers
<1>6. IsInjective(At(s, I))
  BY <1>1, <1>4, AtInjective
<1> QED
  BY <1>2, <1>3, <1>5, <1>6

-----------------------------------------------------------------------------
(* The verified chains.                                                      *)

\* What a chain of Verify is: it starts with the leaf, holds nothing twice, and
\* each certificate was issued by the next one.
Path(path, leaf) ==
  /\ path \in Seq(Certs) /\ path # <<>> /\ path[1] = leaf
  /\ IsInjective(path)
  /\ \A i \in 1..(Len(path) - 1) : Issued(path[i + 1], path[i])

\* A chain grows by a certificate it may grow by.
LEMMA PathGrows ==
  ASSUME NEW leaf, NEW path, Path(path, leaf), NEW p \in Certs, May(path, p)
  PROVE  Path(Append(path, p), leaf)
<1> DEFINE n == Len(path)
           q == Append(path, p)
<1>1. path \in Seq(Certs) /\ n \in Nat /\ n >= 1 /\ DOMAIN path = 1..n
  BY DEF Path
<1>2. /\ q \in Seq(Certs) /\ Len(q) = n + 1 /\ q[n + 1] = p
      /\ \A i \in 1..n : q[i] = path[i]
      /\ DOMAIN q = 1..(n + 1)
  BY <1>1
<1>3. \A i \in 1..n : path[i] # p
  BY <1>1 DEF May
<1>4. Issued(p, path[n])
  BY DEF May, Issued, CheckSignatureFrom, Last
<1> HIDE DEF q
<1>5. IsInjective(q)
  <2>1. ASSUME NEW i \in 1..(n + 1), NEW j \in 1..(n + 1), q[i] = q[j] PROVE i = j
    <3>1. \A k \in 1..(n + 1) : k \in 1..n \/ k = n + 1
      BY <1>1
    <3>2. CASE i \in 1..n /\ j \in 1..n
      <4>1. path[i] = path[j]
        BY <1>2, <2>1, <3>2
      <4> QED
        BY <1>1, <3>2, <4>1 DEF Path, IsInjective
    <3>3. CASE i = n + 1 \/ j = n + 1
      BY <1>2, <1>3, <2>1, <3>1, <3>3
    <3> QED
      BY <3>1, <3>2, <3>3
  <2> QED
    BY <1>2, <2>1 DEF IsInjective
<1>6. \A i \in 1..(Len(q) - 1) : Issued(q[i + 1], q[i])
  <2> TAKE i \in 1..(Len(q) - 1)
  <2>1. i \in 1..n
    BY <1>1, <1>2
  <2>2. CASE i = n
    BY <1>1, <1>2, <1>4, <2>2
  <2>3. CASE i # n
    <3>1. i \in 1..(n - 1) /\ i + 1 \in 1..n
      <4> HIDE DEF n
      <4> QED
        BY <1>1, <2>1, <2>3
    <3> QED
      BY <1>2, <2>1, <3>1 DEF Path
  <2> QED
    BY <2>2, <2>3
<1>7. q # <<>> /\ q[1] = leaf
  BY <1>1, <1>2 DEF Path
<1> QED
  BY <1>2, <1>5, <1>6, <1>7 DEF Path, q

\* Every chain Verify returns is a path.
LEMMA ChainFacts ==
  ASSUME NEW s \in Seq(Certs), NEW leaf \in Certs, NEW path \in VerifiedChains(s, leaf)
  PROVE  Path(path, leaf)
<1> DEFINE N == Len(s)
           pool == Intermediates(s, leaf)
           Paths == {q \in Seq(Certs) : Path(q, leaf)}
           X == SUBSET Paths
           x == {<<leaf>>}
           partial[n \in 0..N] == IF n = 0 THEN x ELSE Extended(partial[n - 1], pool)
           Eq(h) == h = [n \in 0..N |-> IF n = 0 THEN x ELSE Extended(h[n - 1], pool)]
           F == [n \in 1..N |-> [paths \in X |-> Extended(paths, pool)]]
<1>1. N \in Nat /\ x \in X
  BY DEF Path, IsInjective
<1>2. ASSUME NEW paths \in X, NEW S \in SUBSET Certs PROVE Extended(paths, S) \in X
  <2> SUFFICES ASSUME NEW r \in Extended(paths, S) PROVE r \in Paths
    OBVIOUS
  <2>0. PICK q \in paths, p \in S : May(q, p) /\ r = Append(q, p)
    BY Zenon DEF Extended
  <2>1. p \in Certs /\ Path(q, leaf)
    OBVIOUS
  <2>2. Path(Append(q, p), leaf)
    BY <2>0, <2>1, PathGrows
  <2> QED
    BY <2>0, <2>2 DEF Path
<1>3. pool \in SUBSET Certs /\ Roots(s) \in SUBSET Certs
  BY DEF Intermediates, Roots, ToSet
<1> HIDE DEF X, pool, x
<1>4. F \in [1..N -> [X -> X]]
  BY <1>2, <1>3
<1>5. PICK h : Follows(h, N, X, x, F)
  <2> HIDE DEF F, N
  <2> QED
    BY <1>1, <1>4, Recursion
<1>6. \A n \in 0..N : n # 0 => n \in 1..N
  BY <1>1
<1>7. Eq(h)
  <2>1. ASSUME NEW n \in 1..N PROVE h[n] = Extended(h[n - 1], pool)
    <3>1. h[n] = F[n][h[n - 1]] /\ h[n - 1] \in X
      <4> HIDE DEF F
      <4> QED
        BY <1>1, <1>5 DEF Follows
    <3> QED
      BY <3>1
  <2>2. h[0] = x /\ h = [n \in 0..N |-> h[n]]
    BY <1>5 DEF Follows
  <2>3. \A n \in 0..N : h[n] = IF n = 0 THEN x ELSE Extended(h[n - 1], pool)
    BY <2>1, <2>2, <1>6, Zenon
  <2> QED
    BY <2>2, <2>3
<1>8. Eq(partial)
  <2>1. partial = CHOOSE g : Eq(g)
    OBVIOUS
  <2> QED
    BY <1>7, <2>1, Zenon
<1>9. \A n \in 0..N : partial[n] \in X
  <2> DEFINE T == {n \in 0..N : partial[n] \in X}
  <2> HIDE DEF partial
  <2>1. \A n \in 0..N : partial[n] = IF n = 0 THEN x ELSE Extended(partial[n - 1], pool)
    BY <1>8
  <2>2. 0 \in T
    BY <1>1, <2>1
  <2>3. ASSUME NEW n \in 0..(N - 1), n \in T PROVE n + 1 \in T
    <3>1. n + 1 \in 0..N /\ n + 1 # 0 /\ (n + 1) - 1 = n
      BY <1>1
    <3>2. partial[n + 1] = Extended(partial[n], pool)
      BY <2>1, <3>1
    <3> QED
      BY <1>2, <1>3, <2>3, <3>1, <3>2
  <2>4. 0..N \subseteq T
    <3> HIDE DEF T
    <3> QED
      BY <1>1, <2>2, <2>3, Induction
  <2> QED
    BY <2>4
<1>10. VerifiedChains(s, leaf) =
         IF leaf \in Roots(s) THEN x ELSE UNION {Extended(partial[n], Roots(s)) : n \in 0..N}
  BY DEF VerifiedChains, pool, x
<1> HIDE DEF partial
<1>11. VerifiedChains(s, leaf) \subseteq Paths
  <2>1. \A n \in 0..N : Extended(partial[n], Roots(s)) \in X
    BY <1>2, <1>3, <1>9
  <2> QED
    BY <1>1, <1>10, <2>1 DEF X
<1> QED
  BY <1>11

-----------------------------------------------------------------------------
(* The invariants.                                                           *)

Parents == BuildParentMap(all)
Orphans == {c \in ToSet(all) : Parents[c] = Nil}

\* What each stage follows from, and what it has not touched yet.
StageInv ==
  /\ pc \in {"convert", "walk", "shortest", "tree"} => file # <<>> /\ ~opt.isSvid
  /\ pc = "walk" => opt.format = "chain" /\ ~opt.shortest
  /\ pc = "shortest" => opt.format = "chain" /\ opt.shortest
  /\ pc = "tree" => opt.format = "tree"
  /\ pc \in {"walk", "shortest", "tree"} \/ Shown("chain") \/ Shown("tree") =>
       file # <<>> /\ all = Union
  /\ pc \in {"load", "convert", "shortest"} => chain = <<>>
  /\ ~(pc = "tree" \/ Shown("tree")) => stack = <<>> /\ visited = {} /\ drawn = <<>>

\* The chain so far goes from the leaf, parent by parent, to the certificate the
\* walk has reached.
WalkInv ==
  pc \in {"walk", "shortest"} =>
    /\ cur \in ToSet(all) /\ IsInjective(chain)
    /\ \A i \in DOMAIN chain : chain[i] \in ToSet(all)
    /\ IdentifyLeaf(all) = IF chain = <<>> THEN cur ELSE chain[1]
    /\ \A i \in 1..(Len(chain) - 1) : Parents[chain[i]] = chain[i + 1]
    /\ chain # <<>> => Parents[Last(chain)] = cur

\* What is shown of a chain.
ShownInv ==
  Shown("chain") =>
    /\ chain # <<>> /\ Last(chain) = IdentifyLeaf(all)
    /\ ChainLinksIssued /\ ChainGoesToTheTop

Pending == {stack[i][1] : i \in DOMAIN stack}
Earlier == Drawn \ visited

\* Where some certificate has no parent, exactly those are the roots, and each
\* is waiting, begun or drawn; otherwise there is one tree.
RootsInv ==
  /\ IsInjective(roots) /\ ToSet(roots) \subseteq ToSet(all)
  /\ Orphans # {} => /\ ToSet(roots) \subseteq Orphans \ (Drawn \cup Pending)
                     /\ Orphans \subseteq ToSet(roots) \cup Drawn \cup Pending
  /\ Orphans = {} => \/ roots = <<>>
                     \/ Len(roots) = 1 /\ stack = <<>> /\ drawn = <<>>

\* The trees drawn before this one are closed upwards, and so is this one.
DrawnInv ==
  /\ visited \subseteq Drawn /\ Drawn \subseteq ToSet(all)
  /\ \A c \in Earlier : Parents[c] = Nil \/ Parents[c] \in Earlier
  /\ Orphans = {} => Earlier = {}
  /\ Orphans # {} => \A c \in visited : Parents[c] = Nil \/ Parents[c] \in visited

\* A pending node is the root, with nothing visited, or a child of a node that
\* has its line; depths only go down the stack.
StackInv ==
  /\ \A i \in DOMAIN stack :
       /\ stack[i][1] \in ToSet(all)
       /\ stack[i][2] = 0 => /\ Len(stack) = 1 /\ visited = {} /\ stack[i][1] \notin Drawn
                             /\ Orphans # {} => Parents[stack[i][1]] = Nil
       /\ stack[i][2] > 0 => Parents[stack[i][1]] \in visited
  /\ \A i, j \in DOMAIN stack : i < j => stack[i][2] >= stack[j][2]

\* Line j is, seen from depth d after line n, the one above and a level out, and
\* it is the one of c's parent.
Under(lines, parents, j, n, c, d) ==
  /\ lines[j] = <<parents[c], d - 1>>
  /\ \A k \in (j + 1)..n : lines[k][2] >= d

\* Each line but a root's stands under its parent's, and each pending node will.
LinesInv ==
  /\ \A i, j \in DOMAIN drawn : drawn[i][1] = drawn[j][1] => i = j
  /\ \A i \in DOMAIN drawn : drawn[i][2] > 0 =>
       /\ Parents[drawn[i][1]] # Nil
       /\ \E j \in 1..(i - 1) : Under(drawn, Parents, j, i - 1, drawn[i][1], drawn[i][2])
  /\ \A i \in DOMAIN stack : stack[i][2] > 0 =>
       \E j \in DOMAIN drawn : Under(drawn, Parents, j, Len(drawn), stack[i][1], stack[i][2])

\* The children of what is drawn are drawn or pending.
ChildrenInv ==
  \A c \in ToSet(all) : Parents[c] \in Drawn => c \in Drawn \cup Pending

ForestInv ==
  /\ pc = "tree" \/ Shown("tree") =>
       RootsInv /\ DrawnInv /\ StackInv /\ LinesInv /\ ChildrenInv
  /\ Shown("tree") => roots = <<>> /\ stack = <<>>

IInv == TypeOK /\ StageInv /\ WalkInv /\ ShownInv /\ ForestInv

\* The union of the two files, as long as the file is not empty.
LEMMA UnionIs ==
  ASSUME TypeOK, file # <<>>
  PROVE  Union \in Seq(Certs) /\ IsInjective(Union) /\ Union # <<>> /\ Union[1] = file[1]
<1> DEFINE b == IF bundle = NoBundle THEN <<>> ELSE bundle
<1>1. file \in Seq(Certs) /\ b \in Seq(Certs)
  <2>1. file \in Seq(Certs) /\ (bundle \in Seq(Certs) \/ bundle = NoBundle)
    BY FilesHoldCerts DEF TypeOK
  <2>2. <<>> \in Seq(Certs)
    OBVIOUS
  <2> QED
    BY <2>1, <2>2
<1>2. Union = UnionCerts(file, b)
  BY DEF Union
<1> HIDE DEF b
<1> QED
  BY <1>1, <1>2, UnionFacts

\* From the second stage on, what the stages work on has no certificate twice.
LEMMA AllIs ==
  ASSUME TypeOK, StageInv, pc \in {"walk", "shortest", "tree"} \/ Shown("chain") \/ Shown("tree")
  PROVE  /\ all \in Seq(Certs) /\ IsInjective(all) /\ all # <<>> /\ all[1] = file[1]
         /\ ToSet(all) \subseteq Certs /\ Nil \notin ToSet(all)
<1>1. file # <<>> /\ all = Union
  BY DEF StageInv
<1>2. all \in Seq(Certs) /\ IsInjective(all) /\ all # <<>> /\ all[1] = file[1]
  BY <1>1, UnionIs
<1>3. ToSet(all) \subseteq Certs
  BY <1>2 DEF ToSet
<1>4. Nil \notin ToSet(all)
  BY <1>3, FilesHoldCerts
<1> QED
  BY <1>2, <1>3, <1>4

\* A sequence turned round.
LEMMA ReverseFacts ==
  ASSUME NEW S, NEW s \in Seq(S)
  PROVE  /\ Reverse(s) \in Seq(S) /\ Len(Reverse(s)) = Len(s)
         /\ \A i \in 1..Len(s) : Reverse(s)[i] = s[(Len(s) - i) + 1]
         /\ s # <<>> => Reverse(s) # <<>> /\ Reverse(s)[1] = Last(s) /\ Last(Reverse(s)) = s[1]
         /\ IsInjective(s) => IsInjective(Reverse(s))
<1> DEFINE n == Len(s)
           r == Reverse(s)
<1>1. n \in Nat /\ DOMAIN s = 1..n /\ \A i \in 1..n : s[i] \in S
  OBVIOUS
<1>2. r = [i \in 1..n |-> s[(n - i) + 1]]
  BY DEF Reverse
<1>3. \A i \in 1..n : (n - i) + 1 \in 1..n
  BY <1>1
<1> HIDE DEF n, r
<1>4. r \in [1..n -> S]
  BY <1>1, <1>2, <1>3
<1>5. r \in Seq(S) /\ Len(r) = n /\ DOMAIN r = 1..n
  BY <1>1, <1>4
<1>6. \A i \in 1..n : r[i] = s[(n - i) + 1]
  BY <1>2
<1>7. s # <<>> => r # <<>> /\ r[1] = s[n] /\ r[n] = s[1]
  <2> HAVE s # <<>>
  <2>1. n >= 1
    BY <1>1 DEF n
  <2> QED
    BY <1>1, <1>5, <1>6, <2>1
<1>8. ASSUME IsInjective(s) PROVE IsInjective(r)
  <2>1. ASSUME NEW i \in 1..n, NEW j \in 1..n, r[i] = r[j] PROVE i = j
    <3>1. s[(n - i) + 1] = s[(n - j) + 1]
      BY <1>6, <2>1
    <3>2. (n - i) + 1 = (n - j) + 1
      BY <1>1, <1>3, <1>8, <3>1 DEF IsInjective
    <3> QED
      BY <1>1, <3>2
  <2> QED
    BY <1>5, <2>1 DEF IsInjective
<1> QED
  BY <1>5, <1>6, <1>7, <1>8 DEF n, r, Last

\* A path turned round: from its end down to the leaf.
LEMMA PathReversed ==
  ASSUME NEW leaf, NEW s, Path(s, leaf)
  PROVE  /\ Reverse(s) # <<>> /\ Last(Reverse(s)) = leaf /\ Reverse(s)[1] = Last(s)
         /\ IsInjective(Reverse(s))
         /\ \A i \in 1..(Len(Reverse(s)) - 1) : Issued(Reverse(s)[i], Reverse(s)[i + 1])
         /\ \A i \in 1..(Len(s) - 1) :
              \E j \in DOMAIN Reverse(s) : j # 1 /\ Reverse(s)[j] = s[i]
<1> DEFINE n == Len(s)
           r == Reverse(s)
<1>1. s \in Seq(Certs) /\ s # <<>> /\ s[1] = leaf /\ IsInjective(s) /\ n \in Nat
  BY SeqFacts DEF Path
<1>2. /\ r \in Seq(Certs) /\ Len(r) = n /\ r # <<>> /\ IsInjective(r)
      /\ r[1] = Last(s) /\ Last(r) = leaf
      /\ \A i \in 1..n : r[i] = s[(n - i) + 1]
  BY <1>1, ReverseFacts
<1>3. DOMAIN r = 1..n
  BY <1>2, SeqFacts
<1> HIDE DEF n, r
<1>4. ASSUME NEW i \in 1..(n - 1) PROVE Issued(r[i], r[i + 1])
  <2>1. i \in 1..n /\ i + 1 \in 1..n /\ n - i \in 1..(n - 1) /\ (n - (i + 1)) + 1 = n - i
    BY <1>1
  <2>2. r[i] = s[(n - i) + 1] /\ r[i + 1] = s[n - i]
    BY <1>2, <2>1
  <2> QED
    BY <2>1, <2>2 DEF Path, n
<1>5. ASSUME NEW i \in 1..(n - 1) PROVE \E j \in DOMAIN r : j # 1 /\ r[j] = s[i]
  <2>1. /\ (n - i) + 1 \in 1..n /\ (n - i) + 1 # 1
        /\ (n - ((n - i) + 1)) + 1 = i
    BY <1>1
  <2>2. r[(n - i) + 1] = s[i]
    BY <1>2, <2>1
  <2> QED
    BY <1>3, <2>1, <2>2
<1> QED
  BY <1>2, <1>4, <1>5 DEF n, r

\* A parent is another certificate, and issued the one it is the parent of.
LEMMA ParentIs ==
  ASSUME all \in Seq(Certs), NEW c \in ToSet(all), Parents[c] # Nil
  PROVE  Parents[c] \in ToSet(all) \ {c} /\ IsParent(c, Parents[c]) /\ Issued(Parents[c], c)
<1>1. Parents[c] \in ToSet(all) \ {c} /\ IsParent(c, Parents[c])
  BY ParentFacts DEF Parents
<1>2. c \in Certs /\ Parents[c] \in Certs
  BY <1>1, SeqFacts
<1> QED
  BY <1>1, <1>2, ParentIssued

-----------------------------------------------------------------------------
(* Type correctness.                                                         *)

\* Every step keeps the types.
LEMMA TypeStep ==
  ASSUME IInv, [Next]_vars
  PROVE  TypeOK'
<1> USE FilesHoldCerts DEF IInv, inputs, forest
<1>1. CASE LoadFails
  BY <1>1 DEF LoadFails, Return, TypeOK
<1>2. CASE JudgeSvid
  BY <1>2 DEF JudgeSvid, Return, TypeOK
<1>3. CASE LoadBundle
  <2>1. notes' \subseteq {"bundle ignored", "shortest ignored", "alternate path",
                          "no root found", "cycle"}
    BY <1>3 DEF LoadBundle, TypeOK
  <2> QED
    BY <1>3, <2>1 DEF LoadBundle, Return, TypeOK
<1>4. CASE ConvertOther
  BY <1>4 DEF ConvertOther, Return, TypeOK
<1>5. CASE ConvertCertsToChain
  <2>1. file # <<>>
    BY <1>5 DEF ConvertCertsToChain, StageInv
  <2>2. Union \in Seq(Certs)
    BY <2>1, UnionIs
  <2>3. IdentifyLeaf(Union) \in Certs \cup {Nil}
    <3>1. ToSet(Union) \subseteq Certs
      BY <2>2 DEF ToSet
    <3> QED
      BY <2>2, <3>1, LeafFacts
  <2> QED
    BY <1>5, <2>2, <2>3 DEF ConvertCertsToChain, Return, TypeOK
<1>6. CASE Walk
  <2>1. all \in Seq(Certs) /\ ToSet(all) \subseteq Certs /\ cur \in ToSet(all) /\ chain \in Seq(Certs)
    BY <1>6, AllIs DEF Walk, WalkInv, TypeOK
  <2> DEFINE parent == BuildParentMap(all)[cur]
  <2>2. parent = Nil \/ parent \in Certs
    BY <2>1, ParentFacts
  <2>3. Append(chain, cur) \in Seq(Certs)
    BY <2>1
  <2>4. Reverse(chain) \in Seq(Certs) /\ Reverse(Append(chain, cur)) \in Seq(Certs)
    BY <2>1, <2>3, ReverseFacts
  <2>5. \/ chain' \in {Reverse(chain), Reverse(Append(chain, cur))} /\ Return("ok") /\ UNCHANGED cur
        \/ chain' = Append(chain, cur) /\ cur' = parent /\ parent # Nil /\ UNCHANGED <<pc, result>>
    BY <1>6 DEF Walk
  <2>6. UNCHANGED <<opt, file, bundle, all, roots, stack, visited, drawn, notes>>
    BY <1>6 DEF Walk
  <2> HIDE DEF parent
  <2> QED
    BY <2>2, <2>3, <2>4, <2>5, <2>6 DEF Return, TypeOK
<1>7. CASE ShortestPath
  <2>1. all \in Seq(Certs) /\ cur \in Certs
    BY <1>7, AllIs DEF ShortestPath, WalkInv
  <2>2. chain' \in Seq(Certs)
    <3>1. CASE UNCHANGED chain
      BY <3>1 DEF TypeOK
    <3>2. CASE \E first \in Verify(all, cur) : chain' = Reverse(first)
      <4>1. PICK first \in Verify(all, cur) : chain' = Reverse(first)
        BY <3>2
      <4>2. first \in VerifiedChains(all, cur)
        BY DEF Verify
      <4>3. first \in Seq(Certs)
        BY <2>1, <4>2, ChainFacts DEF Path
      <4> QED
        BY <4>1, <4>3, ReverseFacts
    <3> QED
      BY <1>7, <3>1, <3>2 DEF ShortestPath
  <2>3. /\ notes' \subseteq notes \cup {"alternate path"}
        /\ pc' = "done" /\ result' \in {"ok", "error"}
    BY <1>7 DEF ShortestPath, Return
  <2>4. UNCHANGED <<opt, file, bundle, all, cur, roots, stack, visited, drawn>>
    BY <1>7 DEF ShortestPath
  <2> QED
    BY <2>2, <2>3, <2>4 DEF TypeOK
<1>8. CASE ConvertCertsToTree
  <2>1. file # <<>>
    BY <1>8 DEF ConvertCertsToTree, StageInv
  <2>2. Union \in Seq(Certs) /\ IsInjective(Union) /\ Union # <<>>
    BY <2>1, UnionIs
  <2>3. Children(Union, Nil) \in Seq(Certs) /\ <<Union[1]>> \in Seq(Certs)
    BY <2>2, ChildrenFacts
  <2>4. all' \in Seq(Certs) /\ roots' \in Seq(Certs)
    BY <1>8, <2>2, <2>3 DEF ConvertCertsToTree, TypeOK
  <2>5. notes' \subseteq notes \cup {"no root found"}
    BY <1>8 DEF ConvertCertsToTree
  <2>6. \/ Return("error")
        \/ pc' = "tree" /\ UNCHANGED result /\ pc = "convert"
    BY <1>8 DEF ConvertCertsToTree
  <2>7. UNCHANGED <<opt, file, bundle, cur, chain, stack, visited, drawn>>
    BY <1>8 DEF ConvertCertsToTree
  <2> QED
    BY <2>4, <2>5, <2>6, <2>7 DEF Return, TypeOK
<1>9. CASE NextRoot
  <2>1. roots \in Seq(Certs) /\ roots # <<>>
    BY <1>9 DEF NextRoot, TypeOK
  <2>2. Head(roots) \in Certs /\ Tail(roots) \in Seq(Certs)
    BY <2>1
  <2>3. << <<Head(roots), 0>> >> \in Seq(Certs \X Nat)
    BY <2>2
  <2> QED
    BY <1>9, <2>2, <2>3 DEF NextRoot, TypeOK
<1>10. CASE WriteTreeNode
  <2>1. /\ all \in Seq(Certs) /\ IsInjective(all)
        /\ stack \in Seq(Certs \X Nat) /\ stack # <<>>
    BY <1>10, AllIs DEF WriteTreeNode, TypeOK
  <2>2. Head(stack) \in Certs \X Nat /\ Tail(stack) \in Seq(Certs \X Nat)
    BY <2>1
  <2> DEFINE c == Head(stack)[1]
             depth == Head(stack)[2]
             below == Children(all, c)
             pending == [i \in DOMAIN below |-> <<below[i], depth + 1>>]
  <2>3. c \in Certs /\ depth \in Nat /\ below \in Seq(Certs)
    BY <2>1, <2>2, ChildrenFacts
  <2>4. pending \in Seq(Certs \X Nat)
    <3> HIDE DEF c, depth, below
    <3> QED
      BY <2>3
  <2>5. \/ /\ notes' = notes \cup {"cycle"} /\ stack' = Tail(stack)
           /\ UNCHANGED <<visited, drawn>>
        \/ /\ visited' = visited \cup {c} /\ drawn' = Append(drawn, <<c, depth>>)
           /\ stack' = pending \o Tail(stack) /\ UNCHANGED notes
    BY <1>10 DEF WriteTreeNode
  <2>6. UNCHANGED <<opt, file, bundle, pc, all, cur, chain, roots, result>>
    BY <1>10 DEF WriteTreeNode
  <2> HIDE DEF c, depth, below, pending
  <2> DEFINE Line == Certs \X Nat
  <2>7. stack' \in Seq(Line)
    <3>1. pending \in Seq(Line) /\ Tail(stack) \in Seq(Line)
      BY <2>2, <2>4
    <3> HIDE DEF Line
    <3>2. pending \o Tail(stack) \in Seq(Line)
      BY <3>1
    <3> QED
      BY <2>5, <3>1, <3>2
  <2>8. drawn \in Seq(Certs \X Nat) /\ visited \subseteq Certs /\ notes' \subseteq notes \cup {"cycle"}
    BY <2>5 DEF TypeOK
  <2>9. drawn' \in Seq(Line)
    <3>1. <<c, depth>> \in Line /\ drawn \in Seq(Line)
      BY <2>3, <2>8
    <3> HIDE DEF Line
    <3>2. Append(drawn, <<c, depth>>) \in Seq(Line)
      BY <3>1
    <3> QED
      BY <2>5, <3>1, <3>2
  <2>10. visited' \subseteq Certs
    BY <2>3, <2>5, <2>8
  <2> QED
    BY <2>6, <2>7, <2>8, <2>9, <2>10 DEF TypeOK
<1>11. CASE TreeReturns
  BY <1>11 DEF TreeReturns, Return, TypeOK
<1>12. CASE UNCHANGED vars
  BY <1>12 DEF vars, TypeOK
<1> QED
  BY <1>1, <1>2, <1>3, <1>4, <1>5, <1>6, <1>7, <1>8, <1>9, <1>10, <1>11, <1>12 DEF Next

-----------------------------------------------------------------------------
(* The stages.                                                               *)

\* Every step keeps what the stages follow from.
LEMMA StageStep ==
  ASSUME IInv, [Next]_vars
  PROVE  StageInv'
<1> USE FilesHoldCerts DEF IInv, inputs, forest
<1>0. UNCHANGED <<opt, file, bundle>> /\ Union' = Union
  BY DEF Next, vars, Union, LoadFails, JudgeSvid, LoadBundle, ConvertOther, ConvertCertsToChain,
         Walk, ShortestPath, ConvertCertsToTree, NextRoot, WriteTreeNode, TreeReturns
<1>1. CASE LoadFails
  BY <1>0, <1>1 DEF LoadFails, Return, StageInv, Shown
<1>2. CASE JudgeSvid
  BY <1>0, <1>2 DEF JudgeSvid, Return, StageInv, Shown
<1>3. CASE LoadBundle
  <2>1. file # <<>> /\ ~opt.isSvid /\ pc = "load"
        /\ UNCHANGED <<all, chain, stack, visited, drawn>>
        /\ (pc' = "convert" \/ Return("error"))
    BY <1>3 DEF LoadBundle
  <2> QED
    BY <1>0, <2>1 DEF Return, StageInv, Shown
<1>4. CASE ConvertOther
  BY <1>0, <1>4 DEF ConvertOther, Return, StageInv, Shown
<1>5. CASE ConvertCertsToChain
  <2>1. /\ pc = "convert" /\ opt.format = "chain" /\ all' = Union
        /\ \/ Return("error")
           \/ pc' = "shortest" /\ opt.shortest
           \/ pc' = "walk" /\ ~opt.shortest
        /\ UNCHANGED <<chain, stack, visited, drawn>>
    BY <1>5 DEF ConvertCertsToChain
  <2> QED
    BY <1>0, <2>1 DEF Return, StageInv, Shown
<1>6. CASE Walk
  <2>1. /\ pc = "walk" /\ UNCHANGED <<all, stack, visited, drawn>>
        /\ (Return("ok") \/ UNCHANGED <<pc, result>>)
    BY <1>6 DEF Walk
  <2> QED
    BY <1>0, <2>1 DEF Return, StageInv, Shown
<1>7. CASE ShortestPath
  <2>1. /\ pc = "shortest" /\ UNCHANGED <<all, stack, visited, drawn>>
        /\ pc' = "done"
    BY <1>7 DEF ShortestPath, Return
  <2> QED
    BY <1>0, <2>1 DEF StageInv, Shown
<1>8. CASE ConvertCertsToTree
  <2>1. /\ pc = "convert" /\ opt.format = "tree"
        /\ \/ Return("error")
           \/ pc' = "tree" /\ all' = Union
        /\ UNCHANGED <<chain, stack, visited, drawn>>
    BY <1>8 DEF ConvertCertsToTree
  <2> QED
    BY <1>0, <2>1 DEF Return, StageInv, Shown
<1>9. CASE NextRoot
  BY <1>0, <1>9 DEF NextRoot, StageInv, Shown
<1>10. CASE WriteTreeNode
  <2>1. pc = "tree" /\ UNCHANGED <<pc, all, chain>>
    BY <1>10 DEF WriteTreeNode
  <2> QED
    BY <1>0, <2>1 DEF StageInv, Shown
<1>11. CASE TreeReturns
  BY <1>0, <1>11 DEF TreeReturns, Return, StageInv, Shown
<1>12. CASE UNCHANGED vars
  BY <1>0, <1>12 DEF vars, StageInv, Shown
<1> QED
  BY <1>1, <1>2, <1>3, <1>4, <1>5, <1>6, <1>7, <1>8, <1>9, <1>10, <1>11, <1>12 DEF Next

-----------------------------------------------------------------------------
(* Chains.                                                                   *)

\* Every step keeps what the walk has done so far.
LEMMA WalkStep ==
  ASSUME IInv, [Next]_vars
  PROVE  WalkInv'
<1> USE DEF IInv
<1>1. CASE pc' \notin {"walk", "shortest"}
  BY <1>1 DEF WalkInv
<1>2. CASE ConvertCertsToChain
  <2> SUFFICES ASSUME cur' # Nil PROVE WalkInv'
    BY <1>1, <1>2 DEF ConvertCertsToChain, Return
  <2>1. file # <<>> /\ all' = Union /\ cur' = IdentifyLeaf(Union) /\ chain' = <<>>
    BY <1>2 DEF ConvertCertsToChain, StageInv
  <2>2. cur' \in ToSet(all')
    BY <2>1, UnionIs, LeafFacts
  <2> QED
    BY <2>1, <2>2 DEF WalkInv, IsInjective
<1>3. CASE Walk
  <2> SUFFICES ASSUME pc' = "walk" PROVE WalkInv'
    BY <1>1, <1>3 DEF Walk, Return
  <2>1. /\ cur \notin ToSet(chain) /\ Parents[cur] # Nil
        /\ chain' = Append(chain, cur) /\ cur' = Parents[cur] /\ all' = all /\ pc = "walk"
    BY <1>3 DEF Walk, Return, Parents
  <2>2. all \in Seq(Certs)
    BY <2>1, AllIs
  <2>3. cur \in ToSet(all) /\ Parents[cur] \in ToSet(all)
    BY <2>1, <2>2, ParentFacts DEF WalkInv, Parents
  <2> DEFINE n == Len(chain)
  <2>4. /\ chain \in Seq(Certs) /\ n \in Nat /\ DOMAIN chain = 1..n
        /\ \A i \in 1..n : chain[i] \in ToSet(all) /\ chain[i] # cur
    <3>1. chain \in Seq(Certs)
      BY DEF TypeOK
    <3>2. n \in Nat /\ DOMAIN chain = 1..n /\ \A i \in 1..n : chain[i] \in ToSet(chain)
      BY <3>1, SeqFacts
    <3> QED
      BY <2>1, <3>1, <3>2 DEF WalkInv
  <2>5. cur \in Certs
    BY <2>2, <2>3 DEF ToSet
  <2>6. /\ Len(chain') = n + 1 /\ DOMAIN chain' = 1..(n + 1) /\ chain'[n + 1] = cur
        /\ \A i \in 1..n : chain'[i] = chain[i]
    BY <2>1, <2>4, <2>5
  <2>7. \A i \in 1..(n + 1) : i \in 1..n \/ i = n + 1
    BY <2>4
  <2>8. Parents' = Parents
    BY <2>1 DEF Parents
  <2>9. cur' \in ToSet(all') /\ \A i \in DOMAIN chain' : chain'[i] \in ToSet(all')
    BY <2>1, <2>3, <2>4, <2>6, <2>7
  <2>10. IsInjective(chain)'
    <3>1. ASSUME NEW i \in 1..(n + 1), NEW j \in 1..(n + 1), chain'[i] = chain'[j] PROVE i = j
      <4>1. CASE i \in 1..n /\ j \in 1..n
        BY <2>1, <2>4, <2>6, <3>1, <4>1 DEF WalkInv, IsInjective
      <4>2. CASE i = n + 1 \/ j = n + 1
        BY <2>4, <2>6, <2>7, <3>1, <4>2
      <4> QED
        BY <2>7, <4>1, <4>2
    <3> QED
      BY <2>6, <3>1 DEF IsInjective
  <2>11. IdentifyLeaf(all') = chain'[1] /\ chain' # <<>>
    <3>1. CASE chain = <<>>
      BY <2>1, <2>5, <3>1 DEF WalkInv
    <3>2. CASE chain # <<>>
      <4>1. 1 \in 1..n
        BY <2>4, <3>2
      <4> QED
        BY <2>1, <2>4, <2>5, <2>6, <3>2, <4>1 DEF WalkInv
    <3> QED
      BY <3>1, <3>2
  <2>12. \A i \in 1..(Len(chain') - 1) : Parents[chain'[i]] = chain'[i + 1]
    <3> TAKE i \in 1..(Len(chain') - 1)
    <3>1. i \in 1..n
      BY <2>4, <2>6
    <3>2. CASE i = n
      <4>1. chain # <<>>
        BY <2>4, <3>1
      <4> QED
        BY <2>1, <2>6, <3>1, <3>2, <4>1 DEF WalkInv, Last
    <3>3. CASE i # n
      <4>1. i \in 1..(n - 1) /\ i + 1 \in 1..n
        <5> HIDE DEF n
        <5> QED
          BY <2>4, <3>1, <3>3
      <4> QED
        BY <2>1, <2>6, <3>1, <4>1 DEF WalkInv
    <3> QED
      BY <3>2, <3>3
  <2>13. Parents[Last(chain')] = cur'
    BY <2>1, <2>6 DEF Last
  <2> QED
    BY <2>8, <2>9, <2>10, <2>11, <2>12, <2>13 DEF WalkInv
<1>4. CASE UNCHANGED vars
  BY <1>4 DEF vars, WalkInv, Parents, IsInjective
<1> QED
  <2>1. pc' \in {"walk", "shortest"} => ConvertCertsToChain \/ Walk \/ UNCHANGED vars
    BY DEF Next, LoadFails, JudgeSvid, LoadBundle, ConvertOther, ShortestPath,
           ConvertCertsToTree, NextRoot, WriteTreeNode, TreeReturns, Return
  <2> QED
    BY <1>1, <1>2, <1>3, <1>4, <2>1

\* A step that shows no chain keeps what is shown of one.
LEMMA ShownKept ==
  ASSUME IInv, pc' # "done" \/ result' # "ok" \/ opt'.isSvid \/ opt'.format # "chain"
  PROVE  ShownInv'
BY DEF ShownInv, Shown

\* Every step keeps, or establishes, what is shown of a chain.
LEMMA ShownStep ==
  ASSUME IInv, [Next]_vars
  PROVE  ShownInv'
<1> USE DEF IInv
<1>1. CASE Walk
  <2> SUFFICES ASSUME pc' = "done" PROVE ShownInv'
    BY ShownKept
  <2>1. /\ pc = "walk" /\ UNCHANGED <<opt, file, bundle, all, cur>>
        /\ \/ cur \in ToSet(chain) /\ chain' = Reverse(chain)
           \/ cur \notin ToSet(chain) /\ Parents[cur] = Nil /\ chain' = Reverse(Append(chain, cur))
    BY <1>1 DEF Walk, inputs, Parents
  <2>2. /\ all \in Seq(Certs) /\ cur \in ToSet(all) /\ cur \in Certs
        /\ ToSet(all) \subseteq Certs /\ Nil \notin ToSet(all)
        /\ opt.format = "chain" /\ ~opt.shortest
    BY <2>1, AllIs DEF WalkInv, StageInv
  <2> DEFINE n == Len(chain)
             leaf == IdentifyLeaf(all)
  <2>3. /\ chain \in Seq(Certs) /\ IsInjective(chain)
        /\ leaf = IF chain = <<>> THEN cur ELSE chain[1]
        /\ \A i \in 1..(n - 1) : Parents[chain[i]] = chain[i + 1]
        /\ chain # <<>> => Parents[Last(chain)] = cur
    BY <2>1 DEF TypeOK, WalkInv
  <2>4. /\ n \in Nat /\ DOMAIN chain = 1..n /\ ToSet(chain) = {chain[i] : i \in 1..n}
        /\ (chain # <<>> => n >= 1)
    BY <2>3, SeqFacts
  <2>5. \A i \in 1..n : chain[i] \in ToSet(all)
    BY <2>1, <2>4 DEF WalkInv
  <2>6. ASSUME NEW i \in 1..(n - 1) PROVE Issued(chain[i + 1], chain[i])
    <3>1. i \in 1..n /\ i + 1 \in 1..n
      <4> HIDE DEF n
      <4> QED
        BY <2>4
    <3>2. chain[i] \in ToSet(all) /\ Parents[chain[i]] = chain[i + 1] /\ chain[i + 1] \in ToSet(all)
      BY <2>3, <2>5, <3>1
    <3> QED
      BY <2>2, <3>2, ParentIs
  <2>7. PICK s : /\ Path(s, leaf) /\ chain' = Reverse(s)
                 /\ \/ \A p \in ToSet(all) \ {Last(s)} : ~IsParent(Last(s), p)
                    \/ \E i \in 1..(Len(s) - 1) : IsParent(Last(s), s[i])
    <3>1. CASE cur \in ToSet(chain)
      <4>1. chain # <<>> /\ n \in 1..n
        BY <2>4, <3>1
      <4>2. Path(chain, leaf)
        BY <2>3, <2>6, <4>1 DEF Path
      <4>3. Last(chain) \in ToSet(all) /\ Parents[Last(chain)] = cur
        BY <2>3, <2>5, <4>1 DEF Last
      <4>4. IsParent(Last(chain), cur) /\ cur # Last(chain)
        BY <2>2, <4>3, ParentIs
      <4>5. PICK i \in 1..n : chain[i] = cur
        BY <2>4, <3>1
      <4>6. i # n
        BY <4>4, <4>5 DEF Last
      <4>7. i \in 1..(n - 1)
        <5> HIDE DEF n
        <5> QED
          BY <2>4, <4>6
      <4> QED
        BY <2>1, <3>1, <4>2, <4>4, <4>5, <4>7
    <3>2. CASE cur \notin ToSet(chain)
      <4> DEFINE s == Append(chain, cur)
      <4>1. /\ s \in Seq(Certs) /\ s # <<>> /\ Len(s) = n + 1 /\ DOMAIN s = 1..(n + 1)
            /\ s[n + 1] = cur /\ \A i \in 1..n : s[i] = chain[i]
        BY <2>2, <2>3, AppendFacts
      <4>2. \A i \in 1..n : chain[i] # cur
        BY <2>4, <3>2
      <4> HIDE DEF s, n
      <4>3. \A i \in 1..(n + 1) : i \in 1..n \/ i = n + 1
        BY <2>4
      <4>4. IsInjective(s)
        <5>1. ASSUME NEW i \in 1..(n + 1), NEW j \in 1..(n + 1), s[i] = s[j] PROVE i = j
          <6>1. CASE i \in 1..n /\ j \in 1..n
            <7>1. chain[i] = chain[j]
              BY <4>1, <5>1, <6>1
            <7> QED
              BY <2>3, <2>4, <6>1, <7>1 DEF IsInjective
          <6>2. CASE i = n + 1 \/ j = n + 1
            BY <2>4, <4>1, <4>2, <4>3, <5>1, <6>2
          <6> QED
            BY <4>3, <6>1, <6>2
        <5> QED
          BY <4>1, <5>1 DEF IsInjective
      <4>5. ASSUME NEW i \in 1..(Len(s) - 1) PROVE Issued(s[i + 1], s[i])
        <5>1. i \in 1..n
          BY <2>4, <4>1
        <5>2. CASE i = n
          <6>1. chain # <<>> /\ Parents[chain[n]] = cur /\ chain[n] \in ToSet(all)
            BY <2>3, <2>4, <2>5, <5>1, <5>2 DEF n, Last
          <6>2. Issued(cur, chain[n])
            BY <2>2, <6>1, ParentIs
          <6> QED
            BY <4>1, <5>1, <5>2, <6>2
        <5>3. CASE i # n
          <6>1. i \in 1..(n - 1) /\ i + 1 \in 1..n
            BY <2>4, <5>1, <5>3
          <6> QED
            BY <2>6, <4>1, <5>1, <6>1
        <5> QED
          BY <5>2, <5>3
      <4>6. s[1] = leaf
        <5>1. CASE chain = <<>>
          BY <2>2, <2>3, <5>1 DEF s
        <5>2. CASE chain # <<>>
          <6>1. 1 \in 1..n
            BY <2>4, <5>2
          <6> QED
            BY <2>3, <4>1, <5>2, <6>1
        <5> QED
          BY <5>1, <5>2
      <4>7. Path(s, leaf)
        BY <4>1, <4>4, <4>5, <4>6 DEF Path
      <4>8. Last(s) = cur /\ Parents[cur] = Nil /\ chain' = Reverse(s)
        BY <2>1, <3>2, <4>1 DEF Last, s
      <4>9. \A p \in ToSet(all) \ {cur} : ~IsParent(cur, p)
        BY <2>2, <4>8, ParentFacts DEF Parents
      <4> QED
        BY <4>7, <4>8, <4>9
    <3> QED
      BY <3>1, <3>2
  <2>8. /\ chain' # <<>> /\ Last(chain') = leaf /\ chain'[1] = Last(s) /\ IsInjective(chain')
        /\ \A i \in 1..(Len(chain') - 1) : Issued(chain'[i], chain'[i + 1])
        /\ \A i \in 1..(Len(s) - 1) : \E j \in DOMAIN chain' : j # 1 /\ chain'[j] = s[i]
    BY <2>7, PathReversed
  <2>9. ChainLinksIssued'
    BY <2>8 DEF ChainLinksIssued
  <2>10. \/ \A p \in ToSet(all') \ {chain'[1]} : ~IsParent(chain'[1], p)
         \/ \E i \in DOMAIN chain' : i # 1 /\ IsParent(chain'[1], chain'[i])
    BY <2>1, <2>7, <2>8
  <2>11. ChainGoesToTheTop'
    BY <2>8, <2>10 DEF ChainGoesToTheTop
  <2> QED
    BY <2>1, <2>8, <2>9, <2>11 DEF ShownInv
<1>2. CASE ShortestPath
  <2> SUFFICES ASSUME result' = "ok" PROVE ShownInv'
    BY ShownKept
  <2>1. /\ pc = "shortest" /\ UNCHANGED <<opt, all>> /\ opt.shortest /\ pc' = "done"
        /\ chain = <<>>
    BY <1>2 DEF ShortestPath, inputs, Return, StageInv
  <2>2. PICK first \in Verify(all, cur) : chain' = Reverse(first)
    BY <1>2 DEF ShortestPath, Return
  <2>3. all \in Seq(Certs) /\ cur \in Certs /\ cur = IdentifyLeaf(all)
    BY <2>1, AllIs DEF WalkInv
  <2>4. Path(first, cur)
    BY <2>2, <2>3, ChainFacts DEF Verify
  <2>5. /\ chain' # <<>> /\ Last(chain') = cur /\ IsInjective(chain')
        /\ \A i \in 1..(Len(chain') - 1) : Issued(chain'[i], chain'[i + 1])
    BY <2>2, <2>4, PathReversed
  <2>6. ChainLinksIssued'
    BY <2>5 DEF ChainLinksIssued
  <2>7. ChainGoesToTheTop'
    BY <2>1, <2>5 DEF ChainGoesToTheTop
  <2> QED
    BY <2>1, <2>3, <2>5, <2>6, <2>7 DEF ShownInv
<1>3. CASE UNCHANGED vars
  BY <1>3 DEF vars, ShownInv, Shown, ChainLinksIssued, ChainGoesToTheTop, Issued, IsInjective
<1>4. CASE ~Walk /\ ~ShortestPath /\ ~UNCHANGED vars
  <2>1. pc' # "done" \/ result' # "ok" \/ opt'.isSvid \/ opt'.format # "chain"
    BY <1>4 DEF Next, LoadFails, JudgeSvid, LoadBundle, ConvertOther, ConvertCertsToChain,
         ConvertCertsToTree, NextRoot, WriteTreeNode, TreeReturns, Return, inputs, StageInv, TypeOK
  <2> QED
    BY <2>1, ShownKept
<1> QED
  BY <1>1, <1>2, <1>3, <1>4

-----------------------------------------------------------------------------
(* The forest.                                                               *)

Forest == RootsInv /\ DrawnInv /\ StackInv /\ LinesInv /\ ChildrenInv

\* A forest that is not touched stays what it is.
LEMMA ForestKept ==
  ASSUME Forest, UNCHANGED <<all, roots, stack, visited, drawn>>
  PROVE  Forest'
<1>1. /\ Parents' = Parents /\ Orphans' = Orphans /\ Drawn' = Drawn /\ Pending' = Pending
      /\ Earlier' = Earlier
  BY DEF Parents, Orphans, Drawn, Pending, Earlier
<1>2. RootsInv' /\ DrawnInv'
  BY <1>1 DEF Forest, RootsInv, DrawnInv
<1>3. StackInv'
  BY <1>1 DEF Forest, StackInv
<1>4. LinesInv'
  BY <1>1 DEF Forest, LinesInv
<1>5. ChildrenInv'
  BY <1>1 DEF Forest, ChildrenInv
<1> QED
  BY <1>2, <1>3, <1>4, <1>5 DEF Forest

\* The forest begins with its roots.
LEMMA ForestBegins ==
  ASSUME IInv, ConvertCertsToTree, pc' = "tree"
  PROVE  Forest'
<1> USE DEF IInv
<1>1. /\ file # <<>> /\ all' = Union /\ stack' = <<>> /\ visited' = {} /\ drawn' = <<>>
      /\ roots' = IF Children(Union, Nil) = <<>> THEN <<Union[1]>> ELSE Children(Union, Nil)
  <2>1. /\ pc = "convert" /\ all' = Union
        /\ roots' = IF Children(Union, Nil) = <<>> THEN <<Union[1]>> ELSE Children(Union, Nil)
        /\ UNCHANGED <<stack, visited, drawn>>
    BY DEF ConvertCertsToTree, Return
  <2>2. file # <<>> /\ stack = <<>> /\ visited = {} /\ drawn = <<>>
    BY <2>1 DEF StageInv, Shown
  <2> QED
    BY <2>1, <2>2
<1>2. all' \in Seq(Certs) /\ IsInjective(all') /\ all' # <<>>
  BY <1>1, UnionIs
<1>3. ToSet(all') \subseteq Certs /\ Nil \notin ToSet(all') /\ all'[1] \in ToSet(all')
  <2>1. ToSet(all') \subseteq Certs /\ all'[1] \in ToSet(all')
    BY <1>2, SeqFacts
  <2> QED
    BY <2>1, FilesHoldCerts
<1> DEFINE orphans == Children(all', Nil)
<1>4. orphans \in Seq(Certs) /\ IsInjective(orphans) /\ ToSet(orphans) = Orphans'
  BY <1>2, ChildrenFacts DEF Orphans, Parents
<1>5. Drawn' = {} /\ Pending' = {} /\ Earlier' = {}
  BY <1>1 DEF Drawn, Pending, Earlier
<1>6. orphans = <<>> <=> Orphans' = {}
  BY <1>4, SeqFacts
<1>7. RootsInv'
  <2>1. CASE Orphans' # {}
    <3>1. roots' = orphans
      BY <1>1, <1>6, <2>1
    <3>2. Orphans' \subseteq ToSet(all')
      BY DEF Orphans
    <3> QED
      BY <1>4, <1>5, <2>1, <3>1, <3>2 DEF RootsInv
  <2>2. CASE Orphans' = {}
    <3>1. roots' = <<all'[1]>>
      BY <1>1, <1>6, <2>2
    <3>2. Len(roots') = 1 /\ IsInjective(roots') /\ ToSet(roots') = {all'[1]}
      BY <3>1 DEF IsInjective, ToSet
    <3> QED
      BY <1>1, <1>3, <2>2, <3>2 DEF RootsInv
  <2> QED
    BY <2>1, <2>2
<1>8. DrawnInv' /\ StackInv' /\ LinesInv' /\ ChildrenInv'
  BY <1>1, <1>5 DEF DrawnInv, StackInv, LinesInv, ChildrenInv
<1> QED
  BY <1>7, <1>8 DEF Forest

\* The next root starts with nothing visited: what is drawn is earlier trees.
LEMMA NextRootForest ==
  ASSUME IInv, Forest, NextRoot
  PROVE  Forest'
<1> USE DEF IInv
<1> DEFINE c == Head(roots)
<1>1. /\ pc = "tree" /\ stack = <<>> /\ roots # <<>>
      /\ stack' = << <<c, 0>> >> /\ roots' = Tail(roots) /\ visited' = {}
      /\ all' = all /\ drawn' = drawn
  BY DEF NextRoot
<1>2. Parents' = Parents /\ Orphans' = Orphans /\ Drawn' = Drawn /\ Earlier' = Drawn
  BY <1>1 DEF Parents, Orphans, Drawn, Earlier
<1>3. Pending = {} /\ Pending' = {c}
  BY <1>1 DEF Pending
<1>4. roots \in Seq(Certs) /\ IsInjective(roots)
  BY DEF TypeOK, Forest, RootsInv
<1>5. /\ ToSet(roots) = {c} \cup ToSet(roots') /\ c \notin ToSet(roots') /\ IsInjective(roots')
      /\ Len(roots) = 1 => roots' = <<>>
  <2>1. /\ Len(Tail(roots)) = Len(roots) - 1 /\ Tail(roots) \in Seq(Certs)
        /\ ToSet(roots) = {Head(roots)} \cup ToSet(Tail(roots))
        /\ IsInjective(Tail(roots)) /\ Head(roots) \notin ToSet(Tail(roots))
    BY <1>1, <1>4, TailFacts
  <2>2. Len(roots) = 1 => Tail(roots) = <<>>
    BY <2>1, SeqFacts
  <2> QED
    BY <1>1, <2>1, <2>2
<1>6. c \in ToSet(all) /\ c \notin Drawn /\ (Orphans # {} => Parents[c] = Nil)
  <2>1. CASE Orphans # {}
    BY <1>5, <2>1 DEF Forest, RootsInv, Orphans
  <2>2. CASE Orphans = {}
    <3>1. Drawn = {}
      BY <1>1, <2>2 DEF Forest, RootsInv, Drawn
    <3> QED
      BY <1>5, <2>2, <3>1 DEF Forest, RootsInv
  <2> QED
    BY <2>1, <2>2
<1> HIDE DEF c
<1>7. RootsInv'
  BY <1>1, <1>2, <1>3, <1>5 DEF Forest, RootsInv
<1>8. DrawnInv'
  <2>1. Orphans = {} => Drawn = {}
    BY <1>1 DEF Forest, RootsInv, Drawn
  <2>2. Orphans # {} => \A x \in Drawn : Parents[x] = Nil \/ Parents[x] \in Drawn
    BY DEF Forest, DrawnInv, Earlier
  <2> QED
    BY <1>1, <1>2, <2>1, <2>2 DEF Forest, DrawnInv
<1>9. StackInv'
  <2>1. DOMAIN stack' = {1} /\ Len(stack') = 1 /\ stack'[1] = <<c, 0>>
    BY <1>1
  <2> QED
    BY <1>1, <1>2, <1>6, <2>1 DEF StackInv
<1>10. LinesInv'
  <2>1. DOMAIN stack' = {1} /\ stack'[1][2] = 0
    BY <1>1
  <2> QED
    BY <1>1, <1>2, <2>1 DEF Forest, LinesInv
<1>11. ChildrenInv'
  BY <1>1, <1>2, <1>3 DEF Forest, ChildrenInv
<1> QED
  BY <1>7, <1>8, <1>9, <1>10, <1>11 DEF Forest

\* What the head of the stack is, and what is left below it.
LEMMA HeadOfStack ==
  ASSUME IInv, Forest, WriteTreeNode
  PROVE  /\ all \in Seq(Certs) /\ IsInjective(all) /\ Nil \notin ToSet(all)
         /\ Len(stack) \in Nat /\ DOMAIN stack = 1..Len(stack)
         /\ 1 \in DOMAIN stack /\ Head(stack) = stack[1]
         /\ stack[1][1] \in ToSet(all) /\ stack[1][2] \in Nat
         /\ \A i \in DOMAIN stack : stack[i][2] \in Nat
         /\ DOMAIN Tail(stack) = 1..(Len(stack) - 1) /\ Len(Tail(stack)) = Len(stack) - 1
         /\ Tail(stack) \in Seq(Certs \X Nat)
         /\ \A i \in 1..(Len(stack) - 1) :
              i + 1 \in 2..Len(stack) /\ i + 1 \in DOMAIN stack /\ Tail(stack)[i] = stack[i + 1]
         /\ \A k \in 2..Len(stack) :
              /\ k \in DOMAIN stack /\ k - 1 \in 1..(Len(stack) - 1)
              /\ Tail(stack)[k - 1] = stack[k]
              /\ stack[k][2] \in Nat /\ stack[k][2] <= stack[1][2] /\ stack[k][2] > 0
         /\ roots = <<>> \/ Orphans # {}
<1> USE DEF IInv
<1> DEFINE Line == Certs \X Nat
           n == Len(stack)
<1>1. pc = "tree" /\ stack # <<>> /\ stack \in Seq(Line)
  BY DEF WriteTreeNode, TypeOK
<1>2. all \in Seq(Certs) /\ IsInjective(all) /\ Nil \notin ToSet(all)
  BY <1>1, AllIs
<1>3. n \in Nat /\ n >= 1 /\ DOMAIN stack = 1..n /\ \A i \in 1..n : stack[i] \in Line
  <2> HIDE DEF Line
  <2> QED
    BY <1>1, SeqFacts
<1>4. \A i \in 1..n : stack[i][2] \in Nat
  BY <1>3
<1>5. /\ Head(stack) = stack[1] /\ Tail(stack) \in Seq(Line)
      /\ DOMAIN Tail(stack) = 1..(n - 1) /\ Len(Tail(stack)) = n - 1
      /\ \A i \in 1..(n - 1) : Tail(stack)[i] = stack[i + 1]
  <2> HIDE DEF Line
  <2> QED
    BY <1>1, TailFacts
<1> HIDE DEF n
<1>6. stack[1][1] \in ToSet(all) /\ 1 \in 1..n
  BY <1>3 DEF Forest, StackInv
<1>7. \A i \in 1..(n - 1) : i + 1 \in 2..n /\ i + 1 \in 1..n
  BY <1>3
<1>8. ASSUME NEW k \in 2..n
      PROVE  /\ k \in 1..n /\ k - 1 \in 1..(n - 1) /\ Tail(stack)[k - 1] = stack[k]
             /\ stack[k][2] \in Nat /\ stack[k][2] <= stack[1][2] /\ stack[k][2] > 0
  <2>1. k \in 1..n /\ k - 1 \in 1..(n - 1) /\ (k - 1) + 1 = k /\ n # 1 /\ 1 < k
    BY <1>3
  <2>2. stack[1][2] >= stack[k][2]
    BY <1>3, <1>6, <2>1 DEF Forest, StackInv
  <2>3. stack[k][2] # 0
    BY <1>3, <2>1 DEF Forest, StackInv, n
  <2> QED
    BY <1>4, <1>5, <1>6, <2>1, <2>2, <2>3
<1>9. roots = <<>> \/ Orphans # {}
  BY <1>1 DEF Forest, RootsInv
<1> QED
  BY <1>2, <1>3, <1>4, <1>5, <1>6, <1>7, <1>8, <1>9 DEF n

\* A node already drawn in this tree is left out.
LEMMA SkipForest ==
  ASSUME IInv, Forest, WriteTreeNode, Head(stack)[1] \in visited
  PROVE  Forest'
<1> DEFINE n == Len(stack)
           c == stack[1][1]
<1>1. /\ stack' = Tail(stack) /\ c \in visited
      /\ UNCHANGED <<all, roots, visited, drawn>>
  BY HeadOfStack DEF WriteTreeNode
<1>2. /\ n \in Nat /\ DOMAIN stack = 1..n /\ DOMAIN stack' = 1..(n - 1)
      /\ \A i \in 1..(n - 1) : i + 1 \in DOMAIN stack /\ stack'[i] = stack[i + 1]
      /\ \A k \in 2..n : k - 1 \in 1..(n - 1) /\ stack'[k - 1] = stack[k] /\ stack[k][2] > 0
      /\ \A k \in DOMAIN stack : stack[k][2] \in Nat
  BY <1>1, HeadOfStack
<1> HIDE DEF n
<1>3. Parents' = Parents /\ Orphans' = Orphans /\ Drawn' = Drawn /\ Earlier' = Earlier
  BY <1>1 DEF Parents, Orphans, Drawn, Earlier
<1>4. Pending' \subseteq Pending /\ Pending \subseteq Pending' \cup {c}
  <2>1. Pending' = {stack'[i][1] : i \in 1..(n - 1)} /\ Pending = {stack[i][1] : i \in 1..n}
    BY <1>2 DEF Pending
  <2>2. \A k \in 1..n : k = 1 \/ k \in 2..n
    BY <1>2
  <2>3. ASSUME NEW k \in 1..n PROVE stack[k][1] \in Pending' \cup {c}
    BY <1>2, <2>1, <2>2
  <2>4. ASSUME NEW i \in 1..(n - 1) PROVE stack'[i][1] \in Pending
    BY <1>2, <2>1
  <2> QED
    BY <2>1, <2>3, <2>4
<1>5. c \in Drawn
  BY <1>1 DEF Forest, DrawnInv
<1>6. RootsInv'
  <2>1. roots = <<>> \/ Orphans # {}
    BY HeadOfStack
  <2> QED
    BY <1>1, <1>3, <1>4, <1>5, <2>1 DEF Forest, RootsInv
<1>7. DrawnInv'
  BY <1>1, <1>3 DEF Forest, DrawnInv
<1>8. StackInv'
  <2>1. ASSUME NEW i \in DOMAIN stack'
        PROVE  /\ stack'[i][1] \in ToSet(all) /\ stack'[i][2] # 0
               /\ stack'[i][2] > 0 => Parents[stack'[i][1]] \in visited
    <3>1. i + 1 \in 2..n /\ i + 1 \in DOMAIN stack /\ stack'[i] = stack[i + 1]
      BY <1>2
    <3> QED
      BY <1>2, <3>1 DEF Forest, StackInv
  <2>2. ASSUME NEW i \in DOMAIN stack', NEW j \in DOMAIN stack', i < j
        PROVE  stack'[i][2] >= stack'[j][2]
    <3>1. i + 1 \in DOMAIN stack /\ j + 1 \in DOMAIN stack /\ i + 1 < j + 1
      BY <1>2, <2>2
    <3>2. stack[i + 1][2] >= stack[j + 1][2]
      BY <3>1 DEF Forest, StackInv
    <3>3. stack'[i] = stack[i + 1] /\ stack'[j] = stack[j + 1]
      BY <1>2
    <3> QED
      BY <3>2, <3>3
  <2> QED
    BY <1>1, <1>3, <2>1, <2>2 DEF StackInv
<1>9. LinesInv'
  <2>1. ASSUME NEW i \in DOMAIN stack', stack'[i][2] > 0
        PROVE  \E j \in DOMAIN drawn : Under(drawn, Parents, j, Len(drawn), stack'[i][1], stack'[i][2])
    BY <1>2, <2>1 DEF Forest, LinesInv
  <2> QED
    BY <1>1, <1>3, <2>1 DEF Forest, LinesInv
<1>10. ChildrenInv'
  BY <1>1, <1>3, <1>4, <1>5 DEF Forest, ChildrenInv
<1> QED
  BY <1>6, <1>7, <1>8, <1>9, <1>10 DEF Forest

\* A node met for the first time in this tree was drawn in no tree before.
LEMMA NotDrawnBefore ==
  ASSUME IInv, Forest, WriteTreeNode, Head(stack)[1] \notin visited
  PROVE  /\ Head(stack)[1] \notin Drawn
         /\ Orphans # {} => \/ Parents[Head(stack)[1]] = Nil
                            \/ Parents[Head(stack)[1]] \in visited
<1> DEFINE c == stack[1][1]
           d == stack[1][2]
<1>1. Head(stack) = stack[1] /\ 1 \in DOMAIN stack /\ d \in Nat /\ Nil \notin ToSet(all)
  BY HeadOfStack
<1>2. CASE d = 0
  BY <1>1, <1>2 DEF Forest, StackInv
<1>3. CASE d > 0
  <2>1. Parents[c] \in visited
    BY <1>1, <1>3 DEF Forest, StackInv
  <2>2. Parents[c] # Nil /\ Parents[c] \notin Earlier
    BY <1>1, <2>1 DEF Forest, DrawnInv, Earlier
  <2>3. c \notin Earlier
    BY <2>2 DEF Forest, DrawnInv
  <2> QED
    BY <1>1, <2>1, <2>3 DEF Earlier
<1> QED
  BY <1>1, <1>2, <1>3

\* The stack has become m children of its head, a level deeper, above what was
\* below the head.
Grown(m) ==
  /\ DOMAIN stack' = 1..(m + (Len(stack) - 1))
  /\ \A i \in 1..m : /\ stack'[i][1] \in ToSet(all)
                     /\ Parents[stack'[i][1]] = stack[1][1]
                     /\ stack'[i][2] = stack[1][2] + 1
  /\ \A k \in 2..Len(stack) : /\ m + (k - 1) \in DOMAIN stack'
                              /\ stack'[m + (k - 1)] = stack[k]
  /\ \A x \in ToSet(all) : Parents[x] = stack[1][1] => \E i \in 1..m : stack'[i][1] = x

\* That is what drawing the head does to it, with all of the head's children.
LEMMA StackGrows ==
  ASSUME IInv, Forest, WriteTreeNode, Head(stack)[1] \notin visited
  PROVE  \E m \in Nat : Grown(m)
<1> USE DEF IInv
<1> DEFINE n == Len(stack)
           c == stack[1][1]
           d == stack[1][2]
           below == Children(all, c)
           m == Len(below)
           pending == [i \in DOMAIN below |-> <<below[i], d + 1>>]
           Line == Certs \X Nat
<1>1. /\ all \in Seq(Certs) /\ IsInjective(all) /\ n \in Nat /\ d \in Nat
      /\ 1 \in 1..n /\ Head(stack) = stack[1]
      /\ Tail(stack) \in Seq(Line) /\ Len(Tail(stack)) = n - 1
      /\ \A k \in 2..n : k - 1 \in 1..(n - 1) /\ Tail(stack)[k - 1] = stack[k]
  BY HeadOfStack
<1>2. below \in Seq(Certs) /\ ToSet(below) = {x \in ToSet(all) : Parents[x] = c}
  BY <1>1, ChildrenFacts DEF Parents
<1>3. stack' = pending \o Tail(stack)
  BY <1>1 DEF WriteTreeNode
<1> HIDE DEF c, d, below, n
<1>4. /\ m \in Nat /\ DOMAIN below = 1..m /\ ToSet(below) = {below[i] : i \in 1..m}
      /\ \A i \in 1..m : below[i] \in Certs /\ below[i] \in ToSet(below)
  BY <1>2, SeqFacts
<1>5. pending \in Seq(Line) /\ Len(pending) = m
  <2>1. pending = [i \in 1..m |-> <<below[i], d + 1>>]
    BY <1>4
  <2>2. \A i \in 1..m : <<below[i], d + 1>> \in Line
    <3>1. d + 1 \in Nat
      BY <1>1
    <3>2. \A x \in Certs : <<x, d + 1>> \in Certs \X Nat
      BY <3>1
    <3> QED
      BY <1>4, <3>2
  <2> HIDE DEF pending, Line, m
  <2>3. pending \in [1..m -> Line]
    BY <2>1, <2>2
  <2> QED
    BY <1>4, <2>3
<1>6. \A i \in 1..m : pending[i] = <<below[i], d + 1>>
  BY <1>4
<1> HIDE DEF pending, Line, m
<1>7. /\ DOMAIN stack' = 1..(m + (n - 1))
      /\ \A i \in 1..m : stack'[i] = pending[i]
      /\ \A k \in 1..(n - 1) : stack'[m + k] = Tail(stack)[k]
  <2>1. /\ DOMAIN stack' = 1..(Len(pending) + Len(Tail(stack)))
        /\ \A i \in 1..Len(pending) : stack'[i] = pending[i]
        /\ \A k \in 1..Len(Tail(stack)) : stack'[Len(pending) + k] = Tail(stack)[k]
    <3> DEFINE t == Tail(stack)
    <3>1. t \in Seq(Line)
      BY <1>1
    <3> HIDE DEF t
    <3>2. pending \in Seq(Line)
      BY <1>5
    <3>3. DOMAIN (pending \o t) = 1..(Len(pending) + Len(t))
      BY <3>1, <3>2, ConcatFacts
    <3>4. \A i \in 1..Len(pending) : (pending \o t)[i] = pending[i]
      BY <3>1, <3>2, ConcatFacts
    <3>5. \A k \in 1..Len(t) : (pending \o t)[Len(pending) + k] = t[k]
      BY <3>1, <3>2, ConcatFacts
    <3> QED
      BY <1>3, <3>3, <3>4, <3>5 DEF t
  <2> QED
    BY <1>1, <1>5, <2>1
<1>8. \A i \in 1..m : /\ stack'[i][1] \in ToSet(all) /\ Parents[stack'[i][1]] = c
                      /\ stack'[i][2] = d + 1
  BY <1>2, <1>4, <1>6, <1>7
<1>9. \A k \in 2..n : m + (k - 1) \in DOMAIN stack' /\ stack'[m + (k - 1)] = stack[k]
  <2> TAKE k \in 2..n
  <2>1. k - 1 \in 1..(n - 1) /\ m + (k - 1) \in 1..(m + (n - 1))
    BY <1>1, <1>4
  <2> QED
    BY <1>1, <1>7, <2>1
<1>10. ASSUME NEW x \in ToSet(all), Parents[x] = c PROVE \E i \in 1..m : stack'[i][1] = x
  <2>1. PICK i \in 1..m : below[i] = x
    BY <1>2, <1>4, <1>10
  <2> QED
    BY <1>6, <1>7, <2>1
<1>11. Grown(m)
  BY <1>7, <1>8, <1>9, <1>10 DEF Grown, c, d, n
<1> QED
  BY <1>4, <1>11

\* A node met for the first time gets its line.
LEMMA DrawForest ==
  ASSUME IInv, Forest, WriteTreeNode, Head(stack)[1] \notin visited
  PROVE  Forest'
<1> USE DEF IInv
<1> DEFINE n == Len(stack)
           c == stack[1][1]
           d == stack[1][2]
           l == Len(drawn)
<1>1. /\ all \in Seq(Certs) /\ Nil \notin ToSet(all) /\ n \in Nat /\ d \in Nat
      /\ DOMAIN stack = 1..n /\ 1 \in DOMAIN stack /\ Head(stack) = stack[1] /\ c \in ToSet(all)
      /\ \A k \in 2..n : k \in DOMAIN stack /\ stack[k][2] \in Nat /\ stack[k][2] <= d /\ stack[k][2] > 0
      /\ \A k \in DOMAIN stack : stack[k][2] \in Nat
      /\ roots = <<>> \/ Orphans # {}
  BY HeadOfStack
<1>2. /\ visited' = visited \cup {c} /\ drawn' = Append(drawn, <<c, d>>)
      /\ UNCHANGED <<all, roots>> /\ c \notin visited
  BY <1>1 DEF WriteTreeNode
<1>3. c \notin Drawn /\ (Orphans # {} => Parents[c] = Nil \/ Parents[c] \in visited)
  BY <1>1, NotDrawnBefore
<1>4. PICK m \in Nat : Grown(m)
  BY StackGrows
<1>5. /\ l \in Nat /\ DOMAIN drawn = 1..l /\ DOMAIN drawn' = 1..(l + 1) /\ Len(drawn') = l + 1
      /\ drawn'[l + 1] = <<c, d>> /\ \A i \in 1..l : drawn'[i] = drawn[i]
      /\ \A i \in 1..(l + 1) : i \in 1..l \/ i = l + 1
  <2> DEFINE Line == Certs \X Nat
  <2>1. drawn \in Seq(Line) /\ <<c, d>> \in Line
    <3>1. c \in Certs
      BY <1>1, SeqFacts
    <3> QED
      BY <1>1, <3>1 DEF TypeOK
  <2> HIDE DEF Line
  <2> QED
    BY <1>2, <2>1, SeqFacts, AppendFacts
<1>6. Parents' = Parents /\ Orphans' = Orphans
  BY <1>2 DEF Parents, Orphans
<1>7. Drawn' = Drawn \cup {c}
  <2>1. Drawn = {drawn[i][1] : i \in 1..l} /\ Drawn' = {drawn'[i][1] : i \in 1..(l + 1)}
    BY <1>5 DEF Drawn
  <2>2. \A i \in 1..l : i \in 1..(l + 1) /\ drawn'[i][1] = drawn[i][1]
    BY <1>5
  <2>3. l + 1 \in 1..(l + 1) /\ drawn'[l + 1][1] = c
    BY <1>5
  <2> HIDE DEF l, c, d
  <2>4. Drawn \subseteq Drawn' /\ c \in Drawn'
    BY <2>1, <2>2, <2>3
  <2>5. \A i \in 1..(l + 1) : drawn'[i][1] \in Drawn \cup {c}
    BY <1>5, <2>1, <2>2, <2>3
  <2> QED
    BY <2>1, <2>4, <2>5
<1> HIDE DEF n, c, d, l
<1>8. /\ DOMAIN stack' = 1..(m + (n - 1))
      /\ \A i \in 1..m : stack'[i][1] \in ToSet(all) /\ Parents[stack'[i][1]] = c /\ stack'[i][2] = d + 1
      /\ \A k \in 2..n : m + (k - 1) \in DOMAIN stack' /\ stack'[m + (k - 1)] = stack[k]
      /\ \A x \in ToSet(all) : Parents[x] = c => \E i \in 1..m : stack'[i][1] = x
  BY <1>4 DEF Grown, n, c, d
\* Each pending node is a child of the head, or was pending below it.
<1>9. ASSUME NEW i \in DOMAIN stack'
      PROVE  i \in 1..m \/ \E k \in 2..n : i = m + (k - 1) /\ stack'[i] = stack[k]
  <2>1. i \in 1..m \/ (i - m) + 1 \in 2..n
    BY <1>1, <1>8
  <2>2. i = m + (((i - m) + 1) - 1)
    BY <1>8
  <2> QED
    BY <1>8, <2>1, <2>2
<1>10. Pending \subseteq Pending' \cup {c}
  <2>1. \A k \in 1..n : k = 1 \/ k \in 2..n
    BY <1>1
  <2>2. ASSUME NEW k \in 1..n PROVE stack[k][1] \in Pending' \cup {c}
    <3>1. k \in 2..n => stack[k][1] \in Pending'
      BY <1>8 DEF Pending
    <3> QED
      BY <2>1, <3>1 DEF c
  <2> QED
    BY <1>1, <2>2 DEF Pending
<1>11. Pending' \subseteq Pending \cup {x \in ToSet(all) : Parents[x] = c}
  <2>1. ASSUME NEW i \in DOMAIN stack'
        PROVE  stack'[i][1] \in Pending \cup {x \in ToSet(all) : Parents[x] = c}
    <3>1. CASE i \in 1..m
      BY <1>8, <3>1
    <3>2. CASE \E k \in 2..n : i = m + (k - 1) /\ stack'[i] = stack[k]
      BY <1>1, <3>2 DEF Pending
    <3> QED
      BY <1>9, <3>1, <3>2
  <2> QED
    BY <2>1 DEF Pending
<1>12. {x \in ToSet(all) : Parents[x] = c} \subseteq Pending'
  <2>1. \A i \in 1..m : i \in DOMAIN stack'
    BY <1>1, <1>8
  <2> QED
    BY <1>8, <2>1 DEF Pending
<1>13. RootsInv'
  <2>1. CASE Orphans # {}
    <3>1. c \in Pending
      BY <1>1 DEF Pending, c
    <3>2. ToSet(roots) \subseteq Orphans \ (Drawn' \cup Pending')
      BY <1>1, <1>7, <1>11, <2>1, <3>1 DEF Forest, RootsInv, Orphans
    <3>3. Orphans \subseteq ToSet(roots) \cup Drawn' \cup Pending'
      BY <1>7, <1>10, <2>1 DEF Forest, RootsInv
    <3> QED
      BY <1>2, <1>6, <2>1, <3>2, <3>3 DEF Forest, RootsInv
  <2>2. CASE Orphans = {}
    BY <1>1, <1>2, <1>6, <2>2 DEF Forest, RootsInv
  <2> QED
    BY <2>1, <2>2
<1>14. DrawnInv'
  <2>1. Earlier' = Earlier
    BY <1>2, <1>3, <1>7 DEF Earlier
  <2>2. visited' \subseteq Drawn' /\ Drawn' \subseteq ToSet(all)
    BY <1>1, <1>2, <1>7 DEF Forest, DrawnInv
  <2>3. Orphans # {} => \A x \in visited' : Parents[x] = Nil \/ Parents[x] \in visited'
    BY <1>2, <1>3 DEF Forest, DrawnInv
  <2> QED
    BY <1>2, <1>6, <2>1, <2>2, <2>3 DEF Forest, DrawnInv
<1>15. StackInv'
  <2>1. ASSUME NEW i \in DOMAIN stack'
        PROVE  /\ stack'[i][1] \in ToSet(all) /\ stack'[i][2] # 0
               /\ Parents[stack'[i][1]] \in visited'
    <3>1. CASE i \in 1..m
      BY <1>1, <1>2, <1>8, <3>1
    <3>2. CASE \E k \in 2..n : i = m + (k - 1) /\ stack'[i] = stack[k]
      BY <1>1, <1>2, <3>2 DEF Forest, StackInv
    <3> QED
      BY <1>9, <3>1, <3>2
  <2>2. ASSUME NEW i \in DOMAIN stack', NEW j \in DOMAIN stack', i < j
        PROVE  stack'[i][2] >= stack'[j][2]
    <3>1. CASE i \in 1..m /\ j \in 1..m
      BY <1>1, <1>8, <3>1
    <3>2. CASE i \in 1..m /\ \E k \in 2..n : j = m + (k - 1) /\ stack'[j] = stack[k]
      BY <1>1, <1>8, <3>2
    <3>3. CASE /\ \E k \in 2..n : i = m + (k - 1) /\ stack'[i] = stack[k]
               /\ j \in 1..m
      BY <2>2, <3>3
    <3>4. CASE /\ \E k \in 2..n : i = m + (k - 1) /\ stack'[i] = stack[k]
               /\ \E k \in 2..n : j = m + (k - 1) /\ stack'[j] = stack[k]
      <4>1. PICK k \in 2..n : i = m + (k - 1) /\ stack'[i] = stack[k]
        BY <3>4
      <4>2. PICK q \in 2..n : j = m + (q - 1) /\ stack'[j] = stack[q]
        BY <3>4
      <4>3. k < q
        BY <2>2, <4>1, <4>2
      <4> QED
        BY <1>1, <4>1, <4>2, <4>3 DEF Forest, StackInv
    <3> QED
      BY <1>9, <3>1, <3>2, <3>3, <3>4
  <2> QED
    BY <1>2, <1>6, <2>1, <2>2 DEF StackInv
<1>16. LinesInv'
  <2>1. ASSUME NEW i \in 1..(l + 1), NEW j \in 1..(l + 1), drawn'[i][1] = drawn'[j][1]
        PROVE  i = j
    <3>1. \A k \in 1..l : drawn'[k][1] # c
      BY <1>3, <1>5 DEF Drawn
    <3>2. drawn'[l + 1][1] = c
      BY <1>5
    <3>3. CASE i \in 1..l /\ j \in 1..l
      BY <1>5, <2>1, <3>3 DEF Forest, LinesInv
    <3> QED
      BY <1>5, <2>1, <3>1, <3>2, <3>3
  \* What stood above still does, with the new line between, if it is no higher.
  <2>2. ASSUME NEW j \in 1..l, NEW n0 \in Nat, n0 <= l, NEW x, NEW e,
               Under(drawn, Parents, j, n0, x, e)
        PROVE  Under(drawn', Parents, j, n0, x, e)
    BY <1>5, <2>2 DEF Under
  <2>3. ASSUME NEW j \in 1..l, NEW x, NEW e, e <= d, Under(drawn, Parents, j, l, x, e)
        PROVE  Under(drawn', Parents, j, l + 1, x, e)
    <3>1. \A k \in (j + 1)..(l + 1) : k \in (j + 1)..l \/ k = l + 1
      BY <1>5
    <3>2. \A k \in (j + 1)..l : k \in 1..l
      BY <1>5
    <3>3. drawn'[j] = <<Parents[x], e - 1>>
      BY <1>5, <2>3 DEF Under
    <3>4. ASSUME NEW k \in (j + 1)..(l + 1) PROVE drawn'[k][2] >= e
      <4>1. CASE k = l + 1
        BY <1>5, <2>3, <4>1
      <4>2. CASE k \in (j + 1)..l
        BY <1>5, <2>3, <3>2, <4>2 DEF Under
      <4> QED
        BY <3>1, <4>1, <4>2
    <3> QED
      BY <3>3, <3>4 DEF Under
  <2>4. d > 0 => \E j \in 1..l : Under(drawn, Parents, j, l, c, d)
    BY <1>1, <1>5 DEF Forest, LinesInv, l, c, d
  <2>5. d > 0 => Parents[c] # Nil
    <3>1. d > 0 => Parents[c] \in visited
      BY <1>1 DEF Forest, StackInv, c, d
    <3>2. visited \subseteq ToSet(all)
      BY DEF Forest, DrawnInv
    <3> QED
      BY <1>1, <3>1, <3>2
  <2>6. ASSUME NEW i \in 1..(l + 1), drawn'[i][2] > 0
        PROVE  /\ Parents[drawn'[i][1]] # Nil
               /\ \E j \in 1..(i - 1) :
                    Under(drawn', Parents, j, i - 1, drawn'[i][1], drawn'[i][2])
    <3>1. CASE i \in 1..l
      <4>1. drawn'[i] = drawn[i] /\ i - 1 \in Nat /\ i - 1 <= l /\ i \in DOMAIN drawn
            /\ \A j \in 1..(i - 1) : j \in 1..l
        BY <1>5, <3>1
      <4>2. Parents[drawn[i][1]] # Nil
        BY <2>6, <4>1 DEF Forest, LinesInv
      <4>3. PICK j \in 1..(i - 1) : Under(drawn, Parents, j, i - 1, drawn[i][1], drawn[i][2])
        BY <2>6, <4>1 DEF Forest, LinesInv
      <4>4. Under(drawn', Parents, j, i - 1, drawn[i][1], drawn[i][2])
        BY <2>2, <4>1, <4>3
      <4> QED
        BY <4>1, <4>2, <4>4
    <3>2. CASE i = l + 1
      <4>1. drawn'[i][1] = c /\ drawn'[i][2] = d /\ i - 1 = l
        BY <1>5, <3>2
      <4>2. PICK j \in 1..l : Under(drawn, Parents, j, l, c, d)
        BY <2>4, <2>6, <4>1
      <4>3. Under(drawn', Parents, j, l, c, d)
        BY <1>5, <2>2, <4>2
      <4> QED
        BY <2>5, <2>6, <4>1, <4>3
    <3> QED
      BY <1>5, <3>1, <3>2
  <2>7. ASSUME NEW i \in DOMAIN stack', stack'[i][2] > 0
        PROVE  \E j \in 1..(l + 1) :
                 Under(drawn', Parents, j, l + 1, stack'[i][1], stack'[i][2])
    <3>1. CASE i \in 1..m
      <4>1. Parents[stack'[i][1]] = c /\ stack'[i][2] - 1 = d
        BY <1>1, <1>8, <3>1
      <4>2. (l + 1) + 1 > l + 1 /\ l + 1 \in 1..(l + 1)
        BY <1>5
      <4>3. Under(drawn', Parents, l + 1, l + 1, stack'[i][1], stack'[i][2])
        BY <1>5, <4>1, <4>2 DEF Under
      <4> QED
        BY <4>2, <4>3
    <3>2. CASE \E k \in 2..n : i = m + (k - 1) /\ stack'[i] = stack[k]
      <4>1. PICK k \in 2..n : stack'[i] = stack[k]
        BY <3>2
      <4>2. PICK j \in 1..l : Under(drawn, Parents, j, l, stack[k][1], stack[k][2])
        BY <1>1, <1>5, <4>1 DEF Forest, LinesInv, l
      <4>3. Under(drawn', Parents, j, l + 1, stack[k][1], stack[k][2])
        BY <1>1, <2>3, <4>2
      <4>4. j \in 1..(l + 1)
        BY <1>5
      <4> QED
        BY <4>1, <4>3, <4>4
    <3> QED
      BY <1>9, <3>1, <3>2
  <2> QED
    BY <1>5, <1>6, <2>1, <2>6, <2>7 DEF LinesInv
<1>17. ChildrenInv'
  BY <1>2, <1>6, <1>7, <1>10, <1>12 DEF Forest, ChildrenInv
<1> QED
  BY <1>13, <1>14, <1>15, <1>16, <1>17 DEF Forest

\* Every step keeps the forest.
LEMMA ForestStep ==
  ASSUME IInv, [Next]_vars
  PROVE  ForestInv'
<1> USE DEF IInv
<1>1. ASSUME Forest', Shown("tree")' => roots' = <<>> /\ stack' = <<>>
      PROVE  ForestInv'
  BY <1>1 DEF Forest, ForestInv
<1>2. ASSUME pc' # "tree", ~Shown("tree")' PROVE ForestInv'
  BY <1>2 DEF ForestInv
<1>3. CASE ConvertCertsToTree
  <2>1. CASE pc' = "tree"
    <3>1. ~Shown("tree")'
      BY <2>1 DEF Shown
    <3> QED
      BY <1>1, <1>3, <2>1, <3>1, ForestBegins
  <2>2. CASE pc' # "tree"
    <3>1. result' = "error"
      BY <1>3, <2>2 DEF ConvertCertsToTree, Return
    <3>2. ~Shown("tree")'
      BY <3>1 DEF Shown
    <3> QED
      BY <1>2, <2>2, <3>2
  <2> QED
    BY <2>1, <2>2
<1>4. CASE NextRoot
  <2>1. pc = "tree" /\ pc' = pc
    BY <1>4 DEF NextRoot
  <2>2. ~Shown("tree")' /\ Forest
    BY <2>1 DEF Shown, ForestInv, Forest
  <2> QED
    BY <1>1, <1>4, <2>2, NextRootForest
<1>5. CASE WriteTreeNode
  <2>1. pc = "tree" /\ pc' = pc
    BY <1>5 DEF WriteTreeNode
  <2>2. ~Shown("tree")' /\ Forest
    BY <2>1 DEF Shown, ForestInv, Forest
  <2>3. Forest'
    BY <1>5, <2>2, SkipForest, DrawForest
  <2> QED
    BY <1>1, <2>2, <2>3
<1>6. CASE TreeReturns
  <2>1. /\ pc = "tree" /\ roots = <<>> /\ stack = <<>>
        /\ UNCHANGED <<all, roots, stack, visited, drawn>>
    BY <1>6 DEF TreeReturns, forest
  <2>2. Forest'
    BY <2>1, ForestKept DEF ForestInv, Forest
  <2> QED
    BY <1>1, <2>1, <2>2
<1>7. CASE UNCHANGED vars
  <2>1. UNCHANGED <<opt, pc, result, all, roots, stack, visited, drawn>>
    BY <1>7 DEF vars
  <2>2. CASE pc = "tree" \/ Shown("tree")
    <3>1. Forest' /\ (Shown("tree")' => roots' = <<>> /\ stack' = <<>>)
      BY <2>1, <2>2, ForestKept DEF ForestInv, Forest, Shown
    <3> QED
      BY <1>1, <3>1
  <2>3. CASE pc # "tree" /\ ~Shown("tree")
    BY <1>2, <2>1, <2>3 DEF Shown
  <2> QED
    BY <2>2, <2>3
<1>8. CASE LoadFails \/ JudgeSvid \/ LoadBundle
  <2>1. pc' # "tree" /\ ~Shown("tree")'
    BY <1>8 DEF LoadFails, JudgeSvid, LoadBundle, Return, Shown, inputs, TypeOK
  <2> QED
    BY <1>2, <2>1
<1>9. CASE ConvertOther \/ ConvertCertsToChain \/ Walk \/ ShortestPath
  <2>1. pc' # "tree" /\ opt' = opt /\ opt.format # "tree"
    BY <1>9 DEF ConvertOther, ConvertCertsToChain, Walk, ShortestPath, Return, inputs, StageInv
  <2>2. ~Shown("tree")'
    BY <2>1 DEF Shown
  <2> QED
    BY <1>2, <2>1, <2>2
<1> QED
  BY <1>3, <1>4, <1>5, <1>6, <1>7, <1>8, <1>9 DEF Next

-----------------------------------------------------------------------------
(* The theorems.                                                              *)

\* Before anything is read the invariant holds.
LEMMA InitInv ==
  ASSUME Init
  PROVE  IInv
<1>1. TypeOK
  <2>1. <<>> \in Seq(Certs) /\ <<>> \in Seq(Certs \X Nat) /\ {} \subseteq Certs
    OBVIOUS
  <2> QED
    BY <2>1 DEF Init, TypeOK
<1>2. pc = "load" /\ ~Shown("chain") /\ ~Shown("tree")
  BY DEF Init, Shown
<1>3. StageInv /\ WalkInv /\ ShownInv /\ ForestInv
  BY <1>2 DEF Init, StageInv, WalkInv, ShownInv, ForestInv
<1> QED
  BY <1>1, <1>3 DEF IInv

\* The invariant holds in every state of every invocation of inspect x509.
THEOREM Inductive == Spec => []IInv
<1>1. IInv /\ [Next]_vars => IInv'
  BY TypeStep, StageStep, WalkStep, ShownStep, ForestStep DEF IInv
<1> QED
  BY <1>1, InitInv, PTL DEF Spec

\* The types of the variables are kept, whatever the files hold.
THEOREM TypeCorrect == Spec => []TypeOK
BY Inductive, PTL DEF IInv

\* Each line of a chain issued the next one, for files of any size, although
\* most links are made by comparing identifiers and names.
THEOREM ChainsAreIssued == Spec => []ChainLinksIssued
<1>1. IInv => ChainLinksIssued
  BY DEF IInv, ShownInv, ChainLinksIssued
<1> QED
  BY <1>1, Inductive, PTL

\* The walk of buildChain repeats no certificate, and ends only where there is no
\* issuer left to show.
THEOREM ChainsGoToTheTop == Spec => []ChainGoesToTheTop
<1>1. IInv => ChainGoesToTheTop
  BY DEF IInv, ShownInv, WalkInv, ChainGoesToTheTop
<1> QED
  BY <1>1, Inductive, PTL

\* What --isSvid accepts is the last line of its chain: identifyLeaf takes it for
\* the leaf, whatever else the file and the bundle hold.
THEOREM SvidIsLast == Spec => []SvidIsTheLeaf
<1>1. ASSUME IInv PROVE SvidIsTheLeaf
  <2> SUFFICES ASSUME Shown("chain"), IsSvidCert(file[1]) PROVE Last(chain) = file[1]
    BY DEF SvidIsTheLeaf
  <2>1. all \in Seq(Certs) /\ all # <<>> /\ all[1] = file[1]
    BY <1>1, AllIs DEF IInv
  <2>2. IdentifyLeaf(all) = all[1]
    BY <2>1, SvidIsLeaf
  <2> QED
    BY <1>1, <2>1, <2>2 DEF IInv, ShownInv
<1> QED
  BY <1>1, Inductive, PTL

\* Among any certificates, those that issued each other included, writeTreeNode
\* draws none twice, and each under one that issued it.
THEOREM DrawnOnce == Spec => []DrawnOnceUnderIssuer
<1>1. ASSUME IInv PROVE DrawnOnceUnderIssuer
  <2>1. CASE ~(pc = "tree" \/ Shown("tree"))
    BY <1>1, <2>1 DEF IInv, StageInv, DrawnOnceUnderIssuer
  <2>2. CASE pc = "tree" \/ Shown("tree")
    <3>1. LinesInv /\ DrawnInv
      BY <1>1, <2>2 DEF IInv, ForestInv
    <3>2. all \in Seq(Certs)
      BY <1>1, <2>2, AllIs DEF IInv
    <3>3. ASSUME NEW i \in DOMAIN drawn, drawn[i][2] > 0
          PROVE  \E j \in 1..(i - 1) :
                   /\ drawn[j][2] = drawn[i][2] - 1
                   /\ \A k \in (j + 1)..(i - 1) : drawn[k][2] >= drawn[i][2]
                   /\ Issued(drawn[j][1], drawn[i][1])
      <4>1. PICK j \in 1..(i - 1) : Under(drawn, Parents, j, i - 1, drawn[i][1], drawn[i][2])
        BY <3>1, <3>3 DEF LinesInv
      <4>2. drawn[i][1] \in ToSet(all) /\ Parents[drawn[i][1]] # Nil
        BY <3>1, <3>3 DEF LinesInv, DrawnInv, Drawn
      <4>3. Issued(Parents[drawn[i][1]], drawn[i][1])
        BY <3>2, <4>2, ParentIs
      <4>4. /\ drawn[j][1] = Parents[drawn[i][1]] /\ drawn[j][2] = drawn[i][2] - 1
            /\ \A k \in (j + 1)..(i - 1) : drawn[k][2] >= drawn[i][2]
        BY <4>1 DEF Under
      <4> QED
        BY <4>3, <4>4
    <3> QED
      BY <3>1, <3>3 DEF LinesInv, DrawnOnceUnderIssuer
  <2> QED
    BY <2>1, <2>2
<1> QED
  BY <1>1, Inductive, PTL

\* What is left out of the forest never meets a certificate without a parent on
\* the way up.
LEMMA LeftOut ==
  ASSUME IInv, Shown("tree"), NEW c \in ToSet(all) \ Drawn
  PROVE  InCircle(c)
<1> DEFINE N == Len(all)
           G == ToSet(all) \ IF Orphans = {} THEN {} ELSE Drawn
           X == ToSet(all) \cup {Nil}
           up[n \in 0..N] == IF n = 0 THEN c
                             ELSE IF up[n - 1] = Nil THEN Nil
                             ELSE BuildParentMap(all)[up[n - 1]]
           Eq(h) == h = [n \in 0..N |-> IF n = 0 THEN c
                             ELSE IF h[n - 1] = Nil THEN Nil
                             ELSE BuildParentMap(all)[h[n - 1]]]
           F == [n \in 1..N |-> [p \in X |-> IF p = Nil THEN Nil ELSE BuildParentMap(all)[p]]]
<1>1. /\ all \in Seq(Certs) /\ N \in Nat /\ Nil \notin ToSet(all)
      /\ roots = <<>> /\ stack = <<>> /\ RootsInv /\ ChildrenInv
  <2>1. all \in Seq(Certs) /\ Nil \notin ToSet(all)
    BY AllIs DEF IInv
  <2> QED
    BY <2>1, SeqFacts DEF IInv, ForestInv
<1>2. ASSUME NEW p \in ToSet(all) PROVE BuildParentMap(all)[p] \in X
  BY <1>1, ParentFacts
<1>3. ASSUME NEW p \in G PROVE Parents[p] \in G
  <2>1. p \in ToSet(all) /\ Parents[p] \in X
    BY <1>2 DEF Parents
  <2>2. CASE Orphans = {}
    BY <2>1, <2>2 DEF Orphans
  <2>3. CASE Orphans # {}
    <3>1. Pending = {} /\ ToSet(roots) = {}
      BY <1>1 DEF Pending, ToSet
    <3>2. Orphans \subseteq Drawn
      BY <1>1, <2>3, <3>1 DEF RootsInv
    <3>3. Parents[p] # Nil /\ Parents[p] \notin Drawn
      BY <1>1, <2>1, <2>3, <3>1, <3>2 DEF Orphans, ChildrenInv
    <3> QED
      BY <2>1, <2>3, <3>3
  <2> QED
    BY <2>2, <2>3
<1>4. c \in G /\ c \in X /\ G \subseteq ToSet(all)
  OBVIOUS
<1>5. F \in [1..N -> [X -> X]]
  BY <1>2
<1>6. PICK h : Follows(h, N, X, c, F)
  <2> HIDE DEF F, N, X
  <2> QED
    BY <1>1, <1>4, <1>5, Recursion
<1>7. \A n \in 0..N : n # 0 => n \in 1..N
  BY <1>1
<1> HIDE DEF X, G
<1>8. Eq(h)
  <2>1. ASSUME NEW n \in 1..N
        PROVE  h[n] = IF h[n - 1] = Nil THEN Nil ELSE BuildParentMap(all)[h[n - 1]]
    <3>1. h[n] = F[n][h[n - 1]] /\ h[n - 1] \in X
      <4> HIDE DEF F
      <4> QED
        BY <1>1, <1>6 DEF Follows
    <3> QED
      BY <3>1
  <2>2. h[0] = c /\ h = [n \in 0..N |-> h[n]]
    BY <1>6 DEF Follows
  <2>3. \A n \in 0..N : h[n] = IF n = 0 THEN c
                               ELSE IF h[n - 1] = Nil THEN Nil
                               ELSE BuildParentMap(all)[h[n - 1]]
    BY <2>1, <2>2, <1>7, Zenon
  <2> QED
    BY <2>2, <2>3
<1>9. Eq(up)
  <2>1. up = CHOOSE g : Eq(g)
    OBVIOUS
  <2> QED
    BY <1>8, <2>1, Zenon
<1>10. InCircle(c) <=> up[N] # Nil
  BY DEF InCircle
<1> HIDE DEF up
<1>11. \A n \in 0..N : up[n] = IF n = 0 THEN c
                               ELSE IF up[n - 1] = Nil THEN Nil
                               ELSE BuildParentMap(all)[up[n - 1]]
  BY <1>9
<1> DEFINE T == {n \in 0..N : up[n] \in G}
<1>12. 0 \in T
  BY <1>1, <1>4, <1>11
<1>13. ASSUME NEW n \in 0..(N - 1), n \in T PROVE n + 1 \in T
  <2>1. n + 1 \in 0..N /\ n + 1 # 0 /\ (n + 1) - 1 = n /\ up[n] \in G
    BY <1>1, <1>13
  <2>2. up[n] # Nil
    BY <1>1, <1>4, <2>1
  <2>3. up[n + 1] = Parents[up[n]]
    BY <1>11, <2>1, <2>2 DEF Parents
  <2> QED
    BY <1>3, <2>1, <2>3
<1>14. N \in T
  <2> HIDE DEF T
  <2>1. 0..N \subseteq T
    BY <1>1, <1>12, <1>13, Induction
  <2> QED
    BY <1>1, <2>1
<1> QED
  BY <1>1, <1>4, <1>10, <1>14

\* The forest leaves out only what a circle of parents cuts off from every root.
THEOREM HiddenByCircles == Spec => []HiddenOnlyByCircles
<1>1. IInv => HiddenOnlyByCircles
  BY LeftOut DEF HiddenOnlyByCircles
<1> QED
  BY <1>1, Inductive, PTL
=============================================================================
