--------------------------- MODULE KStreamProofs ---------------------------
(***************************************************************************)
(* No byte and no message of a DNS connection is lost or torn, proved for  *)
(* any messages, any cut into segments and any base of the length bytes,   *)
(* while at most two connections are in the middle of a message.           *)
(***************************************************************************)
EXTENDS KStream, FiniteSetTheorems, SequenceTheorems, WellFoundedInduction, TLAPS

-----------------------------------------------------------------------------
(* Induction over the naturals, stated with a set in place of a predicate   *)

\* A set of naturals that holds 0 and with each number the next one holds them all.
LEMMA InductionOnNat ==
  ASSUME NEW G, 0 \in G, \A n \in Nat : n \in G => n + 1 \in G
  PROVE  Nat \subseteq G
PROOF
  <1> DEFINE T == {n \in Nat : n \notin G}
  <1>1. SUFFICES ASSUME T # {} PROVE FALSE
    OBVIOUS
  <1>2. \E x \in T : \A y \in T : ~(<<y, x>> \in OpToRel(<, Nat))
    BY <1>1, NatLessThanWellFounded, WFMin, Zenon
  <1>3. \A x, y \in Nat : y < x => <<y, x>> \in OpToRel(<, Nat)
    BY DEF OpToRel
  <1>4. PICK m \in T : \A y \in T : ~(<<y, m>> \in OpToRel(<, Nat))
    BY <1>2
  <1>5. m \in Nat /\ m \notin G /\ m # 0
    OBVIOUS
  <1> HIDE DEF T
  <1>6. m - 1 \in Nat /\ m - 1 < m /\ (m - 1) + 1 = m
    BY <1>5
  <1>7. m - 1 \notin T
    BY <1>3, <1>4, <1>5, <1>6
  <1>8. m - 1 \in G
    BY <1>6, <1>7 DEF T
  <1>9. (m - 1) + 1 \in G
    BY <1>6, <1>8, Zenon
  <1> QED
    BY <1>5, <1>6, <1>9

-----------------------------------------------------------------------------
(* Messages put one behind the other                                       *)

Texts == Seq(Seq(Nat))

\* The recursive function of FlattenSeq
Flattened(f, S) ==
  f = [i \in 1 .. Len(S) |-> IF i = 1 THEN S[i] ELSE f[i - 1] \o S[i]]

\* There is such a function for every sequence.
LEMMA FlattenedExists ==
  ASSUME NEW S \in Texts
  PROVE  \E f : Flattened(f, S)
PROOF
  <1> DEFINE Is(f, n) == f = [i \in 1 .. n |-> IF i = 1 THEN S[i] ELSE f[i - 1] \o S[i]]
             G == {n \in Nat : \E f : Is(f, n)}
  <1>1. 0 \in G
    <2>1. Is([i \in 1 .. 0 |-> S[i]], 0)
      OBVIOUS
    <2> QED
      BY <2>1
  <1>2. ASSUME NEW n \in Nat, n \in G PROVE n + 1 \in G
    <2>1. PICK f : Is(f, n)
      BY <1>2
    <2> DEFINE g == [i \in 1 .. n + 1 |->
                       IF i <= n THEN f[i] ELSE IF i = 1 THEN S[i] ELSE f[n] \o S[n + 1]]
               e == [i \in 1 .. n + 1 |-> IF i = 1 THEN S[i] ELSE g[i - 1] \o S[i]]
    <2>2. \A i \in 1 .. n : f[i] = IF i = 1 THEN S[i] ELSE f[i - 1] \o S[i]
      BY <2>1
    <2>3. \A i \in 1 .. n + 1 : g[i] = e[i]
      <3>1. SUFFICES ASSUME NEW i \in 1 .. n + 1 PROVE g[i] = e[i]
        OBVIOUS
      <3>2. CASE i = 1 /\ i <= n
        BY <3>2, <2>2
      <3>3. CASE i = 1 /\ i > n
        BY <3>3
      <3>4. CASE i # 1 /\ i <= n
        <4>1. g[i] = f[i] /\ g[i - 1] = f[i - 1]
          BY <3>4
        <4>2. e[i] = g[i - 1] \o S[i]
          BY <3>4
        <4>3. f[i] = f[i - 1] \o S[i]
          <5>1. i \in 1 .. n
            BY <3>4
          <5> HIDE DEF g, e
          <5> QED
            BY <3>4, <5>1, <2>2
        <4> HIDE DEF g, e
        <4> QED
          BY <4>1, <4>2, <4>3
      <3>5. CASE i # 1 /\ i > n
        <4>1. i = n + 1 /\ n \in 1 .. n + 1
          BY <3>5
        <4>2. g[n + 1] = f[n] \o S[n + 1] /\ g[n] = f[n]
          <5>1. n + 1 \in 1 .. n + 1 /\ ~(n + 1 <= n) /\ n + 1 # 1 /\ n <= n
            BY <3>5, <4>1
          <5> QED
            BY <4>1, <5>1
        <4>3. e[i] = g[i - 1] \o S[i]
          BY <3>5
        <4>4. i - 1 = n
          BY <4>1
        <4> HIDE DEF g, e
        <4> QED
          BY <4>1, <4>2, <4>3, <4>4, Zenon
      <3> QED
        BY <3>2, <3>3, <3>4, <3>5
    <2>4. g = [i \in 1 .. n + 1 |-> g[i]] /\ e = [i \in 1 .. n + 1 |-> e[i]]
      OBVIOUS
    <2>5. g = e
      <3> HIDE DEF g, e
      <3> QED
        BY <2>3, <2>4
    <2>6. Is(g, n + 1)
      BY <2>5
    <2> HIDE DEF g, e, Is
    <2> QED
      BY <2>6
  <1>3. Len(S) \in G
    <2> HIDE DEF G
    <2> QED
      BY <1>1, <1>2, InductionOnNat, LenProperties
  <1> QED
    BY <1>3 DEF Flattened

\* What FlattenSeq returns: of nothing nothing, and with one more message the same and
\* then this message.
LEMMA FlattenGrows ==
  ASSUME NEW S \in Texts, NEW m \in Seq(Nat)
  PROVE  /\ FlattenSeq(<<>>) = <<>>
         /\ FlattenSeq(S) \in Seq(Nat)
         /\ FlattenSeq(Append(S, m)) = FlattenSeq(S) \o m
PROOF
  <1> DEFINE T == Append(S, m)
             F(Q) == CHOOSE f : Flattened(f, Q)
  <1>1. T \in Texts /\ Len(T) = Len(S) + 1 /\ Len(S) \in Nat /\ T[Len(S) + 1] = m
        /\ \A i \in 1 .. Len(S) : T[i] = S[i]
    BY DEF Texts
  <1> HIDE DEF T
  <1>2. FlattenSeq(<<>>) = <<>>
    BY DEF FlattenSeq
  <1>3. ASSUME NEW Q \in Texts, Len(Q) > 0
        PROVE  FlattenSeq(Q) = F(Q)[Len(Q)] /\ Flattened(F(Q), Q)
    <2>1. Flattened(F(Q), Q)
      BY FlattenedExists
    <2>2. FlattenSeq(Q) = F(Q)[Len(Q)]
      BY <1>3 DEF FlattenSeq, Flattened
    <2> QED
      BY <2>1, <2>2
  <1>4. ASSUME NEW Q \in Texts, NEW f, Flattened(f, Q)
        PROVE  \A i \in 1 .. Len(Q) : f[i] = IF i = 1 THEN Q[i] ELSE f[i - 1] \o Q[i]
    BY <1>4 DEF Flattened
  <1> HIDE DEF F
  <1> DEFINE a == F(S)
             b == F(T)
  <1>5. Flattened(b, T) /\ FlattenSeq(T) = b[Len(T)]
    BY <1>1, <1>3
  <1>6. \A i \in 1 .. Len(T) : b[i] = IF i = 1 THEN T[i] ELSE b[i - 1] \o T[i]
    <2> HIDE DEF b
    <2> QED
      BY <1>1, <1>4, <1>5
  <1>7. CASE Len(S) = 0
    <2>1. FlattenSeq(S) = <<>>
      BY <1>7 DEF FlattenSeq, Texts
    <2>2. FlattenSeq(T) = m
      <3> HIDE DEF b
      <3> QED
        BY <1>1, <1>5, <1>6, <1>7
    <2> QED
      BY <1>2, <2>1, <2>2 DEF T
  <1>8. CASE Len(S) > 0
    <2>1. Flattened(a, S) /\ FlattenSeq(S) = a[Len(S)]
      BY <1>3, <1>8
    <2>2. \A i \in 1 .. Len(S) : a[i] = IF i = 1 THEN S[i] ELSE a[i - 1] \o S[i]
      <3> HIDE DEF a
      <3> QED
        BY <1>4, <2>1
    <2> HIDE DEF a, b
    <2> DEFINE G == {n \in Nat : n \in 1 .. Len(S) => a[n] = b[n] /\ a[n] \in Seq(Nat)}
    <2>3. 0 \in G
      OBVIOUS
    <2>4. ASSUME NEW n \in Nat, n \in G PROVE n + 1 \in G
      <3>1. SUFFICES ASSUME n + 1 \in 1 .. Len(S)
                     PROVE  a[n + 1] = b[n + 1] /\ a[n + 1] \in Seq(Nat)
        OBVIOUS
      <3>2. S[n + 1] \in Seq(Nat) /\ T[n + 1] = S[n + 1] /\ n + 1 \in 1 .. Len(T)
        BY <3>1, <1>1 DEF Texts
      <3>3. CASE n = 0
        BY <3>1, <3>2, <3>3, <2>2, <1>6
      <3>4. CASE n > 0
        <4>1. a[n] = b[n] /\ a[n] \in Seq(Nat)
          BY <2>4, <3>1, <3>4
        <4>2. a[n + 1] = a[n] \o S[n + 1] /\ b[n + 1] = b[n] \o T[n + 1]
          <5>1. n + 1 \in 1 .. Len(S) /\ n + 1 \in 1 .. Len(T) /\ n + 1 # 1
            BY <3>1, <3>2, <3>4
          <5>2. (n + 1) - 1 = n
            OBVIOUS
          <5> QED
            BY <5>1, <5>2, <2>2, <1>6, Zenon
        <4> QED
          BY <4>1, <4>2, <3>2
      <3> QED
        BY <3>3, <3>4
    <2>5. a[Len(S)] = b[Len(S)] /\ a[Len(S)] \in Seq(Nat)
      <3>1. Nat \subseteq G
        <4> HIDE DEF G
        <4> QED
          BY <2>3, <2>4, InductionOnNat
      <3> QED
        BY <3>1, <1>1, <1>8
    <2>6. b[Len(T)] = b[Len(S)] \o m
      <3>1. Len(T) \in 1 .. Len(T) /\ Len(T) # 1 /\ Len(T) - 1 = Len(S)
        BY <1>1, <1>8
      <3>2. T[Len(T)] = m
        BY <1>1
      <3> QED
        BY <3>1, <3>2, <1>6, Zenon
    <2> QED
      BY <1>2, <1>5, <2>1, <2>5, <2>6 DEF T
  <1> QED
    BY <1>1, <1>7, <1>8
\* Where the messages of S begin and end: the first k of them, and how many bytes they have
Firsts(S, k) == FlattenSeq(SubSeq(S, 1, k))
Start(S, k) == Len(Firsts(S, k))

\* The bytes w are those of X behind the first p
IsAt(X, p, w) ==
  /\ w \in Seq(Nat) /\ p \in Nat /\ p + Len(w) <= Len(X)
  /\ \A i \in 1 .. Len(w) : w[i] = X[p + i]

\* What Append does.
LEMMA Appended ==
  ASSUME NEW M, NEW c \in Seq(M), NEW m \in M
  PROVE  /\ Append(c, m) \in Seq(M) /\ Len(Append(c, m)) = Len(c) + 1
         /\ \A i \in 1 .. Len(c) + 1 : Append(c, m)[i] = IF i <= Len(c) THEN c[i] ELSE m
PROOF
  OBVIOUS

\* One more of the first messages.
LEMMA FirstsGrow ==
  ASSUME NEW S \in Texts
  PROVE  /\ Firsts(S, 0) = <<>> /\ Firsts(S, Len(S)) = FlattenSeq(S)
         /\ \A k \in 0 .. Len(S) : Firsts(S, k) \in Seq(Nat)
         /\ \A k \in 0 .. Len(S) - 1 : Firsts(S, k + 1) = Firsts(S, k) \o S[k + 1]
PROOF
  <1>1. Len(S) \in Nat /\ \A k \in 1 .. Len(S) : S[k] \in Seq(Nat)
    BY DEF Texts
  <1>2. ASSUME NEW k \in 0 .. Len(S)
        PROVE  /\ SubSeq(S, 1, k) \in Texts /\ Len(SubSeq(S, 1, k)) = k
               /\ \A i \in 1 .. k : SubSeq(S, 1, k)[i] = S[i]
    BY <1>1 DEF Texts
  <1>3. SubSeq(S, 1, 0) = <<>> /\ SubSeq(S, 1, Len(S)) = S
    <2>1. SubSeq(S, 1, 0) = <<>>
      BY <1>1, <1>2
    <2>2. SubSeq(S, 1, Len(S)) = S
      BY <1>1 DEF Texts
    <2> QED
      BY <2>1, <2>2
  <1>4. ASSUME NEW k \in 0 .. Len(S) - 1
        PROVE  Firsts(S, k + 1) = Firsts(S, k) \o S[k + 1]
    <2>1. k \in 0 .. Len(S) /\ k + 1 \in 0 .. Len(S) /\ k + 1 \in 1 .. Len(S)
      BY <1>1
    <2>2. SubSeq(S, 1, k + 1) = Append(SubSeq(S, 1, k), S[k + 1])
      <3> DEFINE a == SubSeq(S, 1, k + 1)
                 b == Append(SubSeq(S, 1, k), S[k + 1])
      <3>1. /\ a \in Texts /\ Len(a) = k + 1
            /\ \A i \in 1 .. k + 1 : a[i] = S[i]
        BY <1>2, <2>1
      <3>2. /\ b \in Texts /\ Len(b) = k + 1
            /\ \A i \in 1 .. k + 1 : b[i] = S[i]
        <4> DEFINE c == SubSeq(S, 1, k)
        <4>1. c \in Texts /\ Len(c) = k /\ \A i \in 1 .. k : c[i] = S[i]
          BY <1>2, <2>1
        <4>2. S[k + 1] \in Seq(Nat)
          BY <1>1, <2>1
        <4> HIDE DEF c
        <4>3. Append(c, S[k + 1]) \in Texts /\ Len(Append(c, S[k + 1])) = k + 1
              /\ \A i \in 1 .. k + 1 : Append(c, S[k + 1])[i] = IF i <= k THEN c[i] ELSE S[k + 1]
          <5>1. c \in Seq(Seq(Nat))
            BY <4>1 DEF Texts
          <5> QED
            BY <4>1, <4>2, <5>1, Appended DEF Texts
        <4> QED
          BY <4>1, <4>3 DEF c
      <3> HIDE DEF a, b
      <3>3. a = b
        BY <3>1, <3>2, SeqEqual DEF Texts
      <3> QED
        BY <3>3 DEF a, b
    <2> QED
      BY <1>1, <1>2, <2>1, <2>2, FlattenGrows DEF Firsts
  <1>5. Firsts(S, 0) = <<>> /\ Firsts(S, Len(S)) = FlattenSeq(S)
    <2>1. FlattenSeq(<<>>) = <<>>
      BY DEF FlattenSeq
    <2> QED
      BY <1>3, <2>1 DEF Firsts
  <1>6. \A k \in 0 .. Len(S) : Firsts(S, k) \in Seq(Nat)
    <2>1. <<>> \in Seq(Nat)
      OBVIOUS
    <2>2. ASSUME NEW Q \in Texts PROVE FlattenSeq(Q) \in Seq(Nat)
      BY <2>1, FlattenGrows
    <2> QED
      BY <1>2, <2>2 DEF Firsts
  <1> QED
    BY <1>4, <1>5, <1>6

\* The first messages are at the beginning of all of them.
LEMMA FirstsAreFirst ==
  ASSUME NEW S \in Texts, NEW k \in 0 .. Len(S)
  PROVE  IsAt(FlattenSeq(S), 0, Firsts(S, k))
PROOF
  <1> DEFINE X == FlattenSeq(S)
             G == {d \in Nat : d <= Len(S) => IsAt(X, 0, Firsts(S, Len(S) - d))}
  <1>1. Len(S) \in Nat /\ X \in Seq(Nat)
    BY FlattenGrows DEF Texts
  <1>2. 0 \in G
    BY <1>1, FirstsGrow DEF IsAt
  <1>3. ASSUME NEW d \in Nat, d \in G PROVE d + 1 \in G
    <2>1. SUFFICES ASSUME d + 1 <= Len(S)
                   PROVE  IsAt(X, 0, Firsts(S, Len(S) - (d + 1)))
      OBVIOUS
    <2> DEFINE j == Len(S) - (d + 1)
               a == Firsts(S, j)
               b == Firsts(S, j + 1)
    <2>2. j \in 0 .. Len(S) - 1 /\ j \in 0 .. Len(S) /\ j + 1 \in 0 .. Len(S)
          /\ j + 1 \in 1 .. Len(S) /\ j + 1 = Len(S) - d /\ d <= Len(S)
      BY <1>1, <2>1
    <2>3. IsAt(X, 0, b)
      BY <1>3, <2>2
    <2> HIDE DEF j
    <2>4. b = a \o S[j + 1] /\ a \in Seq(Nat) /\ S[j + 1] \in Seq(Nat)
      <3>1. S[j + 1] \in Seq(Nat)
        BY <2>2 DEF Texts
      <3> QED
        BY <2>2, <3>1, FirstsGrow
    <2> HIDE DEF a, b, X
    <2>5. Len(a) <= Len(b) /\ \A i \in 1 .. Len(a) : a[i] = b[i]
      BY <2>4
    <2>6. IsAt(X, 0, a)
      BY <2>3, <2>4, <2>5, <1>1 DEF IsAt
    <2> QED
      BY <2>6 DEF a, j
  <1>4. Nat \subseteq G
    <2> HIDE DEF G
    <2> QED
      BY <1>2, <1>3, InductionOnNat
  <1>5. Len(S) - k \in Nat /\ Len(S) - k <= Len(S) /\ Len(S) - (Len(S) - k) = k
    BY <1>1
  <1> QED
    BY <1>4, <1>5

\* A message is behind those before it.
LEMMA MessageIsAt ==
  ASSUME NEW S \in Texts, NEW k \in 0 .. Len(S) - 1
  PROVE  /\ IsAt(FlattenSeq(S), Start(S, k), S[k + 1])
         /\ Start(S, k + 1) = Start(S, k) + Len(S[k + 1])
         /\ Start(S, k) \in Nat /\ Start(S, k + 1) <= Len(FlattenSeq(S))
PROOF
  <1> DEFINE X == FlattenSeq(S)
             a == Firsts(S, k)
             b == Firsts(S, k + 1)
             m == S[k + 1]
  <1>1. k \in 0 .. Len(S) /\ k + 1 \in 0 .. Len(S) /\ k + 1 \in 1 .. Len(S) /\ X \in Seq(Nat)
    BY FlattenGrows DEF Texts
  <1>2. b = a \o m /\ a \in Seq(Nat) /\ m \in Seq(Nat)
    <2>1. m \in Seq(Nat)
      BY <1>1 DEF Texts
    <2> QED
      BY <1>1, <2>1, FirstsGrow
  <1>3. IsAt(X, 0, b)
    BY <1>1, FirstsAreFirst
  <1> HIDE DEF X, a, b, m
  <1>4. Len(b) = Len(a) + Len(m) /\ \A i \in 1 .. Len(m) : b[Len(a) + i] = m[i]
    BY <1>2
  <1>5. IsAt(X, Len(a), m)
    <2>1. Len(a) \in Nat /\ Len(m) \in Nat /\ Len(b) \in Nat /\ Len(a) + Len(m) <= Len(X)
      BY <1>1, <1>2, <1>3, <1>4 DEF IsAt
    <2>2. ASSUME NEW i \in 1 .. Len(m) PROVE m[i] = X[Len(a) + i]
      <3>1. Len(a) + i \in 1 .. Len(b)
        BY <2>1, <1>4
      <3>2. b[Len(a) + i] = X[0 + (Len(a) + i)]
        BY <1>3, <3>1 DEF IsAt
      <3>3. 0 + (Len(a) + i) = Len(a) + i
        BY <2>1
      <3> QED
        BY <1>4, <3>2, <3>3
    <2> QED
      BY <2>1, <2>2, <1>2 DEF IsAt
  <1>6. Len(b) <= Len(X) /\ Len(a) \in Nat
    BY <1>1, <1>2, <1>3 DEF IsAt
  <1> QED
    BY <1>4, <1>5, <1>6 DEF a, b, m, X, Start
-----------------------------------------------------------------------------
(* The loop over a DNS stream                                               *)

\* Messages whose first two bytes say how many follow
DnsMessages == {m \in Seq(Nat) : Len(m) >= 2 /\ (m[1] * Base) + m[2] + 2 = Len(m)}

\* The length is read right, or is too long for what is there, from any first part of a
\* message and from a message with something behind it.
LEMMA LengthIsRead ==
  ASSUME NEW w \in Seq(Nat), w # <<>>, NEW m \in DnsMessages,
         \A i \in 1 .. Len(w) : i <= Len(m) => w[i] = m[i]
  PROVE  /\ DnsLength(w) + 2 \in Nat
         /\ Len(w) < Len(m) => DnsLength(w) + 2 > Len(w)
         /\ Len(m) <= Len(w) => DnsLength(w) + 2 = Len(m)
PROOF
  <1>1. Len(w) \in Nat \ {0} /\ w[1] \in Nat /\ m[1] \in Nat /\ m[2] \in Nat
        /\ Len(m) \in Nat /\ Len(m) >= 2 /\ Base \in Nat
    <2>1. m \in Seq(Nat) /\ Len(m) >= 2
      BY DEF DnsMessages
    <2>2. Base \in Nat
      BY StreamAssumption
    <2>3. Len(w) \in Nat \ {0}
      BY EmptySeq
    <2> QED
      BY <2>1, <2>2, <2>3
  <1>2. w[1] = m[1]
    BY <1>1
  <1> DEFINE p == m[1] * Base
  <1>3. p \in Nat /\ p = w[1] * Base
    <2>1. \A x, y \in Nat : x * y \in Nat
      OBVIOUS
    <2> QED
      BY <1>1, <1>2, <2>1
  <1>4. p + m[2] + 2 = Len(m)
    BY DEF DnsMessages
  <1> HIDE DEF p
  <1>5. CASE Len(w) = 1
    <2>1. DnsLength(w) = p + 0
      BY <1>3, <1>5 DEF DnsLength
    <2> QED
      BY <2>1, <1>1, <1>3, <1>5
  <1>6. CASE Len(w) > 1
    <2>1. w[2] = m[2]
      BY <1>1, <1>6
    <2>2. DnsLength(w) = p + m[2]
      BY <1>3, <1>6, <2>1 DEF DnsLength
    <2> QED
      BY <2>2, <1>1, <1>3, <1>4
  <1>7. Len(w) = 1 \/ Len(w) > 1
    <2>1. Len(w) \in Nat \ {0}
      BY <1>1, Zenon
    <2>2. \A n \in Nat \ {0} : n = 1 \/ n > 1
      OBVIOUS
    <2> QED
      BY <2>1, <2>2, Zenon
  <1> QED
    BY <1>5, <1>6, <1>7

\* Bytes of the data.
LEMMA BytesInside ==
  ASSUME NEW w \in Seq(Nat), NEW from \in Nat, NEW len \in Nat, from >= 1,
         from + len <= Len(w) + 1
  PROVE  /\ Bytes(w, from, len) \in Seq(Nat) /\ Len(Bytes(w, from, len)) = len
         /\ \A i \in 1 .. len : Bytes(w, from, len)[i] = w[from + i - 1]
PROOF
  <1>1. \A i \in 1 .. len : from + i - 1 \in 1 .. Len(w) /\ w[from + i - 1] \in Nat
    OBVIOUS
  <1>2. Bytes(w, from, len) = [i \in 1 .. len |-> w[from + i - 1]]
    BY <1>1 DEF Bytes
  <1>3. [i \in 1 .. len |-> w[from + i - 1]] \in Seq(Nat)
    BY <1>1
  <1> QED
    BY <1>2, <1>3

\* What a turn of the loop does with the bytes w that a message m begins: the message is not
\* complete, it is all there is, or there is more.
LEMMA TurnCuts ==
  ASSUME NEW msgs, NEW w \in Seq(Nat), w # <<>>, NEW m \in DnsMessages,
         \A i \in 1 .. Len(w) : i <= Len(m) => w[i] = m[i]
  PROVE  \/ /\ Len(w) < Len(m)
            /\ Turn("DNS", Parsing(msgs, w, TRUE)) = Parsing(msgs, w, FALSE)
         \/ /\ Len(w) = Len(m)
            /\ Turn("DNS", Parsing(msgs, w, TRUE)) = Parsing(Append(msgs, m), <<>>, FALSE)
         \/ /\ Len(w) > Len(m)
            /\ Turn("DNS", Parsing(msgs, w, TRUE))
                 = Parsing(Append(msgs, m), Bytes(w, Len(m) + 1, Len(w) - Len(m)), TRUE)
PROOF
  <1> DEFINE size == DnsLength(w) + 2
             l == Parsing(msgs, w, TRUE)
  <1>1. /\ size \in Nat
        /\ Len(w) < Len(m) => size > Len(w)
        /\ Len(m) <= Len(w) => size = Len(m)
    BY LengthIsRead
  <1>2. Len(w) \in Nat /\ Len(m) \in Nat /\ m \in Seq(Nat) /\ Len(m) >= 2
    BY DEF DnsMessages
  <1>3. l.left = w /\ l.msgs = msgs /\ l.on
    BY DEF Parsing
  <1>4. Parser("DNS", w) = kParserDNS(w)
    BY DEF Parser
  <1>5. Len(m) <= Len(w) => Bytes(w, 1, Len(m)) = m
    <2>1. SUFFICES ASSUME Len(m) <= Len(w) PROVE Bytes(w, 1, Len(m)) = m
      OBVIOUS
    <2>2. \A i \in 1 .. Len(m) : 1 + i - 1 = i
      BY <1>2
    <2>3. /\ Bytes(w, 1, Len(m)) \in Seq(Nat) /\ Len(Bytes(w, 1, Len(m))) = Len(m)
          /\ \A i \in 1 .. Len(m) : Bytes(w, 1, Len(m))[i] = w[i]
      BY <1>2, <2>1, <2>2, BytesInside
    <2>4. \A i \in 1 .. Len(m) : w[i] = m[i]
      BY <1>2, <2>1
    <2> QED
      BY <1>2, <2>3, <2>4, SeqEqual
  <1> HIDE DEF size, l
  <1>6. CASE Len(w) < Len(m)
    <2>1. kParserDNS(w) = Parsed("NOMATCH", 0, 0)
      BY <1>1, <1>2, <1>6 DEF kParserDNS, size
    <2>2. Bytes(w, 1, Len(w)) = w
      <3>1. \A i \in 1 .. Len(w) : 1 + i - 1 = i
        BY <1>2
      <3>2. /\ Bytes(w, 1, Len(w)) \in Seq(Nat) /\ Len(Bytes(w, 1, Len(w))) = Len(w)
            /\ \A i \in 1 .. Len(w) : Bytes(w, 1, Len(w))[i] = w[i]
        BY <1>2, <3>1, BytesInside
      <3> QED
        BY <3>2, SeqEqual
    <2>3. Parsed("NOMATCH", 0, 0).res = "NOMATCH" /\ Parsed("NOMATCH", 0, 0).skip + 1 = 1
      BY DEF Parsed
    <2>4. Turn("DNS", l) = Parsing(msgs, Bytes(w, 1, Len(w)), FALSE)
      BY <1>3, <1>4, <2>1, <2>3 DEF Turn
    <2> QED
      BY <1>6, <2>2, <2>4 DEF l
  <1>7. CASE Len(w) = Len(m)
    <2> DEFINE r == Parsed("JUSTONE", 0, size)
    <2>1. kParserDNS(w) = r
      BY <1>1, <1>2, <1>7 DEF kParserDNS, size
    <2>2. r.res = "JUSTONE" /\ r.skip + 1 = 1 /\ r.size = Len(m)
      BY <1>1, <1>2, <1>7 DEF Parsed
    <2> HIDE DEF r
    <2>3. Turn("DNS", l) = Parsing(Append(msgs, Bytes(w, 1, Len(m))), <<>>, FALSE)
      BY <1>3, <1>4, <2>1, <2>2 DEF Turn
    <2>4. Bytes(w, 1, Len(m)) = m
      BY <1>2, <1>5, <1>7
    <2>5. Turn("DNS", l) = Parsing(Append(msgs, m), <<>>, FALSE)
      BY <2>3, <2>4, Zenon
    <2> QED
      BY <1>7, <2>5, Zenon DEF l
  <1>8. CASE Len(w) > Len(m)
    <2> DEFINE r == Parsed("LEFTDATA", 0, size)
    <2>1. kParserDNS(w) = r
      BY <1>1, <1>2, <1>8 DEF kParserDNS, size
    <2>2. r.res = "LEFTDATA" /\ r.skip + 1 = 1 /\ r.size = Len(m) /\ r.skip + r.size + 1 = Len(m) + 1
      BY <1>1, <1>2, <1>8 DEF Parsed
    <2> HIDE DEF r
    <2>3. Turn("DNS", l) = Parsing(Append(msgs, Bytes(w, 1, Len(m))),
                                   Bytes(w, Len(m) + 1, Len(w) - Len(m)), TRUE)
      BY <1>3, <1>4, <2>1, <2>2 DEF Turn
    <2>4. Bytes(w, 1, Len(m)) = m
      BY <1>2, <1>5, <1>8
    <2>5. Turn("DNS", l) = Parsing(Append(msgs, m), Bytes(w, Len(m) + 1, Len(w) - Len(m)), TRUE)
      BY <2>3, <2>4, Zenon
    <2> QED
      BY <1>8, <2>5, Zenon DEF l
  <1>9. Len(w) < Len(m) \/ Len(w) = Len(m) \/ Len(w) > Len(m)
    BY <1>2
  <1> QED
    BY <1>6, <1>7, <1>8, <1>9, Zenon
\* The loop computes its result turn by turn.
LEMMA TurnsAre ==
  ASSUME NEW p, NEW w \in Seq(Nat)
  PROVE  /\ Turns(p, w)[0] = Parsing(<<>>, w, TRUE)
         /\ \A k \in 1 .. Len(w) + 1 : Turns(p, w)[k] = Turn(p, Turns(p, w)[k - 1])
PROOF
  <1> DEFINE s0 == Parsing(<<>>, w, TRUE)
             T(l) == Turn(p, l)
             Is(h, n) == h = [k \in 0 .. n |-> IF k = 0 THEN s0 ELSE T(h[k - 1])]
             G == {n \in Nat : \E h : Is(h, n)}
  <1> HIDE DEF s0, T
  <1>1. 0 \in G
    <2>1. Is([k \in 0 .. 0 |-> s0], 0)
      OBVIOUS
    <2> QED
      BY <2>1
  <1>2. ASSUME NEW n \in Nat, n \in G PROVE n + 1 \in G
    <2>1. PICK h : Is(h, n)
      BY <1>2
    <2> DEFINE g == [k \in 0 .. n + 1 |-> IF k <= n THEN h[k] ELSE T(h[n])]
    <2>2. \A k \in 0 .. n : h[k] = IF k = 0 THEN s0 ELSE T(h[k - 1])
      BY <2>1
    <2>3. \A k \in 0 .. n + 1 : g[k] = IF k = 0 THEN s0 ELSE T(g[k - 1])
      <3>1. SUFFICES ASSUME NEW k \in 0 .. n + 1
                     PROVE  g[k] = IF k = 0 THEN s0 ELSE T(g[k - 1])
        OBVIOUS
      <3>2. CASE k = 0
        BY <3>2, <2>2
      <3>3. CASE k \in 1 .. n
        <4>1. g[k] = h[k] /\ g[k - 1] = h[k - 1]
          BY <3>3
        <4> QED
          BY <3>3, <4>1, <2>2
      <3>4. CASE k = n + 1
        <4>1. g[k] = T(h[n]) /\ g[k - 1] = h[n]
          BY <3>4
        <4> QED
          BY <3>4, <4>1
      <3> QED
        BY <3>2, <3>3, <3>4
    <2>4. Is(g, n + 1)
      <3> DEFINE e == [k \in 0 .. n + 1 |-> IF k = 0 THEN s0 ELSE T(g[k - 1])]
      <3>1. \A k \in 0 .. n + 1 : g[k] = e[k]
        BY <2>3
      <3>3. g = [k \in 0 .. n + 1 |-> g[k]] /\ e = [k \in 0 .. n + 1 |-> e[k]]
        OBVIOUS
      <3>4. g = e
        <4> HIDE DEF g, e
        <4> QED
          BY <3>1, <3>3
      <3> QED
        BY <3>4
    <2> HIDE DEF g, Is
    <2> QED
      BY <2>4
  <1>3. \E h : Is(h, Len(w) + 1)
    <2> HIDE DEF Is
    <2>1. Nat \subseteq G
      <3> HIDE DEF G
      <3> QED
        BY <1>1, <1>2, InductionOnNat
    <2>2. Len(w) + 1 \in Nat
      OBVIOUS
    <2> QED
      BY <2>1, <2>2
  <1>4. Is(Turns(p, w), Len(w) + 1)
    BY <1>3 DEF Turns, s0, T
  <1>5. Len(w) + 1 \in Nat
    OBVIOUS
  <1> DEFINE t == Turns(p, w)
  <1>6. t[0] = s0 /\ \A k \in 1 .. Len(w) + 1 : t[k] = T(t[k - 1])
    <2> HIDE DEF t
    <2> QED
      BY <1>4, <1>5 DEF t
  <1> QED
    BY <1>6, Zenon DEF s0, T, t

\* Where the loop is that began with the bytes w behind the first k messages of S: it has
\* registered those up to j and has what follows.
Cut(S, k, w, j, l) ==
  /\ l.msgs = SubSeq(S, k + 1, j)
  /\ IsAt(FlattenSeq(S), Start(S, j), l.left)
  /\ Start(S, j) + Len(l.left) = Start(S, k) + Len(w)

\* Before and after its turns: there is something to parse, and a turn is left for each byte
\* of it; at the end no message waits.
Before(S, j, l) == l.on = TRUE /\ l.left # <<>>
After(S, j, l) == l.on = FALSE /\ (j < Len(S) => Len(l.left) < Len(S[j + 1]))

\* Where there are bytes, a message begins.
LEMMA MessageBegins ==
  ASSUME NEW S \in Seq(DnsMessages), NEW j \in 0 .. Len(S), NEW w, w # <<>>,
         IsAt(FlattenSeq(S), Start(S, j), w)
  PROVE  /\ j \in 0 .. Len(S) - 1 /\ S[j + 1] \in DnsMessages
         /\ \A i \in 1 .. Len(w) : i <= Len(S[j + 1]) => w[i] = S[j + 1][i]
PROOF
  <1>1. S \in Texts
    <2>1. DnsMessages \subseteq Seq(Nat)
      BY DEF DnsMessages
    <2> HIDE DEF DnsMessages
    <2> QED
      BY <2>1 DEF Texts
  <1>2. w \in Seq(Nat) /\ Len(w) \in Nat \ {0}
    BY EmptySeq DEF IsAt
  <1>3. j # Len(S)
    <2>1. SUFFICES ASSUME j = Len(S) PROVE FALSE
      OBVIOUS
    <2>2. Start(S, j) = Len(FlattenSeq(S))
      BY <1>1, <2>1, FirstsGrow DEF Start
    <2>3. Start(S, j) + Len(w) <= Len(FlattenSeq(S)) /\ Start(S, j) \in Nat
      BY DEF IsAt
    <2> HIDE DEF IsAt
    <2> QED
      BY <1>2, <2>2, <2>3
  <1>4. j \in 0 .. Len(S) - 1 /\ j + 1 \in 1 .. Len(S)
    BY <1>3
  <1>5. S[j + 1] \in DnsMessages
    BY <1>4
  <1> DEFINE m == S[j + 1]
             X == FlattenSeq(S)
             q == Start(S, j)
  <1>6. IsAt(X, q, m)
    BY <1>1, <1>4, MessageIsAt
  <1> HIDE DEF m, X, q
  <1>7. ASSUME NEW i \in 1 .. Len(w), i <= Len(m) PROVE w[i] = m[i]
    <2>1. i \in 1 .. Len(m)
      BY <1>2, <1>6, <1>7 DEF IsAt
    <2>2. IsAt(X, q, w)
      BY DEF X, q
    <2> QED
      BY <1>6, <2>1, <2>2 DEF IsAt
  <1> QED
    BY <1>4, <1>5, <1>7 DEF m
\* One element more of a part of a sequence.
LEMMA PartGrows ==
  ASSUME NEW M, NEW S \in Seq(M), NEW k \in Nat, NEW j \in Nat, k <= j, j < Len(S)
  PROVE  SubSeq(S, k + 1, j + 1) = Append(SubSeq(S, k + 1, j), S[j + 1])
PROOF
  <1> DEFINE a == SubSeq(S, k + 1, j + 1)
             c == SubSeq(S, k + 1, j)
             b == Append(c, S[j + 1])
             n == j - k
  <1>1. n \in Nat /\ S[j + 1] \in M /\ Len(S) \in Nat
    OBVIOUS
  <1>2. a \in Seq(M) /\ Len(a) = n + 1 /\ \A i \in 1 .. n + 1 : a[i] = S[k + i]
    <2>1. \A i \in k + 1 .. j + 1 : S[i] \in M
      OBVIOUS
    <2>2. a \in Seq(M)
      OBVIOUS
    <2>3. Len(a) = n + 1
      OBVIOUS
    <2>4. \A i \in 1 .. n + 1 : a[i] = S[k + i]
      <3>1. \A i \in 1 .. n + 1 : i \in 1 .. ((j + 1) - (k + 1)) + 1 /\ ((k + 1) + i) - 1 = k + i
        OBVIOUS
      <3> QED
        BY <3>1
    <2> QED
      BY <2>2, <2>3, <2>4
  <1>3. c \in Seq(M) /\ Len(c) = n /\ \A i \in 1 .. n : c[i] = S[k + i]
    <2>1. c \in Seq(M)
      OBVIOUS
    <2>2. Len(c) = n
      OBVIOUS
    <2>3. \A i \in 1 .. n : c[i] = S[k + i]
      OBVIOUS
    <2> QED
      BY <2>1, <2>2, <2>3
  <1>4. k + (n + 1) = j + 1
    OBVIOUS
  <1> HIDE DEF a, c, n
  <1>5. b \in Seq(M) /\ Len(b) = n + 1
        /\ \A i \in 1 .. n + 1 : b[i] = IF i <= n THEN c[i] ELSE S[j + 1]
    <2> DEFINE x == S[j + 1]
    <2>1. x \in M
      BY <1>1
    <2> HIDE DEF x
    <2>2. Append(c, x) \in Seq(M) /\ Len(Append(c, x)) = Len(c) + 1
          /\ \A i \in 1 .. Len(c) + 1 : Append(c, x)[i] = IF i <= Len(c) THEN c[i] ELSE x
      BY <1>3, <2>1, Appended
    <2>3. Len(c) = n
      BY <1>3
    <2> QED
      BY <2>2, <2>3, Zenon DEF x
  <1>6. \A i \in 1 .. n + 1 : a[i] = b[i]
    <2>1. SUFFICES ASSUME NEW i \in 1 .. n + 1 PROVE a[i] = b[i]
      OBVIOUS
    <2> HIDE DEF b
    <2>2. CASE i <= n
      <3>1. i \in 1 .. n
        BY <1>1, <2>2
      <3>2. a[i] = S[k + i] /\ c[i] = S[k + i]
        BY <1>2, <1>3, <3>1, Zenon
      <3>3. b[i] = c[i]
        BY <1>5, <2>2
      <3> QED
        BY <3>2, <3>3, Zenon
    <2>3. CASE i = n + 1
      <3>1. ~(i <= n)
        BY <1>1, <2>3
      <3> QED
        BY <1>2, <1>4, <1>5, <2>3, <3>1
    <2> QED
      BY <1>1, <2>2, <2>3
  <1> HIDE DEF b
  <1> QED
    BY <1>2, <1>5, <1>6, SeqEqual DEF a, b, c

\* What lies behind a message, if the bytes are at its beginning.
LEMMA RestIsAt ==
  ASSUME NEW X, Len(X) \in Nat, NEW q, NEW w, IsAt(X, q, w), NEW n \in Nat, n <= Len(w)
  PROVE  /\ IsAt(X, q + n, Bytes(w, n + 1, Len(w) - n))
         /\ Len(Bytes(w, n + 1, Len(w) - n)) = Len(w) - n
PROOF
  <1> DEFINE d == Len(w) - n
             b == Bytes(w, n + 1, d)
  <1>1. /\ w \in Seq(Nat) /\ q \in Nat /\ q + Len(w) <= Len(X) /\ Len(w) \in Nat
        /\ \A i \in 1 .. Len(w) : w[i] = X[q + i]
    BY DEF IsAt
  <1>2. d \in Nat /\ n + 1 \in Nat /\ n + 1 >= 1 /\ (n + 1) + d <= Len(w) + 1
    BY <1>1
  <1>3. b \in Seq(Nat) /\ Len(b) = d /\ \A i \in 1 .. d : b[i] = w[(n + 1) + i - 1]
    <2> HIDE DEF d
    <2> QED
      BY <1>1, <1>2, BytesInside
  <1> HIDE DEF b
  <1>4. ASSUME NEW i \in 1 .. d PROVE b[i] = X[(q + n) + i]
    <2>1. (n + 1) + i - 1 = n + i /\ n + i \in 1 .. Len(w) /\ q + (n + i) = (q + n) + i
      BY <1>1
    <2>2. b[i] = w[n + i]
      BY <1>3, <2>1
    <2>3. w[n + i] = X[q + (n + i)]
      BY <1>1, <2>1
    <2> QED
      BY <2>1, <2>2, <2>3
  <1>5. q + n \in Nat /\ (q + n) + d <= Len(X)
    BY <1>1
  <1> HIDE DEF d
  <1> QED
    BY <1>3, <1>4, <1>5 DEF IsAt, b, d

\* A turn keeps the place between registered messages and bytes, and ends the loop or takes
\* a byte.
LEMMA TurnKeepsCut ==
  ASSUME NEW S \in Seq(DnsMessages), NEW k \in 0 .. Len(S), NEW w, NEW j \in k .. Len(S),
         NEW msgs, NEW left, Cut(S, k, w, j, Parsing(msgs, left, TRUE)), left # <<>>
  PROVE  LET l == Turn("DNS", Parsing(msgs, left, TRUE))
         IN  \E i \in k .. Len(S) :
               /\ Cut(S, k, w, i, l) /\ l = Parsing(l.msgs, l.left, l.on)
               /\ \/ After(S, i, l)
                  \/ Before(S, i, l) /\ Len(l.left) + 1 <= Len(left)
PROOF
  <1> DEFINE X == FlattenSeq(S)
             m == S[j + 1]
             q == Start(S, j)
             n == Len(m)
             r == Bytes(left, n + 1, Len(left) - n)
             z == Parsing(msgs, left, TRUE)
  <1>1. S \in Texts
    <2>1. DnsMessages \subseteq Seq(Nat)
      BY DEF DnsMessages
    <2> HIDE DEF DnsMessages
    <2> QED
      BY <2>1 DEF Texts
  <1>2. X \in Seq(Nat) /\ Len(X) \in Nat
    <2>1. X \in Seq(Nat)
      <3>1. <<>> \in Seq(Nat)
        OBVIOUS
      <3> QED
        BY <1>1, <3>1, FlattenGrows
    <2> HIDE DEF X
    <2> QED
      BY <2>1
  <1>3. \A a, b, c : Parsing(a, b, c).msgs = a /\ Parsing(a, b, c).left = b /\ Parsing(a, b, c).on = c
    BY DEF Parsing
  <1>4. msgs = SubSeq(S, k + 1, j) /\ IsAt(X, q, left) /\ q + Len(left) = Start(S, k) + Len(w)
    <2>1. z.msgs = msgs /\ z.left = left
      BY DEF Parsing
    <2>2. Cut(S, k, w, j, z)
      OBVIOUS
    <2> HIDE DEF z, q, X
    <2> QED
      BY <2>1, <2>2 DEF Cut, X, q
  <1>5. /\ j \in 0 .. Len(S) - 1 /\ j \in 0 .. Len(S) /\ j + 1 \in k .. Len(S)
        /\ m \in DnsMessages /\ k \in Nat /\ j \in Nat /\ k <= j /\ j < Len(S)
        /\ \A i \in 1 .. Len(left) : i <= Len(m) => left[i] = m[i]
    <2>1. j \in 0 .. Len(S)
      OBVIOUS
    <2>2. j \in 0 .. Len(S) - 1 /\ m \in DnsMessages
          /\ \A i \in 1 .. Len(left) : i <= Len(m) => left[i] = m[i]
      BY <1>4, <2>1, MessageBegins
    <2>3. j + 1 \in k .. Len(S) /\ k \in Nat /\ j \in Nat /\ k <= j /\ j < Len(S)
      BY <2>2
    <2> QED
      BY <2>1, <2>2, <2>3
  <1>6. Start(S, j + 1) = q + n /\ q \in Nat
    BY <1>1, <1>5, MessageIsAt
  <1>7. n \in Nat /\ n >= 2 /\ left \in Seq(Nat) /\ Len(left) \in Nat
    <2>1. left \in Seq(Nat)
      BY <1>4 DEF IsAt
    <2>2. m \in Seq(Nat) /\ Len(m) >= 2
      <3> HIDE DEF m
      <3> QED
        BY <1>5 DEF DnsMessages
    <2> HIDE DEF m
    <2> QED
      BY <2>1, <2>2
  <1>8. SubSeq(S, k + 1, j + 1) = Append(msgs, m)
    <2> HIDE DEF m
    <2> QED
      BY <1>4, <1>5, PartGrows DEF m
  <1>9. \/ Len(left) < n /\ Turn("DNS", z) = Parsing(msgs, left, FALSE)
        \/ Len(left) = n /\ Turn("DNS", z) = Parsing(Append(msgs, m), <<>>, FALSE)
        \/ Len(left) > n /\ Turn("DNS", z) = Parsing(Append(msgs, m), r, TRUE)
    <2> HIDE DEF m
    <2> QED
      BY <1>5, <1>7, TurnCuts
  <1> HIDE DEF X, m, q, n, r, z
  <1>10. CASE Len(left) < n /\ Turn("DNS", z) = Parsing(msgs, left, FALSE)
    <2>0. PICK f : f = FALSE
      OBVIOUS
    <2> DEFINE l == Parsing(msgs, left, f)
    <2>1. l.msgs = msgs /\ l.left = left /\ l.on = f
      BY DEF Parsing
    <2> HIDE DEF l
    <2>2. Cut(S, k, w, j, l)
      BY <1>4, <2>1 DEF Cut, X, q
    <2>3. After(S, j, l)
      BY <1>10, <2>0, <2>1 DEF After, n, m
    <2>4. l = Parsing(l.msgs, l.left, l.on)
      BY <2>1, Zenon DEF l
    <2> QED
      BY <1>10, <2>2, <2>3, <2>4, <2>0, Zenon DEF l, z
  <1>11. CASE Len(left) = n /\ Turn("DNS", z) = Parsing(Append(msgs, m), <<>>, FALSE)
    <2>0. PICK f : f = FALSE
      OBVIOUS
    <2> DEFINE e == <<>>
               l == Parsing(Append(msgs, m), e, f)
    <2>1. l.msgs = Append(msgs, m) /\ l.left = e /\ l.on = f
      BY DEF Parsing
    <2>2. e \in Seq(Nat) /\ Len(e) = 0
      OBVIOUS
    <2> HIDE DEF l, e
    <2>3. IsAt(X, q + n, e)
      <3>1. (q + n) + Len(e) <= Len(X) /\ q + n \in Nat
        BY <1>4, <1>6, <1>7, <1>11, <2>2 DEF IsAt
      <3>2. \A i \in 1 .. Len(e) : FALSE
        BY <2>2
      <3> QED
        BY <2>2, <3>1, <3>2 DEF IsAt
    <2>4. q + Len(left) = (q + n) + Len(e)
      BY <1>6, <1>7, <1>11, <2>2
    <2>5. Cut(S, k, w, j + 1, l)
      BY <1>4, <1>6, <1>8, <2>1, <2>3, <2>4 DEF Cut, X
    <2>6. ASSUME j + 1 < Len(S) PROVE Len(e) < Len(S[(j + 1) + 1])
      <3>1. S[(j + 1) + 1] \in DnsMessages
        <4>1. (j + 1) + 1 \in 1 .. Len(S)
          BY <1>5, <2>6
        <4> QED
          BY <4>1
      <3> QED
        BY <2>2, <3>1 DEF DnsMessages
    <2>7. After(S, j + 1, l)
      BY <2>0, <2>1, <2>6 DEF After
    <2>8. l = Parsing(l.msgs, l.left, l.on)
      BY <2>1, Zenon DEF l
    <2> QED
      BY <1>5, <1>11, <2>5, <2>7, <2>8, <2>0, Zenon DEF l, e, z
  <1>12. CASE Len(left) > n /\ Turn("DNS", z) = Parsing(Append(msgs, m), r, TRUE)
    <2> DEFINE l == Parsing(Append(msgs, m), r, TRUE)
    <2>1. l.msgs = Append(msgs, m) /\ l.left = r /\ l.on = TRUE
      BY DEF Parsing
    <2> HIDE DEF l
    <2>2. IsAt(X, q + n, r) /\ Len(r) = Len(left) - n
      <3>1. n <= Len(left)
        BY <1>7, <1>12
      <3> QED
        BY <1>2, <1>4, <1>7, <3>1, RestIsAt DEF r
    <2>3. q + Len(left) = (q + n) + Len(r)
      BY <1>6, <1>7, <2>2
    <2>4. Cut(S, k, w, j + 1, l)
      BY <1>4, <1>6, <1>8, <2>1, <2>2, <2>3 DEF Cut, X
    <2>5. Len(r) + 1 <= Len(left) /\ Len(r) > 0
      BY <1>7, <1>12, <2>2
    <2>6. r # <<>>
      BY <2>5
    <2>7. Before(S, j + 1, l) /\ Len(l.left) + 1 <= Len(left)
      BY <2>1, <2>5, <2>6 DEF Before
    <2>8. l = Parsing(l.msgs, l.left, l.on)
      BY <2>1, Zenon DEF l
    <2> QED
      BY <1>5, <1>12, <2>4, <2>7, <2>8, Zenon DEF l, z
  <1> QED
    BY <1>9, <1>10, <1>11, <1>12, Zenon
\* What the loop makes of the bytes behind the first k messages: it registers the next ones
\* that are complete, and what it keeps is less than a message.
LEMMA LoopCuts ==
  ASSUME NEW S \in Seq(DnsMessages), NEW k \in 0 .. Len(S), NEW w, w # <<>>,
         IsAt(FlattenSeq(S), Start(S, k), w)
  PROVE  \E j \in k .. Len(S) : Cut(S, k, w, j, Loop("DNS", w)) /\ After(S, j, Loop("DNS", w))
PROOF
  <1> DEFINE t == Turns("DNS", w)
             N == Len(w) + 1
  <1>1. w \in Seq(Nat) /\ Len(w) \in Nat \ {0} /\ Start(S, k) \in Nat
    BY EmptySeq DEF IsAt
  <1>2. t[0] = Parsing(<<>>, w, TRUE) /\ \A n \in 1 .. N : t[n] = Turn("DNS", t[n - 1])
    BY <1>1, TurnsAre
  <1> DEFINE Held(n, j) == /\ Cut(S, k, w, j, t[n])
                           /\ t[n] = Parsing(t[n].msgs, t[n].left, t[n].on)
                           /\ \/ After(S, j, t[n])
                              \/ Before(S, j, t[n]) /\ Len(t[n].left) + n <= Len(w)
             G == {n \in Nat : n <= N => \E j \in k .. Len(S) : Held(n, j)}
  <1> HIDE DEF t
  <1>3. 0 \in G
    <2> DEFINE e == <<>>
               l == Parsing(e, w, TRUE)
    <2>1. l.msgs = e /\ l.left = w /\ l.on = TRUE
      BY DEF Parsing
    <2>2. SubSeq(S, k + 1, k) = e
      BY SubSeqEmpty
    <2> HIDE DEF l, e
    <2>3. Cut(S, k, w, k, l)
      BY <2>1, <2>2 DEF Cut
    <2>4. Before(S, k, l) /\ Len(l.left) + 0 <= Len(w)
      BY <1>1, <2>1 DEF Before
    <2>5. l = Parsing(l.msgs, l.left, l.on)
      BY <2>1, Zenon DEF l
    <2>6. t[0] = l
      BY <1>2 DEF l, e
    <2>7. k \in k .. Len(S)
      <3>1. \A c : \A x \in 0 .. c : x \in x .. c
        OBVIOUS
      <3> QED
        BY <3>1, Zenon
    <2>8. Held(0, k)
      BY <2>3, <2>4, <2>5, <2>6
    <2> HIDE DEF Held
    <2> QED
      BY <2>7, <2>8
  <1>4. ASSUME NEW n \in Nat, n \in G PROVE n + 1 \in G
    <2>1. SUFFICES ASSUME n + 1 <= N PROVE \E j \in k .. Len(S) : Held(n + 1, j)
      <3>1. n + 1 \in Nat
        OBVIOUS
      <3> HIDE DEF Held, N
      <3> QED
        BY <3>1
    <2>2. n <= N /\ n + 1 \in 1 .. N /\ (n + 1) - 1 = n
      BY <1>1, <2>1
    <2>3. PICK j \in k .. Len(S) : Held(n, j)
      BY <1>4, <2>2
    <2> DEFINE a == t[n]
               b == t[n + 1]
    <2>4. b = Turn("DNS", a)
      BY <1>2, <2>2, Zenon
    <2>5. Cut(S, k, w, j, a) /\ a = Parsing(a.msgs, a.left, a.on)
      BY <2>3
    <2>6. CASE After(S, j, a)
      <3>1. b = a
        <4> HIDE DEF a, b
        <4> QED
          BY <2>4, <2>6 DEF Turn, After
      <3>2. Held(n + 1, j)
        <4> HIDE DEF a, b
        <4> QED
          BY <2>5, <2>6, <3>1 DEF a, b
      <3> HIDE DEF Held
      <3> QED
        BY <3>2
    <2>7. CASE Before(S, j, a) /\ Len(a.left) + n <= Len(w)
      <3>1. PICK msgs, left : msgs = a.msgs /\ left = a.left
        OBVIOUS
      <3>2. a.on = TRUE
        BY <2>7 DEF Before
      <3>3. a = Parsing(msgs, left, TRUE)
        BY <2>5, <3>1, <3>2
      <3>4. Cut(S, k, w, j, Parsing(msgs, left, TRUE)) /\ left # <<>>
        BY <2>5, <2>7, <3>1, <3>3 DEF Before
      <3>5. PICK i \in k .. Len(S) :
               /\ Cut(S, k, w, i, b) /\ b = Parsing(b.msgs, b.left, b.on)
               /\ \/ After(S, i, b)
                  \/ Before(S, i, b) /\ Len(b.left) + 1 <= Len(left)
        <4> HIDE DEF a, b
        <4> QED
          BY <2>4, <3>3, <3>4, TurnKeepsCut
      <3>6. Len(b.left) + 1 <= Len(a.left) => Len(b.left) + (n + 1) <= Len(w)
        <4>1. Len(b.left) \in Nat /\ Len(a.left) \in Nat
          <5>1. b.left \in Seq(Nat) /\ a.left \in Seq(Nat)
            BY <2>5, <3>5 DEF Cut, IsAt
          <5> HIDE DEF a, b
          <5> QED
            BY <5>1
        <4> HIDE DEF a, b
        <4> QED
          <5>1. \A x, y, u \in Nat : x + 1 <= y /\ y + n <= u => x + (n + 1) <= u
            OBVIOUS
          <5> QED
            BY <1>1, <2>7, <4>1, <5>1
      <3>7. Held(n + 1, i)
        BY <3>1, <3>5, <3>6, Zenon
      <3> HIDE DEF Held
      <3> QED
        BY <3>7
    <2> QED
      BY <2>3, <2>6, <2>7, Zenon
  <1>5. \E j \in k .. Len(S) : Held(N, j)
    <2>1. Nat \subseteq G
      <3> HIDE DEF G
      <3> QED
        BY <1>3, <1>4, InductionOnNat
    <2>2. N \in Nat /\ N <= N
      BY <1>1
    <2> QED
      BY <2>1, <2>2
  <1>6. PICK j \in k .. Len(S) : Held(N, j)
    BY <1>5
  <1> DEFINE z == t[N]
  <1>7. Cut(S, k, w, j, z) /\ (After(S, j, z) \/ (Before(S, j, z) /\ Len(z.left) + N <= Len(w)))
    BY <1>6, Zenon
  <1>8. z = Loop("DNS", w)
    BY DEF Loop, t
  <1> HIDE DEF z
  <1>9. z.left \in Seq(Nat)
    BY <1>7 DEF Cut, IsAt
  <1>10. ~(Len(z.left) + N <= Len(w))
    <2>1. Len(z.left) \in Nat
      BY <1>9
    <2>2. \A x, y \in Nat : ~(x + (y + 1) <= y)
      OBVIOUS
    <2>3. Len(w) \in Nat
      BY <1>1
    <2> QED
      BY <2>1, <2>2, <2>3, Zenon
  <1> QED
    BY <1>7, <1>8, <1>10, Zenon
-----------------------------------------------------------------------------
(* The list of left data                                                    *)

\* The left data of a connection in a list
LeftIn(list, s) ==
  IF \E k \in DOMAIN list : list[k].sid = s
    THEN list[CHOOSE k \in DOMAIN list : list[k].sid = s].data ELSE <<>>

\* The connections made since the last departure of a client
Recent == socketid - fresh + 1 .. socketid

\* A list of at most two nodes, of different connections
Short(list) ==
  \/ list = <<>>
  \/ \E x : list = <<x>>
  \/ \E x, y : x.sid # y.sid /\ list = <<x, y>>

\* The last pointer is at the last node, the counter is right, and nodes are of recent
\* connections
Fits(b) ==
  /\ Short(b.list) /\ b.last = Len(b.list) /\ b.num = Len(b.list)
  /\ \A k \in DOMAIN b.list : b.list[k].sid \in Recent

\* Sequences of one and two.
LEMMA OneAndTwo ==
  ASSUME NEW x, NEW y
  PROVE  /\ RemoveAt(<<x>>, 1) = <<>>
         /\ RemoveAt(<<x, y>>, 1) = <<y>> /\ RemoveAt(<<x, y>>, 2) = <<x>>
         /\ Append(SubSeq(<<x>>, 1, 1), y) = <<x, y>>
PROOF
  <1> DEFINE M == {x, y}
             p == <<x>>
             q == <<x, y>>
  <1>1. p \in Seq(M) /\ Len(p) = 1 /\ p[1] = x
    OBVIOUS
  <1>2. q \in Seq(M) /\ Len(q) = 2 /\ q[1] = x /\ q[2] = y
    OBVIOUS
  <1>3. <<y>> \in Seq(M) /\ Len(<<y>>) = 1 /\ <<y>>[1] = y
    OBVIOUS
  <1>4. <<>> \in Seq(M) /\ Len(<<>>) = 0
    OBVIOUS
  <1> DEFINE r == <<y>>
             o == <<>>
  <1>5. r \in Seq(M) /\ Len(r) = 1 /\ r[1] = y /\ o \in Seq(M) /\ Len(o) = 0
    BY <1>3, <1>4
  <1>6. x \in M /\ y \in M
    OBVIOUS
  <1> HIDE DEF p, q, r, o, M
  <1>7. SubSeq(p, 1, 0) = o /\ SubSeq(p, 2, 1) = o /\ SubSeq(q, 1, 0) = o /\ SubSeq(q, 3, 2) = o
    BY SubSeqEmpty DEF o
  <1>8. SubSeq(q, 2, 2) = r
    <2>1. SubSeq(q, 2, 2) \in Seq(M) /\ Len(SubSeq(q, 2, 2)) = 1 /\ SubSeq(q, 2, 2)[1] = y
      BY <1>2, SubSeqProperties
    <2> QED
      BY <1>5, <2>1, SeqEqual
  <1>9. SubSeq(q, 1, 1) = p
    <2>1. SubSeq(q, 1, 1) \in Seq(M) /\ Len(SubSeq(q, 1, 1)) = 1 /\ SubSeq(q, 1, 1)[1] = x
      BY <1>2
    <2> QED
      BY <1>1, <2>1, SeqEqual
  <1>10. SubSeq(p, 1, 1) = p
    <2>1. SubSeq(p, 1, 1) \in Seq(M) /\ Len(SubSeq(p, 1, 1)) = 1 /\ SubSeq(p, 1, 1)[1] = x
      BY <1>1
    <2> QED
      BY <1>1, <2>1, SeqEqual
  <1>11. o \o o = o /\ o \o r = r /\ p \o o = p
    BY <1>1, <1>5, ConcatEmptySeq DEF o
  <1>12. Append(p, y) = q
    <2>1. Append(p, y) \in Seq(M) /\ Len(Append(p, y)) = 2 /\ Append(p, y)[1] = x
          /\ Append(p, y)[2] = y
      <3>1. /\ Append(p, y) \in Seq(M) /\ Len(Append(p, y)) = Len(p) + 1
            /\ \A i \in 1 .. Len(p) + 1 : Append(p, y)[i] = IF i <= Len(p) THEN p[i] ELSE y
        BY <1>1, <1>6, Appended
      <3>2. Len(p) + 1 = 2 /\ 1 \in 1 .. 2 /\ 2 \in 1 .. 2 /\ 1 <= Len(p) /\ ~(2 <= Len(p))
        BY <1>1
      <3> DEFINE a == Append(p, y)
      <3> HIDE DEF a
      <3>3. a \in Seq(M) /\ Len(a) = 2 /\ \A i \in 1 .. 2 : a[i] = IF i <= Len(p) THEN p[i] ELSE y
        BY <3>1, <3>2, Zenon DEF a
      <3>4. a[1] = x /\ a[2] = y
        BY <1>1, <3>2, <3>3
      <3> QED
        BY <3>3, <3>4 DEF a
    <2>2. \A i \in 1 .. 2 : Append(p, y)[i] = q[i]
      BY <1>2, <2>1
    <2> QED
      BY <1>2, <2>1, <2>2, SeqEqual
  <1>13. RemoveAt(p, 1) = o
    BY <1>1, <1>7, <1>11 DEF RemoveAt
  <1>14. RemoveAt(q, 1) = r
    BY <1>2, <1>7, <1>8, <1>11 DEF RemoveAt
  <1>15. RemoveAt(q, 2) = p
    BY <1>2, <1>7, <1>9, <1>11 DEF RemoveAt
  <1> QED
    BY <1>10, <1>12, <1>13, <1>14, <1>15 DEF p, q, r, o

\* What lists of one and two hold.
LEMMA LeftInShort ==
  ASSUME NEW s, NEW x, NEW y
  PROVE  /\ LeftIn(<<>>, s) = <<>>
         /\ LeftIn(<<x>>, s) = IF x.sid = s THEN x.data ELSE <<>>
         /\ x.sid # y.sid => LeftIn(<<x, y>>, s) = IF x.sid = s THEN x.data
                                                   ELSE IF y.sid = s THEN y.data ELSE <<>>
PROOF
  <1>1. LeftIn(<<>>, s) = <<>>
    BY DEF LeftIn
  <1>2. LeftIn(<<x>>, s) = IF x.sid = s THEN x.data ELSE <<>>
    <2> DEFINE p == <<x>>
    <2>1. DOMAIN p = {1} /\ p[1] = x
      OBVIOUS
    <2> HIDE DEF p
    <2>2. LeftIn(p, s) = IF x.sid = s THEN x.data ELSE <<>>
      <3>1. CASE x.sid = s
        <4>1. (CHOOSE k \in DOMAIN p : p[k].sid = s) = 1
          BY <2>1, <3>1
        <4> QED
          BY <2>1, <3>1, <4>1 DEF LeftIn
      <3>2. CASE x.sid # s
        BY <2>1, <3>2 DEF LeftIn
      <3> QED
        BY <3>1, <3>2
    <2> QED
      BY <2>2 DEF p
  <1>3. ASSUME x.sid # y.sid
        PROVE  LeftIn(<<x, y>>, s) = IF x.sid = s THEN x.data
                                     ELSE IF y.sid = s THEN y.data ELSE <<>>
    <2> DEFINE p == <<x, y>>
    <2>1. DOMAIN p = {1, 2} /\ p[1] = x /\ p[2] = y
      OBVIOUS
    <2> HIDE DEF p
    <2>2. CASE x.sid = s
      <3>1. (CHOOSE k \in DOMAIN p : p[k].sid = s) = 1
        BY <1>3, <2>1, <2>2
      <3> QED
        BY <2>1, <2>2, <3>1 DEF LeftIn, p
    <2>3. CASE x.sid # s /\ y.sid = s
      <3>1. (CHOOSE k \in DOMAIN p : p[k].sid = s) = 2
        BY <1>3, <2>1, <2>3
      <3> QED
        BY <2>1, <2>3, <3>1 DEF LeftIn, p
    <2>4. CASE x.sid # s /\ y.sid # s
      BY <2>1, <2>4 DEF LeftIn, p
    <2> QED
      BY <2>2, <2>3, <2>4
  <1> QED
    BY <1>1, <1>2, <1>3
\* A recent connection whose data are taken out leaves at most the node of one other.
LEMMA GetLeavesOne ==
  ASSUME Fits(Buffers(ld, ldLast, ldNum)), NEW s \in Recent,
         socketid \in Int, fresh \in 0 .. 2
  PROVE  \/ /\ kBufferGet(s) = Buffers(<<>>, 0, 0)
            /\ \A u : u # s => LeftOf(u) = <<>>
         \/ \E x : /\ kBufferGet(s) = Buffers(<<x>>, 1, 1)
                   /\ x.sid \in Recent /\ x.sid # s
                   /\ \A u : u # s => LeftOf(u) = IF x.sid = u THEN x.data ELSE <<>>
PROOF
  <1> DEFINE b == Buffers(ld, ldLast, ldNum)
  <1>1. /\ Short(ld) /\ ldLast = Len(ld) /\ ldNum = Len(ld)
        /\ \A k \in DOMAIN ld : ld[k].sid \in Recent
    <2>1. b.list = ld /\ b.last = ldLast /\ b.num = ldNum
      BY DEF Buffers
    <2> HIDE DEF b
    <2>2. Fits(b)
      BY DEF b
    <2> QED
      BY <2>1, <2>2, Zenon DEF Fits
  <1>2. \A u : LeftOf(u) = LeftIn(ld, u)
    BY DEF LeftOf, LeftIn, HasLeft, LeftAt
  <1>3. CASE ld = <<>>
    <2>1. ~HasLeft(s) /\ ldLast = 0 /\ ldNum = 0
      BY <1>1, <1>3 DEF HasLeft
    <2>2. \A u : LeftOf(u) = <<>>
      BY <1>2, <1>3, LeftInShort
    <2> QED
      BY <1>3, <2>1, <2>2 DEF kBufferGet
  <1>4. ASSUME NEW x, ld = <<x>>
        PROVE  \/ /\ kBufferGet(s) = Buffers(<<>>, 0, 0)
                  /\ \A u : u # s => LeftOf(u) = <<>>
               \/ /\ kBufferGet(s) = Buffers(<<x>>, 1, 1)
                  /\ x.sid \in Recent /\ x.sid # s
                  /\ \A u : u # s => LeftOf(u) = IF x.sid = u THEN x.data ELSE <<>>
    <2>1. DOMAIN ld = {1} /\ ld[1] = x /\ Len(ld) = 1
      BY <1>4
    <2>2. x.sid \in Recent /\ ldLast = 1 /\ ldNum = 1
      BY <1>1, <2>1
    <2>3. \A u : LeftOf(u) = IF x.sid = u THEN x.data ELSE <<>>
      BY <1>2, <1>4, LeftInShort
    <2>4. CASE x.sid = s
      <3>1. HasLeft(s) /\ LeftAt(s) = 1
        BY <2>1, <2>4 DEF HasLeft, LeftAt
      <3>2. RemoveAt(ld, 1) = <<>>
        BY <1>4, OneAndTwo
      <3>3. kBufferGet(s) = Buffers(<<>>, 0, 0)
        BY <2>2, <3>1, <3>2 DEF kBufferGet
      <3> QED
        BY <2>3, <2>4, <3>3
    <2>5. CASE x.sid # s
      <3>1. ~HasLeft(s)
        BY <2>1, <2>5 DEF HasLeft
      <3>2. kBufferGet(s) = Buffers(<<x>>, 1, 1)
        BY <1>4, <2>2, <3>1 DEF kBufferGet
      <3> QED
        BY <2>2, <2>3, <2>5, <3>2
    <2> QED
      BY <2>4, <2>5
  <1>5. ASSUME NEW x, NEW y, x.sid # y.sid, ld = <<x, y>>
        PROVE  \E z : /\ kBufferGet(s) = Buffers(<<z>>, 1, 1)
                      /\ z.sid \in Recent /\ z.sid # s
                      /\ \A u : u # s => LeftOf(u) = IF z.sid = u THEN z.data ELSE <<>>
    <2>1. DOMAIN ld = {1, 2} /\ ld[1] = x /\ ld[2] = y /\ Len(ld) = 2
      BY <1>5
    <2>2. x.sid \in Recent /\ y.sid \in Recent /\ ldLast = 2 /\ ldNum = 2
      BY <1>1, <2>1
    <2>3. \A u : LeftOf(u) = IF x.sid = u THEN x.data ELSE IF y.sid = u THEN y.data ELSE <<>>
      BY <1>2, <1>5, LeftInShort
    <2>4. s = x.sid \/ s = y.sid
      BY <1>5, <2>2 DEF Recent
    <2>5. RemoveAt(ld, 1) = <<y>> /\ RemoveAt(ld, 2) = <<x>>
      BY <1>5, OneAndTwo
    <2>6. CASE s = x.sid
      <3>1. HasLeft(s) /\ LeftAt(s) = 1
        BY <1>5, <2>1, <2>6 DEF HasLeft, LeftAt
      <3>2. kBufferGet(s) = Buffers(<<y>>, 1, 1)
        BY <2>2, <2>5, <3>1 DEF kBufferGet
      <3>3. y.sid # s /\ \A u : u # s => LeftOf(u) = IF y.sid = u THEN y.data ELSE <<>>
        BY <1>5, <2>3, <2>6
      <3> QED
        BY <2>2, <3>2, <3>3
    <2>7. CASE s = y.sid
      <3>1. HasLeft(s) /\ LeftAt(s) = 2
        BY <1>5, <2>1, <2>7 DEF HasLeft, LeftAt
      <3>2. kBufferGet(s) = Buffers(<<x>>, 1, 1)
        BY <2>2, <2>5, <3>1 DEF kBufferGet
      <3>3. x.sid # s /\ \A u : u # s => LeftOf(u) = IF x.sid = u THEN x.data ELSE <<>>
        BY <1>5, <2>3, <2>7
      <3> QED
        BY <2>2, <3>2, <3>3
    <2> QED
      BY <2>4, <2>6, <2>7
  <1>6. Short(ld)
    BY <1>1
  <1> QED
    BY <1>3, <1>4, <1>5, <1>6, Zenon DEF Short

\* What makes a list fit, as three values.
LEMMA FitsIs ==
  ASSUME NEW p, NEW q, NEW r, Short(p), q = Len(p), r = Len(p),
         \A k \in DOMAIN p : p[k].sid \in Recent
  PROVE  Fits(Buffers(p, q, r))
PROOF
  <1> DEFINE b == Buffers(p, q, r)
  <1>1. b.list = p /\ b.last = q /\ b.num = r
    BY DEF Buffers
  <1> HIDE DEF b
  <1>2. Fits(b)
    BY <1>1 DEF Fits
  <1> QED
    BY <1>2 DEF b

\* A segment of a recent connection leaves the other connections their data, and itself what
\* the loop has left.
LEMMA SegmentKeepsOthers ==
  ASSUME Fits(Buffers(ld, ldLast, ldNum)), NEW s \in Recent,
         socketid \in Nat, fresh \in 0 .. 2, fresh <= socketid,
         NEW keeps \in BOOLEAN, NEW data, NEW b,
         b = IF keeps THEN kBufferSet(kBufferGet(s), s, data) ELSE kBufferGet(s)
  PROVE  /\ Fits(Buffers(b.list, b.last, b.num))
         /\ \A u : u # s => LeftIn(b.list, u) = LeftOf(u)
         /\ LeftIn(b.list, s) = IF keeps THEN data ELSE <<>>
PROOF
  <1> DEFINE node == [sid |-> s, data |-> data]
  <1>1. node.sid = s /\ node.data = data
    OBVIOUS
  <1>2. \A p, q, r : Buffers(p, q, r).list = p /\ Buffers(p, q, r).last = q /\ Buffers(p, q, r).num = r
    BY DEF Buffers
  <1> HIDE DEF node
  <1>3. CASE kBufferGet(s) = Buffers(<<>>, 0, 0) /\ \A u : u # s => LeftOf(u) = <<>>
    <2>1. socketid # 0
      BY DEF Recent
    <2>2. CASE keeps
      <3>1. kBufferSet(Buffers(<<>>, 0, 0), s, data) = Buffers(<<node>>, 1, 1)
        <4> DEFINE g == Buffers(<<>>, 0, 0)
        <4>1. g.list = <<>> /\ g.last = 0 /\ g.num = 0
          BY DEF Buffers
        <4> HIDE DEF g
        <4> QED
          BY <2>1, <4>1 DEF kBufferSet, node, g
      <3>2. b.list = <<node>> /\ b.last = 1 /\ b.num = 1
        BY <1>2, <1>3, <2>2, <3>1
      <3>3. Fits(Buffers(b.list, b.last, b.num))
        <4>1. Short(b.list) /\ Len(b.list) = 1 /\ \A k \in DOMAIN b.list : b.list[k].sid \in Recent
          <5>1. Short(b.list)
            BY <3>2 DEF Short
          <5>2. DOMAIN b.list = {1} /\ b.list[1] = node /\ Len(b.list) = 1
            BY <3>2
          <5> QED
            BY <1>1, <5>1, <5>2
        <4> QED
          BY <3>2, <4>1, FitsIs
      <3>4. \A u : LeftIn(b.list, u) = IF s = u THEN data ELSE <<>>
        <4>1. \A u : LeftIn(<<node>>, u) = IF node.sid = u THEN node.data ELSE <<>>
          BY LeftInShort
        <4> QED
          BY <1>1, <3>2, <4>1
      <3> QED
        BY <1>3, <2>2, <3>3, <3>4
    <2>3. CASE ~keeps
      <3>1. b.list = <<>> /\ b.last = 0 /\ b.num = 0
        BY <1>2, <1>3, <2>3
      <3>2. Fits(Buffers(b.list, b.last, b.num))
        <4>1. Short(b.list) /\ Len(b.list) = 0 /\ DOMAIN b.list = {}
          BY <3>1 DEF Short
        <4> QED
          BY <3>1, <4>1, FitsIs
      <3>3. \A u : LeftIn(b.list, u) = <<>>
        BY <3>1, LeftInShort
      <3> QED
        BY <1>3, <2>3, <3>2, <3>3
    <2> QED
      BY <2>2, <2>3
  <1>4. ASSUME NEW x, kBufferGet(s) = Buffers(<<x>>, 1, 1), x.sid \in Recent, x.sid # s,
               \A u : u # s => LeftOf(u) = IF x.sid = u THEN x.data ELSE <<>>
        PROVE  /\ Fits(Buffers(b.list, b.last, b.num))
               /\ \A u : u # s => LeftIn(b.list, u) = LeftOf(u)
               /\ LeftIn(b.list, s) = IF keeps THEN data ELSE <<>>
    <2>1. socketid # 1
      BY <1>4 DEF Recent
    <2>2. CASE keeps
      <3>1. kBufferSet(Buffers(<<x>>, 1, 1), s, data) = Buffers(<<x, node>>, 2, 2)
        <4> DEFINE p == <<x>>
                   g == Buffers(p, 1, 1)
        <4>1. DOMAIN p = {1} /\ p[1] = x /\ p # <<>>
          OBVIOUS
        <4>2. Append(SubSeq(p, 1, 1), node) = <<x, node>>
          BY OneAndTwo
        <4> HIDE DEF p
        <4>3. g.list = p /\ g.last = 1 /\ g.num = 1
          BY DEF Buffers
        <4> HIDE DEF g
        <4>4. ~(\E k \in DOMAIN p : p[k].sid = s)
          BY <1>4, <4>1
        <4>5. kBufferSet(g, s, data) = Buffers(Append(SubSeq(p, 1, 1), node), 1 + 1, 1 + 1)
          BY <2>1, <4>1, <4>3, <4>4 DEF kBufferSet, node
        <4>6. 1 + 1 = 2
          OBVIOUS
        <4>7. kBufferSet(g, s, data) = Buffers(Append(SubSeq(p, 1, 1), node), 2, 2)
          BY <4>5, <4>6
        <4>8. Append(SubSeq(p, 1, 1), node) = <<x, node>>
          BY <4>2 DEF p
        <4>9. kBufferSet(g, s, data) = Buffers(<<x, node>>, 2, 2)
          BY <4>7, <4>8, Zenon
        <4> QED
          BY <4>9, Zenon DEF g, p
      <3>2. b.list = <<x, node>> /\ b.last = 2 /\ b.num = 2
        BY <1>2, <1>4, <2>2, <3>1
      <3>3. Fits(Buffers(b.list, b.last, b.num))
        <4>1. Short(b.list) /\ Len(b.list) = 2 /\ \A k \in DOMAIN b.list : b.list[k].sid \in Recent
          <5>1. Short(b.list)
            BY <1>1, <1>4, <3>2 DEF Short
          <5>2. DOMAIN b.list = {1, 2} /\ b.list[1] = x /\ b.list[2] = node /\ Len(b.list) = 2
            BY <3>2
          <5> QED
            BY <1>1, <1>4, <5>1, <5>2
        <4> QED
          BY <3>2, <4>1, FitsIs
      <3>4. \A u : LeftIn(b.list, u) = IF x.sid = u THEN x.data ELSE IF s = u THEN data ELSE <<>>
        <4>1. x.sid # node.sid
          BY <1>1, <1>4
        <4>2. \A u : LeftIn(<<x, node>>, u) = IF x.sid = u THEN x.data
                                              ELSE IF node.sid = u THEN node.data ELSE <<>>
          BY <4>1, LeftInShort
        <4> QED
          BY <1>1, <3>2, <4>2
      <3> QED
        BY <1>4, <2>2, <3>3, <3>4
    <2>3. CASE ~keeps
      <3>1. b.list = <<x>> /\ b.last = 1 /\ b.num = 1
        BY <1>2, <1>4, <2>3
      <3>2. Fits(Buffers(b.list, b.last, b.num))
        <4>1. Short(b.list) /\ Len(b.list) = 1 /\ \A k \in DOMAIN b.list : b.list[k].sid \in Recent
          <5>1. Short(b.list)
            BY <3>1 DEF Short
          <5>2. DOMAIN b.list = {1} /\ b.list[1] = x /\ Len(b.list) = 1
            BY <3>1
          <5> QED
            BY <1>4, <5>1, <5>2
        <4> QED
          BY <3>1, <4>1, FitsIs
      <3>3. \A u : LeftIn(b.list, u) = IF x.sid = u THEN x.data ELSE <<>>
        <4>1. \A u : LeftIn(<<x>>, u) = IF x.sid = u THEN x.data ELSE <<>>
          BY LeftInShort
        <4> QED
          BY <3>1, <4>1
      <3> QED
        BY <1>4, <2>3, <3>2, <3>3
    <2> QED
      BY <2>2, <2>3
  <1>5. socketid \in Int
    OBVIOUS
  <1> QED
    BY <1>3, <1>4, <1>5, GetLeavesOne
-----------------------------------------------------------------------------
(* One connection                                                           *)

\* What is stored are the first k messages of S, and the left data and then the bytes on
\* their way are what follows; no message is whole in the left data.
KeptAt(S, left, onWay, stored, k) ==
  /\ stored = SubSeq(S, 1, k)
  /\ IsAt(FlattenSeq(S), Start(S, k), left)
  /\ IsAt(FlattenSeq(S), Start(S, k) + Len(left), onWay)
  /\ Start(S, k) + Len(left) + Len(onWay) = Len(FlattenSeq(S))
  /\ k < Len(S) => Len(left) < Len(S[k + 1])

Kept(S, left, onWay, stored) ==
  S \in Seq(DnsMessages) /\ \E k \in 0 .. Len(S) : KeptAt(S, left, onWay, stored, k)

\* Messages are texts.
LEMMA MessagesAreTexts ==
  ASSUME NEW S \in Seq(DnsMessages)
  PROVE  S \in Texts /\ FlattenSeq(S) \in Seq(Nat) /\ Len(FlattenSeq(S)) \in Nat
PROOF
  <1>1. S \in Texts
    <2>1. DnsMessages \subseteq Seq(Nat)
      BY DEF DnsMessages
    <2> HIDE DEF DnsMessages
    <2> QED
      BY <2>1 DEF Texts
  <1>2. <<>> \in Seq(Nat)
    OBVIOUS
  <1>3. FlattenSeq(S) \in Seq(Nat)
    BY <1>1, <1>2, FlattenGrows
  <1>4. \A x \in Seq(Nat) : Len(x) \in Nat
    OBVIOUS
  <1> QED
    BY <1>1, <1>3, <1>4

\* Bytes behind bytes.
LEMMA IsAtJoined ==
  ASSUME NEW X, Len(X) \in Nat, NEW p, NEW a, NEW b, IsAt(X, p, a), IsAt(X, p + Len(a), b)
  PROVE  IsAt(X, p, a \o b) /\ Len(a \o b) = Len(a) + Len(b)
PROOF
  <1> DEFINE q == p + Len(a)
  <1>1. /\ a \in Seq(Nat) /\ p \in Nat /\ b \in Seq(Nat) /\ q \in Nat
        /\ q + Len(b) <= Len(X) /\ Len(a) \in Nat /\ Len(b) \in Nat
        /\ \A i \in 1 .. Len(a) : a[i] = X[p + i]
        /\ \A i \in 1 .. Len(b) : b[i] = X[q + i]
    <2>1. /\ a \in Seq(Nat) /\ p \in Nat
          /\ \A i \in 1 .. Len(a) : a[i] = X[p + i]
      BY DEF IsAt
    <2>2. Len(a) \in Nat /\ q \in Nat
      BY <2>1
    <2> HIDE DEF q
    <2>3. /\ b \in Seq(Nat) /\ q + Len(b) <= Len(X)
          /\ \A i \in 1 .. Len(b) : b[i] = X[q + i]
      BY DEF IsAt, q
    <2>4. Len(b) \in Nat
      BY <2>3
    <2> QED
      BY <2>1, <2>2, <2>3, <2>4
  <1>2. IsAt(X, p, a \o b) /\ Len(a \o b) = Len(a) + Len(b)
    <2> DEFINE c == a \o b
    <2>1. /\ c \in Seq(Nat) /\ Len(c) = Len(a) + Len(b)
          /\ \A i \in 1 .. Len(c) : c[i] = IF i <= Len(a) THEN a[i] ELSE b[i - Len(a)]
      BY <1>1
    <2> HIDE DEF c
    <2>2. ASSUME NEW i \in 1 .. Len(c) PROVE c[i] = X[p + i]
      <3>1. CASE i <= Len(a)
        <4>1. i \in 1 .. Len(a)
          BY <1>1, <3>1
        <4>2. c[i] = a[i]
          BY <2>1, <3>1, Zenon
        <4> QED
          BY <1>1, <4>1, <4>2, Zenon
      <3>2. CASE i > Len(a)
        <4>1. i - Len(a) \in 1 .. Len(b) /\ q + (i - Len(a)) = p + i
          <5>1. PICK x \in Nat, y \in Nat : x = Len(a) /\ y = Len(b)
            BY <1>1
          <5>2. i \in 1 .. x + y /\ i > x
            BY <2>1, <3>2, <5>1
          <5>3. i - x \in 1 .. y /\ (p + x) + (i - x) = p + i
            BY <1>1, <5>2
          <5> QED
            BY <5>1, <5>3
        <4>2. c[i] = b[i - Len(a)]
          <5>1. i \in 1 .. Len(c) /\ ~(i <= Len(a))
            BY <1>1, <3>2
          <5> QED
            BY <2>1, <5>1, Zenon
        <4>3. b[i - Len(a)] = X[q + (i - Len(a))]
          BY <1>1, <4>1, Zenon
        <4> QED
          BY <4>1, <4>2, <4>3
      <3> QED
        BY <1>1, <2>1, <3>1, <3>2
    <2>3. p + Len(c) <= Len(X)
      BY <1>1, <2>1
    <2> QED
      BY <1>1, <2>1, <2>2, <2>3 DEF IsAt, c
  <1> QED
    BY <1>2

\* A part of bytes.
LEMMA IsAtParts ==
  ASSUME NEW X, Len(X) \in Nat, NEW q, NEW b, IsAt(X, q, b), NEW n \in 0 .. Len(b)
  PROVE  /\ IsAt(X, q, SubSeq(b, 1, n)) /\ Len(SubSeq(b, 1, n)) = n
         /\ IsAt(X, q + n, SubSeq(b, n + 1, Len(b)))
         /\ Len(SubSeq(b, n + 1, Len(b))) = Len(b) - n
PROOF
  <1>1. /\ b \in Seq(Nat) /\ q \in Nat /\ q + Len(b) <= Len(X) /\ Len(b) \in Nat
        /\ \A i \in 1 .. Len(b) : b[i] = X[q + i]
    BY DEF IsAt
  <1> DEFINE c == SubSeq(b, 1, n)
             d == SubSeq(b, n + 1, Len(b))
             m == Len(b) - n
  <1>2. c \in Seq(Nat) /\ Len(c) = n /\ \A i \in 1 .. n : c[i] = b[i]
    BY <1>1
  <1>3. n \in Nat /\ n <= Len(b) /\ m \in Nat
    BY <1>1
  <1>4. d \in Seq(Nat) /\ Len(d) = m /\ \A i \in 1 .. m : d[i] = b[n + i]
    BY <1>1, <1>3
  <1>5. /\ q + n \in Nat /\ (q + n) + m <= Len(X) /\ q + n <= Len(X)
        /\ \A i \in 1 .. m : n + i \in 1 .. Len(b) /\ q + (n + i) = (q + n) + i
    BY <1>1, <1>3
  <1>6. \A i \in 1 .. n : i \in 1 .. Len(b)
    BY <1>1, <1>3
  <1> HIDE DEF c, d, m
  <1>7. IsAt(X, q, c)
    BY <1>1, <1>2, <1>5, <1>6 DEF IsAt
  <1>8. \A i \in 1 .. m : d[i] = X[(q + n) + i]
    BY <1>1, <1>4, <1>5
  <1>9. IsAt(X, q + n, d)
    BY <1>4, <1>5, <1>8 DEF IsAt
  <1> QED
    BY <1>2, <1>4, <1>7, <1>9 DEF c, d, m

\* Two parts of a sequence that follow each other.
LEMMA PartsJoin ==
  ASSUME NEW M, NEW S \in Seq(M), NEW k \in 0 .. Len(S), NEW j \in k .. Len(S)
  PROVE  SubSeq(S, 1, k) \o SubSeq(S, k + 1, j) = SubSeq(S, 1, j)
PROOF
  <1> DEFINE a == SubSeq(S, 1, k)
             b == SubSeq(S, k + 1, j)
             c == SubSeq(S, 1, j)
             n == j - k
  <1>1. k \in Nat /\ j \in Nat /\ n \in Nat /\ Len(S) \in Nat /\ k <= j /\ j <= Len(S)
    OBVIOUS
  <1>2. a \in Seq(M) /\ Len(a) = k /\ \A i \in 1 .. k : a[i] = S[i]
    BY <1>1
  <1>3. b \in Seq(M) /\ Len(b) = n /\ \A i \in 1 .. n : b[i] = S[k + i]
    <2>1. b \in Seq(M)
      BY <1>1
    <2>2. Len(b) = n
      BY <1>1
    <2>3. \A i \in 1 .. n : b[i] = S[k + i]
      BY <1>1
    <2> QED
      BY <2>1, <2>2, <2>3
  <1>4. c \in Seq(M) /\ Len(c) = j /\ \A i \in 1 .. j : c[i] = S[i]
    BY <1>1
  <1>5. k + n = j
    BY <1>1
  <1> HIDE DEF a, b, c, n
  <1>6. /\ a \o b \in Seq(M) /\ Len(a \o b) = j
        /\ \A i \in 1 .. j : (a \o b)[i] = IF i <= k THEN a[i] ELSE b[i - k]
    <2>1. a \o b \in Seq(M) /\ Len(a \o b) = Len(a) + Len(b)
          /\ \A i \in 1 .. Len(a) + Len(b) :
               (a \o b)[i] = IF i <= Len(a) THEN a[i] ELSE b[i - Len(a)]
      BY <1>2, <1>3, ConcatProperties
    <2>2. Len(a) + Len(b) = j /\ Len(a) = k
      BY <1>2, <1>3, <1>5
    <2> QED
      BY <2>1, <2>2, Zenon
  <1>7. ASSUME NEW i \in 1 .. j PROVE (a \o b)[i] = c[i]
    <2>1. CASE i <= k
      <3>1. i \in 1 .. k
        BY <1>1, <2>1
      <3>2. (a \o b)[i] = a[i]
        BY <1>6, <2>1, Zenon
      <3> QED
        BY <1>2, <1>4, <3>1, <3>2, Zenon
    <2>2. CASE i > k
      <3>1. i - k \in 1 .. n /\ k + (i - k) = i
        BY <1>1, <1>5, <2>2
      <3>2. b[i - k] = S[i]
        BY <1>3, <3>1
      <3>3. (a \o b)[i] = b[i - k]
        BY <1>1, <1>6, <2>2
      <3> QED
        BY <1>4, <3>2, <3>3
    <2> QED
      <3>1. i <= k \/ i > k
        BY <1>1
      <3> QED
        BY <2>1, <2>2, <3>1, Zenon
  <1>8. a \o b = c
    BY <1>4, <1>6, <1>7, SeqEqual
  <1> QED
    BY <1>8 DEF a, b, c
\* A connection that has just been made.
LEMMA KeptAtFirst ==
  ASSUME NEW e, e = <<>>
  PROVE  Kept(e, e, e, e)
PROOF
  <1>1. e \in Seq(DnsMessages) /\ Len(e) = 0 /\ e \in Seq(Nat)
    OBVIOUS
  <1>2. FlattenSeq(e) = e
    BY DEF FlattenSeq
  <1>3. SubSeq(e, 1, 0) = e
    BY SubSeqEmpty
  <1>4. Start(e, 0) = 0
    BY <1>1, <1>2, <1>3 DEF Start, Firsts
  <1>5. IsAt(e, 0, e) /\ 0 + Len(e) = 0 /\ 0 + Len(e) + Len(e) = Len(e)
    <2>1. 0 + 0 = 0 /\ 0 + 0 <= 0 /\ \A i \in 1 .. 0 : FALSE
      OBVIOUS
    <2> QED
      BY <1>1, <2>1 DEF IsAt
  <1>6. KeptAt(e, e, e, e, 0)
    BY <1>1, <1>2, <1>3, <1>4, <1>5 DEF KeptAt
  <1>7. 0 \in 0 .. Len(e)
    BY <1>1
  <1> QED
    BY <1>1, <1>6, <1>7 DEF Kept

\* A segment of n bytes is read and parsed.
LEMMA KeptWhenRead ==
  ASSUME NEW S, NEW left, NEW onWay, NEW stored, Kept(S, left, onWay, stored),
         NEW n \in 1 .. Len(onWay), NEW l, l = Loop("DNS", left \o SubSeq(onWay, 1, n))
  PROVE  Kept(S, l.left, SubSeq(onWay, n + 1, Len(onWay)), stored \o l.msgs)
PROOF
  <1>1. S \in Seq(DnsMessages) /\ \E k \in 0 .. Len(S) : KeptAt(S, left, onWay, stored, k)
    BY DEF Kept
  <1>2. PICK k \in 0 .. Len(S) : KeptAt(S, left, onWay, stored, k)
    BY <1>1
  <1> DEFINE X == FlattenSeq(S)
             p == Start(S, k)
             r == SubSeq(onWay, 1, n)
             d == SubSeq(onWay, n + 1, Len(onWay))
             w == left \o r
  <1>3. Len(X) \in Nat
    BY <1>1, MessagesAreTexts
  <1>4. /\ IsAt(X, p, left) /\ IsAt(X, p + Len(left), onWay)
        /\ p + Len(left) + Len(onWay) = Len(X) /\ stored = SubSeq(S, 1, k)
    BY <1>2 DEF KeptAt
  <1>5. left \in Seq(Nat) /\ onWay \in Seq(Nat) /\ p \in Nat /\ Len(left) \in Nat
        /\ Len(onWay) \in Nat /\ n \in 0 .. Len(onWay) /\ n >= 1 /\ n \in Nat
    <2>1. left \in Seq(Nat) /\ onWay \in Seq(Nat) /\ p \in Nat
      BY <1>4 DEF IsAt
    <2> HIDE DEF p
    <2> QED
      BY <2>1
  <1> HIDE DEF X, p
  <1>6. /\ IsAt(X, p + Len(left), r) /\ Len(r) = n
        /\ IsAt(X, p + Len(left) + n, d) /\ Len(d) = Len(onWay) - n
    <2> HIDE DEF r, d
    <2> QED
      BY <1>3, <1>4, <1>5, IsAtParts DEF r, d
  <1> HIDE DEF r, d
  <1>7. IsAt(X, p, w) /\ Len(w) = Len(left) + n
    <2>1. IsAt(X, p, left \o r) /\ Len(left \o r) = Len(left) + Len(r)
      BY <1>3, <1>4, <1>6, IsAtJoined
    <2> QED
      BY <1>6, <2>1
  <1> HIDE DEF w
  <1>8. w # <<>>
    <2>1. Len(w) > 0
      BY <1>5, <1>7
    <2> QED
      BY <2>1
  <1>9. PICK j \in k .. Len(S) : Cut(S, k, w, j, l) /\ After(S, j, l)
    <2>1. l = Loop("DNS", w)
      BY DEF w, r
    <2> QED
      BY <1>1, <1>7, <1>8, <2>1, LoopCuts DEF X, p
  <1> DEFINE q == Start(S, j)
  <1>10. /\ l.msgs = SubSeq(S, k + 1, j) /\ IsAt(X, q, l.left)
         /\ q + Len(l.left) = p + Len(left) + n
         /\ j < Len(S) => Len(l.left) < Len(S[j + 1])
    <2>1. l.msgs = SubSeq(S, k + 1, j) /\ IsAt(X, q, l.left) /\ q + Len(l.left) = p + Len(w)
      BY <1>9 DEF Cut, X, p
    <2>2. p + Len(w) = p + Len(left) + n
      BY <1>5, <1>7
    <2> QED
      BY <1>9, <2>1, <2>2 DEF After
  <1>11. stored \o l.msgs = SubSeq(S, 1, j)
    BY <1>1, <1>4, <1>10, PartsJoin
  <1>12. (p + Len(left) + n) + Len(d) = Len(X)
    <2>1. PICK x \in Nat, y \in Nat, z \in Nat : x = p /\ y = Len(left) /\ z = Len(onWay)
      BY <1>5
    <2>2. n \in 0 .. z /\ x + y + z = Len(X)
      BY <1>4, <1>5, <2>1
    <2>3. (x + y + n) + (z - n) = x + y + z
      BY <2>2
    <2> QED
      BY <1>6, <2>1, <2>2, <2>3
  <1>13. IsAt(X, q + Len(l.left), d) /\ q + Len(l.left) + Len(d) = Len(X)
    BY <1>6, <1>10, <1>12
  <1>14. KeptAt(S, l.left, d, stored \o l.msgs, j)
    BY <1>10, <1>11, <1>13 DEF KeptAt, X
  <1>15. j \in 0 .. Len(S)
    OBVIOUS
  <1> QED
    BY <1>1, <1>14, <1>15 DEF Kept, d

\* The peer sends one more message.
LEMMA KeptWhenSent ==
  ASSUME NEW S, NEW left, NEW onWay, NEW stored, Kept(S, left, onWay, stored),
         NEW m \in DnsMessages
  PROVE  Kept(Append(S, m), left, onWay \o m, stored)
PROOF
  <1>1. S \in Seq(DnsMessages) /\ \E k \in 0 .. Len(S) : KeptAt(S, left, onWay, stored, k)
    BY DEF Kept
  <1>2. PICK k \in 0 .. Len(S) : KeptAt(S, left, onWay, stored, k)
    BY <1>1
  <1> DEFINE X == FlattenSeq(S)
             p == Start(S, k)
             T == Append(S, m)
             Y == FlattenSeq(T)
  <1>3. S \in Texts /\ X \in Seq(Nat) /\ Len(X) \in Nat /\ m \in Seq(Nat) /\ Len(m) >= 2
        /\ Len(m) \in Nat
    <2>1. m \in Seq(Nat) /\ Len(m) >= 2
      BY DEF DnsMessages
    <2>2. Len(m) \in Nat
      BY <2>1
    <2> QED
      BY <1>1, <2>1, <2>2, MessagesAreTexts
  <1>4. T \in Seq(DnsMessages) /\ Len(T) = Len(S) + 1 /\ Len(S) \in Nat
        /\ \A i \in 1 .. Len(S) + 1 : T[i] = IF i <= Len(S) THEN S[i] ELSE m
    <2>1. Len(S) \in Nat
      BY <1>1
    <2> QED
      BY <1>1, <2>1, Appended
  <1>5. Y = X \o m
    BY <1>3, FlattenGrows
  <1>6. /\ IsAt(X, p, left) /\ IsAt(X, p + Len(left), onWay)
        /\ p + Len(left) + Len(onWay) = Len(X) /\ stored = SubSeq(S, 1, k)
        /\ k < Len(S) => Len(left) < Len(S[k + 1])
    BY <1>2 DEF KeptAt
  <1>7. SubSeq(T, 1, k) = SubSeq(S, 1, k)
    <2> DEFINE a == SubSeq(T, 1, k)
               b == SubSeq(S, 1, k)
    <2>1. k \in Nat /\ k <= Len(S) /\ k <= Len(S) + 1
      BY <1>4
    <2> HIDE DEF T
    <2>2. a \in Seq(DnsMessages) /\ Len(a) = k /\ \A i \in 1 .. k : a[i] = T[i]
      BY <1>4, <2>1
    <2>3. b \in Seq(DnsMessages) /\ Len(b) = k /\ \A i \in 1 .. k : b[i] = S[i]
      BY <1>1, <1>4, <2>1
    <2>4. \A i \in 1 .. k : i \in 1 .. Len(S) + 1 /\ i <= Len(S)
      BY <1>4, <2>1
    <2> HIDE DEF a, b
    <2>5. \A i \in 1 .. k : a[i] = b[i]
      BY <1>4, <2>2, <2>3, <2>4
    <2>6. a = b
      BY <2>2, <2>3, <2>5, SeqEqual
    <2> QED
      BY <2>6 DEF a, b
  <1>8. Start(T, k) = p
    BY <1>7 DEF Start, Firsts
  <1>9. left \in Seq(Nat) /\ onWay \in Seq(Nat) /\ p \in Nat /\ Len(left) \in Nat
        /\ Len(onWay) \in Nat
    <2>1. left \in Seq(Nat) /\ onWay \in Seq(Nat) /\ p \in Nat
      BY <1>6 DEF IsAt
    <2> HIDE DEF p
    <2> QED
      BY <2>1
  <1> HIDE DEF X, p, T, Y
  <1>10. /\ Len(Y) = Len(X) + Len(m) /\ Y \in Seq(Nat)
         /\ \A i \in 1 .. Len(X) : Y[i] = X[i]
         /\ \A i \in 1 .. Len(m) : Y[Len(X) + i] = m[i]
    BY <1>3, <1>5
  <1>11. ASSUME NEW o, NEW a, IsAt(X, o, a) PROVE IsAt(Y, o, a)
    <2>1. a \in Seq(Nat) /\ o \in Nat /\ o + Len(a) <= Len(X) /\ Len(a) \in Nat
          /\ \A i \in 1 .. Len(a) : a[i] = X[o + i]
      BY <1>11 DEF IsAt
    <2>2. \A i \in 1 .. Len(a) : o + i \in 1 .. Len(X)
      BY <1>3, <2>1
    <2>3. \A i \in 1 .. Len(a) : a[i] = Y[o + i]
      BY <1>10, <2>1, <2>2, Zenon
    <2>4. o + Len(a) <= Len(Y)
      BY <1>3, <1>10, <2>1
    <2> QED
      BY <2>1, <2>3, <2>4 DEF IsAt
  <1>12. IsAt(Y, Len(X), m)
    BY <1>3, <1>10 DEF IsAt
  <1>13. IsAt(Y, p + Len(left), onWay \o m) /\ Len(onWay \o m) = Len(onWay) + Len(m)
    <2>1. IsAt(Y, p + Len(left), onWay)
      BY <1>6, <1>11
    <2>2. (p + Len(left)) + Len(onWay) = Len(X)
      BY <1>6
    <2>3. Len(Y) \in Nat
      BY <1>3, <1>10
    <2> QED
      BY <1>12, <2>1, <2>2, <2>3, IsAtJoined
  <1>14. p + Len(left) + Len(onWay \o m) = Len(Y)
    <2>1. \A x, y, z, u, v \in Nat : x + y + z = u => x + y + (z + v) = u + v
      OBVIOUS
    <2>2. p + Len(left) + Len(onWay) = Len(X)
      BY <1>6
    <2>3. p + Len(left) + (Len(onWay) + Len(m)) = Len(X) + Len(m)
      <3>1. p \in Nat /\ Len(left) \in Nat /\ Len(onWay) \in Nat /\ Len(X) \in Nat /\ Len(m) \in Nat
        BY <1>3, <1>9
      <3> QED
        BY <2>2, <3>1
    <2> QED
      BY <1>10, <1>13, <2>3
  <1>15. ASSUME k < Len(T) PROVE Len(left) < Len(T[k + 1])
    <2>1. CASE k < Len(S)
      <3>1. k + 1 \in 1 .. Len(S) + 1 /\ k + 1 <= Len(S)
        BY <1>4, <2>1
      <3> QED
        BY <1>4, <1>6, <2>1, <3>1
    <2>2. CASE k = Len(S)
      <3>1. T[k + 1] = m
        <4>1. k + 1 \in 1 .. Len(S) + 1 /\ ~(k + 1 <= Len(S))
          BY <1>4, <2>2
        <4> QED
          BY <1>4, <4>1
      <3>2. p = Len(X)
        <4>1. Firsts(S, k) = X
          BY <1>3, <2>2, FirstsGrow DEF X
        <4> QED
          BY <4>1 DEF p, Start
      <3>3. Len(left) = 0
        BY <1>3, <1>6, <1>9, <3>2
      <3> QED
        BY <1>3, <3>1, <3>3
    <2> QED
      BY <1>4, <2>1, <2>2
  <1>16. IsAt(Y, p, left)
    BY <1>6, <1>11
  <1>17. KeptAt(T, left, onWay \o m, stored, k)
    BY <1>6, <1>7, <1>8, <1>13, <1>14, <1>15, <1>16 DEF KeptAt, Y
  <1>18. k \in 0 .. Len(T)
    BY <1>4
  <1> QED
    BY <1>4, <1>17, <1>18 DEF Kept, T

\* What it means for the histories.
LEMMA KeptMeans ==
  ASSUME NEW S, NEW left, NEW onWay, NEW stored, Kept(S, left, onWay, stored)
  PROVE  /\ stored = SubSeq(S, 1, Len(stored))
         /\ Len(stored) < Len(S) => Len(left) < Len(S[Len(stored) + 1])
         /\ FlattenSeq(stored) \o left \o onWay = FlattenSeq(S)
PROOF
  <1>1. S \in Seq(DnsMessages) /\ \E k \in 0 .. Len(S) : KeptAt(S, left, onWay, stored, k)
    BY DEF Kept
  <1>2. PICK k \in 0 .. Len(S) : KeptAt(S, left, onWay, stored, k)
    BY <1>1
  <1> DEFINE X == FlattenSeq(S)
             a == Firsts(S, k)
             p == Len(a)
  <1>3. S \in Texts /\ X \in Seq(Nat) /\ Len(X) \in Nat
    BY <1>1, MessagesAreTexts
  <1>4. /\ IsAt(X, p, left) /\ IsAt(X, p + Len(left), onWay)
        /\ p + Len(left) + Len(onWay) = Len(X) /\ stored = SubSeq(S, 1, k)
        /\ k < Len(S) => Len(left) < Len(S[k + 1])
    BY <1>2 DEF KeptAt, Start
  <1>5. Len(stored) = k
    <2>1. Len(S) \in Nat
      BY <1>1
    <2>2. k \in Nat /\ k <= Len(S)
      BY <2>1
    <2>3. Len(SubSeq(S, 1, k)) = k
      BY <1>1, <2>1, <2>2
    <2> QED
      BY <1>4, <2>3
  <1>6. FlattenSeq(stored) = a
    BY <1>4 DEF Firsts
  <1>7. IsAt(X, 0, a)
    BY <1>3, FirstsAreFirst
  <1> HIDE DEF X, a
  <1>8. left \in Seq(Nat) /\ onWay \in Seq(Nat) /\ a \in Seq(Nat) /\ p \in Nat /\ Len(left) \in Nat
    <2>1. left \in Seq(Nat) /\ onWay \in Seq(Nat) /\ a \in Seq(Nat)
      BY <1>4, <1>7 DEF IsAt
    <2> QED
      BY <2>1
  <1> HIDE DEF p
  <1>9. 0 + p = p /\ p = Len(a)
    BY <1>8 DEF p
  <1> DEFINE b == a \o left
             c == b \o onWay
  <1>10. IsAt(X, 0, b) /\ Len(b) = p + Len(left)
    <2>1. IsAt(X, 0 + Len(a), left)
      BY <1>4, <1>9
    <2> QED
      BY <1>3, <1>7, <1>9, <2>1, IsAtJoined
  <1> HIDE DEF b
  <1>11. IsAt(X, 0, c) /\ Len(c) = Len(X)
    <2>1. 0 + Len(b) = p + Len(left)
      BY <1>8, <1>10
    <2>2. IsAt(X, 0 + Len(b), onWay)
      BY <1>4, <2>1
    <2>3. IsAt(X, 0, c) /\ Len(c) = Len(b) + Len(onWay)
      BY <1>3, <1>10, <2>2, IsAtJoined
    <2> QED
      BY <1>4, <1>10, <2>3
  <1> HIDE DEF c
  <1>12. c = X
    <2>1. c \in Seq(Nat) /\ \A i \in 1 .. Len(c) : c[i] = X[0 + i]
      BY <1>11 DEF IsAt
    <2>2. \A i \in 1 .. Len(c) : 0 + i = i
      OBVIOUS
    <2> QED
      BY <1>3, <1>11, <2>1, <2>2, SeqEqual
  <1>13. FlattenSeq(stored) \o left \o onWay = FlattenSeq(S)
    BY <1>6, <1>12 DEF b, c, X
  <1> QED
    BY <1>4, <1>5, <1>13
-----------------------------------------------------------------------------
(* The system                                                               *)

\* Ids go up from FirstId, connections that are open are recent ones, and there are never
\* more recent ones than MaxStreams.
StreamTypes ==
  /\ socketid \in Nat /\ fresh \in Nat /\ fresh <= MaxStreams /\ fresh <= socketid
  /\ open \subseteq Recent /\ open \subseteq Streams
  /\ DOMAIN wire = Streams /\ DOMAIN sent = Streams /\ DOMAIN store = Streams

\* What has not been opened, or is closed, has no history; what is open keeps its bytes.
DnsKept(s) ==
  /\ s \notin open => sent[s] = <<>> /\ wire[s] = <<>> /\ store[s] = <<>>
  /\ s \in open \ lost => Kept(sent[s], LeftOf(s), wire[s], store[s])

\* The inductive invariant
StreamInv ==
  /\ StreamTypes
  /\ Fits(Buffers(ld, ldLast, ldNum))
  /\ \A s \in Streams : PayloadOf[s] = "DNS" => DnsKept(s)

\* LeftOf in terms of the list.
LEMMA LeftIs == \A s : LeftOf(s) = LeftIn(ld, s)
PROOF
  BY DEF LeftOf, LeftIn, HasLeft, LeftAt

\* What Fits says of three values, whatever they are taken from.
LEMMA FitsMeans ==
  ASSUME NEW p, NEW q, NEW r, Fits(Buffers(p, q, r))
  PROVE  Short(p) /\ q = Len(p) /\ r = Len(p) /\ \A k \in DOMAIN p : p[k].sid \in Recent
PROOF
  <1> DEFINE b == Buffers(p, q, r)
  <1>1. b.list = p /\ b.last = q /\ b.num = r
    BY DEF Buffers
  <1>2. Fits(b)
    OBVIOUS
  <1> HIDE DEF b
  <1> QED
    BY <1>1, <1>2 DEF Fits

\* A connection that is not recent has no left data.
LEMMA NewHasNothing ==
  ASSUME Fits(Buffers(ld, ldLast, ldNum)), NEW s, s \notin Recent
  PROVE  LeftOf(s) = <<>>
PROOF
  <1>1. \A k \in DOMAIN ld : ld[k].sid \in Recent
    BY FitsMeans
  <1> QED
    BY <1>1 DEF LeftOf, HasLeft

\* At the start there are no messages, no left bytes and no connections.
LEMMA StreamInitially == StreamInit => StreamInv
PROOF
  <1> SUFFICES ASSUME StreamInit PROVE StreamInv
    OBVIOUS
  <1>1. StreamTypes
    BY StreamAssumption DEF StreamInit, StreamTypes
  <1>2. Fits(Buffers(ld, ldLast, ldNum))
    <2>1. ld = <<>> /\ ldLast = 0 /\ ldNum = 0
      BY DEF StreamInit
    <2>2. Len(ld) = 0 /\ DOMAIN ld = {}
      BY <2>1
    <2>3. Short(ld)
      BY <2>1 DEF Short
    <2> QED
      BY <2>1, <2>2, <2>3, FitsIs
  <1>3. ASSUME NEW s \in Streams PROVE DnsKept(s)
    BY DEF StreamInit, DnsKept
  <1> QED
    BY <1>1, <1>2, <1>3 DEF StreamInv

\* A segment is read.
LEMMA ReadKeeps ==
  ASSUME StreamInv, MaxStreams <= 2, NEW s \in Streams, NEW n \in 1 .. Len(wire[s]),
         process_si_type_tcp(s, n)
  PROVE  StreamInv'
PROOF
  <1> DEFINE space == LeftOf(s) \o SubSeq(wire[s], 1, n)
             parsed == Loop(PayloadOf[s], space)
             keeps == PayloadOf[s] \in parsers /\ parsed.left # <<>>
             b == IF keeps THEN kBufferSet(kBufferGet(s), s, parsed.left) ELSE kBufferGet(s)
  <1>1. /\ s \in open
        /\ ld' = b.list /\ ldLast' = b.last /\ ldNum' = b.num
        /\ wire' = [wire EXCEPT ![s] = SubSeq(wire[s], n + 1, Len(wire[s]))]
        /\ PayloadOf[s] \in parsers => /\ store' = [store EXCEPT ![s] = store[s] \o parsed.msgs]
                                       /\ lost' = lost
        /\ PayloadOf[s] \notin parsers => lost' = lost \cup {s} /\ store' = store
        /\ socketid' = socketid /\ open' = open /\ fresh' = fresh /\ sent' = sent
    BY DEF process_si_type_tcp
  <1>2. /\ StreamTypes /\ Fits(Buffers(ld, ldLast, ldNum))
        /\ \A u \in Streams : PayloadOf[u] = "DNS" => DnsKept(u)
    BY DEF StreamInv
  <1> HIDE DEF space
  <1>3. s \in Recent /\ socketid \in Nat /\ fresh \in 0 .. 2 /\ fresh <= socketid
    BY <1>1, <1>2, StreamAssumption DEF StreamTypes
  <1> HIDE DEF parsed
  <1>4. /\ Fits(Buffers(b.list, b.last, b.num))
        /\ \A u : u # s => LeftIn(b.list, u) = LeftOf(u)
        /\ LeftIn(b.list, s) = IF keeps THEN parsed.left ELSE <<>>
    <2>1. keeps \in BOOLEAN
      OBVIOUS
    <2> HIDE DEF keeps
    <2> QED
      BY <1>2, <1>3, <2>1, SegmentKeepsOthers
  <1> HIDE DEF b
  <1>5. Recent' = Recent
    BY <1>1 DEF Recent
  <1>6. StreamTypes'
    BY <1>1, <1>2, <1>5 DEF StreamTypes
  <1>7. Fits(Buffers(ld, ldLast, ldNum))'
    <2>1. /\ Short(b.list) /\ b.last = Len(b.list) /\ b.num = Len(b.list)
          /\ \A k \in DOMAIN b.list : b.list[k].sid \in Recent
      BY <1>4, FitsMeans
    <2> QED
      BY <1>1, <2>1, <1>5 DEF Fits, Buffers, Short
  <1>8. \A u : LeftOf(u)' = LeftIn(b.list, u)
    BY <1>1 DEF LeftOf, HasLeft, LeftAt, LeftIn
  <1>9. ASSUME NEW u \in Streams, PayloadOf[u] = "DNS" PROVE DnsKept(u)'
    <2>1. DnsKept(u)
      BY <1>2, <1>9
    <2>2. CASE u # s
      <3>1. wire'[u] = wire[u] /\ store'[u] = store[u] /\ LeftOf(u)' = LeftOf(u)
        BY <1>1, <1>2, <1>4, <1>8, <2>2 DEF StreamTypes
      <3>2. u \in open' \ lost' => u \in open \ lost
        BY <1>1
      <3> QED
        BY <1>1, <2>1, <3>1, <3>2 DEF DnsKept
    <2>3. CASE u = s /\ PayloadOf[s] \in parsers /\ s \notin lost
      <3>1. Kept(sent[s], LeftOf(s), wire[s], store[s])
        BY <1>1, <2>1, <2>3 DEF DnsKept
      <3>2. Kept(sent[s], parsed.left, SubSeq(wire[s], n + 1, Len(wire[s])),
                 store[s] \o parsed.msgs)
        <4>1. parsed = Loop("DNS", LeftOf(s) \o SubSeq(wire[s], 1, n))
          BY <1>9, <2>3 DEF parsed, space
        <4> QED
          BY <3>1, <4>1, KeptWhenRead
      <3>3. LeftOf(s)' = parsed.left
        BY <1>4, <1>8, <2>3
      <3>4. wire'[s] = SubSeq(wire[s], n + 1, Len(wire[s])) /\ store'[s] = store[s] \o parsed.msgs
        BY <1>1, <1>2, <2>3 DEF StreamTypes
      <3>5. Kept(sent'[s], LeftOf(s)', wire'[s], store'[s])
        BY <1>1, <3>2, <3>3, <3>4, Zenon
      <3> QED
        BY <1>1, <2>3, <3>5 DEF DnsKept
    <2>4. CASE u = s /\ ~(PayloadOf[s] \in parsers /\ s \notin lost)
      <3>1. s \in lost' /\ s \in open'
        BY <1>1, <2>4
      <3> QED
        BY <2>4, <3>1 DEF DnsKept
    <2> QED
      BY <2>2, <2>3, <2>4
  <1> QED
    BY <1>6, <1>7, <1>9 DEF StreamInv
\* The list is what it was and recent connections are recent still.
LEMMA ListStays ==
  ASSUME Fits(Buffers(ld, ldLast, ldNum)), UNCHANGED bufVars, Recent \subseteq Recent'
  PROVE  Fits(Buffers(ld, ldLast, ldNum))' /\ \A u : LeftOf(u)' = LeftOf(u)
PROOF
  <1>1. ld' = ld /\ ldLast' = ldLast /\ ldNum' = ldNum
    BY DEF bufVars
  <1>2. Short(ld) /\ ldLast = Len(ld) /\ ldNum = Len(ld) /\ \A k \in DOMAIN ld : ld[k].sid \in Recent
    BY FitsMeans
  <1>3. Fits(Buffers(ld, ldLast, ldNum))'
    BY <1>1, <1>2 DEF Fits, Buffers, Short
  <1>4. \A u : LeftOf(u)' = LeftOf(u)
    BY <1>1 DEF LeftOf, HasLeft, LeftAt
  <1> QED
    BY <1>3, <1>4

\* A connection is made.
LEMMA OpensKeep ==
  ASSUME StreamInv, Opens
  PROVE  StreamInv'
PROOF
  <1> DEFINE n == socketid + 1
  <1>1. /\ n \in Streams /\ fresh < MaxStreams
        /\ socketid' = n /\ open' = open \cup {n} /\ fresh' = fresh + 1
        /\ wire' = wire /\ sent' = sent /\ store' = store /\ lost' = lost /\ UNCHANGED bufVars
    BY DEF Opens, peerVars
  <1>2. /\ StreamTypes /\ Fits(Buffers(ld, ldLast, ldNum))
        /\ \A u \in Streams : PayloadOf[u] = "DNS" => DnsKept(u)
    BY DEF StreamInv
  <1>3. socketid \in Nat /\ fresh \in Nat /\ fresh <= socketid /\ MaxStreams \in Nat
    BY <1>2, StreamAssumption DEF StreamTypes
  <1>4. Recent' = Recent \cup {n} /\ n \notin Recent
    <2>1. Recent' = (n - (fresh + 1)) + 1 .. n
      BY <1>1 DEF Recent
    <2>2. \A x : x \in (n - (fresh + 1)) + 1 .. n <=> x \in socketid - fresh + 1 .. socketid \/ x = n
      BY <1>3
    <2>3. n \notin socketid - fresh + 1 .. socketid
      BY <1>3
    <2> QED
      BY <2>1, <2>2, <2>3 DEF Recent
  <1>5. StreamTypes'
    <2>1. socketid' \in Nat /\ fresh' \in Nat /\ fresh' <= MaxStreams /\ fresh' <= socketid'
      BY <1>1, <1>3
    <2>2. open' \subseteq Recent' /\ open' \subseteq Streams
      BY <1>1, <1>2, <1>4 DEF StreamTypes
    <2> QED
      BY <1>1, <1>2, <2>1, <2>2 DEF StreamTypes
  <1>6. Fits(Buffers(ld, ldLast, ldNum))' /\ \A u : LeftOf(u)' = LeftOf(u)
    BY <1>1, <1>2, <1>4, ListStays
  <1>7. n \notin open /\ LeftOf(n) = <<>>
    BY <1>2, <1>4, NewHasNothing DEF StreamTypes
  <1> HIDE DEF n
  <1>8. ASSUME NEW u \in Streams, PayloadOf[u] = "DNS" PROVE DnsKept(u)'
    <2>1. DnsKept(u)
      BY <1>2, <1>8
    <2>2. CASE u # n
      BY <1>1, <1>6, <2>1, <2>2 DEF DnsKept
    <2>3. CASE u = n
      <3>1. sent[u] = <<>> /\ wire[u] = <<>> /\ store[u] = <<>> /\ LeftOf(u) = <<>>
        BY <1>7, <2>1, <2>3 DEF DnsKept
      <3>2. Kept(sent[u], LeftOf(u), wire[u], store[u])
        <4>1. \A e : e = <<>> => Kept(e, e, e, e)
          BY KeptAtFirst
        <4> QED
          BY <3>1, <4>1
      <3> QED
        BY <1>1, <1>6, <2>3, <3>2 DEF DnsKept
    <2> QED
      BY <2>2, <2>3
  <1> QED
    BY <1>5, <1>6, <1>8 DEF StreamInv

\* Histories are forgotten with their connections; the others are what they were, unless
\* none is open any more.
LEMMA ForgetKeeps ==
  ASSUME StreamInv, NEW closed, Forget(closed), socketid' = socketid,
         \/ UNCHANGED <<fresh, bufVars>>
         \/ Streams \subseteq closed /\ fresh' = 0 /\ kBufferInit
  PROVE  StreamInv'
PROOF
  <1>1. /\ wire' = [s \in Streams |-> IF s \in closed THEN <<>> ELSE wire[s]]
        /\ sent' = [s \in Streams |-> IF s \in closed THEN <<>> ELSE sent[s]]
        /\ store' = [s \in Streams |-> IF s \in closed THEN <<>> ELSE store[s]]
        /\ lost' = lost \ closed /\ open' = open \ closed
    BY DEF Forget
  <1>2. /\ StreamTypes /\ Fits(Buffers(ld, ldLast, ldNum))
        /\ \A u \in Streams : PayloadOf[u] = "DNS" => DnsKept(u)
    BY DEF StreamInv
  <1>3. socketid \in Nat /\ fresh \in Nat /\ fresh <= socketid /\ MaxStreams \in Nat
    BY <1>2, StreamAssumption DEF StreamTypes
  <1>4. DOMAIN wire' = Streams /\ DOMAIN sent' = Streams /\ DOMAIN store' = Streams
    BY <1>1
  <1>5. CASE UNCHANGED <<fresh, bufVars>>
    <2>1. Recent' = Recent
      BY <1>5 DEF Recent
    <2>2. StreamTypes'
      BY <1>1, <1>2, <1>4, <1>5, <2>1 DEF StreamTypes
    <2>3. Fits(Buffers(ld, ldLast, ldNum))' /\ \A u : LeftOf(u)' = LeftOf(u)
      BY <1>2, <1>5, <2>1, ListStays
    <2>4. ASSUME NEW u \in Streams, PayloadOf[u] = "DNS" PROVE DnsKept(u)'
      <3>1. DnsKept(u)
        BY <1>2, <2>4
      <3>2. CASE u \in closed
        BY <1>1, <3>2 DEF DnsKept
      <3>3. CASE u \notin closed
        <4>1. wire'[u] = wire[u] /\ sent'[u] = sent[u] /\ store'[u] = store[u]
          BY <1>1, <3>3
        <4>2. (u \in open' <=> u \in open) /\ (u \in lost' <=> u \in lost)
          BY <1>1, <3>3
        <4> QED
          BY <2>3, <3>1, <4>1, <4>2 DEF DnsKept
      <3> QED
        BY <3>2, <3>3
    <2> QED
      BY <2>2, <2>3, <2>4 DEF StreamInv
  <1>6. CASE Streams \subseteq closed /\ fresh' = 0 /\ kBufferInit
    <2>1. open' = {}
      BY <1>1, <1>2, <1>6 DEF StreamTypes
    <2>2. StreamTypes'
      BY <1>3, <1>4, <1>6, <2>1 DEF StreamTypes
    <2>3. Fits(Buffers(ld, ldLast, ldNum))'
      <3>1. ld' = <<>> /\ ldLast' = 0 /\ ldNum' = 0
        BY <1>6 DEF kBufferInit
      <3>2. Len(ld') = 0 /\ DOMAIN ld' = {}
        BY <3>1
      <3> QED
        BY <3>1, <3>2 DEF Fits, Buffers, Short
    <2>4. ASSUME NEW u \in Streams PROVE DnsKept(u)'
      BY <1>1, <1>6, <2>1 DEF DnsKept
    <2> QED
      BY <2>2, <2>3, <2>4 DEF StreamInv
  <1> QED
    BY <1>5, <1>6

\* What a peer sends as DNS is a DNS message.
LEMMA EncodedIsMessage ==
  ASSUME NEW body \in Seq(Nat)
  PROVE  Encode("DNS", body) \in DnsMessages
PROOF
  <1> DEFINE n == Len(body)
             h == <<n \div Base, n % Base>>
             m == h \o body
  <1>1. n \in Nat /\ Base \in Nat /\ Base > 0
    BY StreamAssumption
  <1>2. n \div Base \in Nat /\ n % Base \in Nat /\ ((n \div Base) * Base) + (n % Base) = n
    <2>1. \A x \in Nat : \A y \in Nat : y > 0 =>
            x \div y \in Nat /\ x % y \in Nat /\ ((x \div y) * y) + (x % y) = x
      OBVIOUS
    <2> QED
      BY <1>1, <2>1
  <1>3. Encode("DNS", body) = m
    BY DEF Encode
  <1>4. h \in Seq(Nat) /\ Len(h) = 2 /\ h[1] = n \div Base /\ h[2] = n % Base
    BY <1>2
  <1> HIDE DEF h
  <1>5. m \in Seq(Nat) /\ Len(m) = 2 + n /\ m[1] = h[1] /\ m[2] = h[2]
    <2>1. /\ m \in Seq(Nat) /\ Len(m) = Len(h) + Len(body)
          /\ \A i \in 1 .. Len(h) + Len(body) : m[i] = IF i <= Len(h) THEN h[i] ELSE body[i - Len(h)]
      BY <1>4, ConcatProperties
    <2> HIDE DEF m
    <2> QED
      BY <1>1, <1>4, <2>1
  <1> HIDE DEF m
  <1>6. (m[1] * Base) + m[2] = n
    BY <1>2, <1>4, <1>5
  <1>7. (m[1] * Base) + m[2] + 2 = Len(m) /\ Len(m) >= 2
    <2> DEFINE p == m[1] * Base
    <2>1. p + m[2] = n
      BY <1>6
    <2>2. m[2] \in Nat /\ p \in Int
      <3>1. \A x, y \in Nat : x * y \in Int
        OBVIOUS
      <3> QED
        BY <1>1, <1>2, <1>4, <1>5, <3>1
    <2> HIDE DEF p
    <2>3. p + m[2] + 2 = 2 + n
      BY <1>1, <2>1, <2>2
    <2> QED
      BY <1>1, <1>5, <2>3 DEF p
  <1> QED
    BY <1>3, <1>5, <1>7 DEF DnsMessages

\* A peer sends a message.
LEMMA SendKeeps ==
  ASSUME StreamInv, NEW s \in Streams, PeerSends(s)
  PROVE  StreamInv'
PROOF
  <1>1. PICK body \in Contents[PayloadOf[s]] :
          /\ s \in open
          /\ wire' = [wire EXCEPT ![s] = wire[s] \o Encode(PayloadOf[s], body)]
          /\ sent' = [sent EXCEPT ![s] = Append(sent[s], Encode(PayloadOf[s], body))]
          /\ socketid' = socketid /\ open' = open /\ fresh' = fresh /\ store' = store
          /\ lost' = lost /\ UNCHANGED bufVars
    BY DEF PeerSends
  <1> DEFINE m == Encode(PayloadOf[s], body)
  <1>2. /\ StreamTypes /\ Fits(Buffers(ld, ldLast, ldNum))
        /\ \A u \in Streams : PayloadOf[u] = "DNS" => DnsKept(u)
    BY DEF StreamInv
  <1>3. Recent' = Recent
    BY <1>1 DEF Recent
  <1>4. StreamTypes'
    BY <1>1, <1>2, <1>3 DEF StreamTypes
  <1>5. Fits(Buffers(ld, ldLast, ldNum))' /\ \A u : LeftOf(u)' = LeftOf(u)
    BY <1>1, <1>2, <1>3, ListStays
  <1>6. ASSUME NEW u \in Streams, PayloadOf[u] = "DNS" PROVE DnsKept(u)'
    <2>1. DnsKept(u)
      BY <1>2, <1>6
    <2>2. CASE u # s
      <3>1. wire'[u] = wire[u] /\ sent'[u] = sent[u]
        BY <1>1, <1>2, <2>2 DEF StreamTypes
      <3> QED
        BY <1>1, <1>5, <2>1, <3>1 DEF DnsKept
    <2>3. CASE u = s /\ s \notin lost
      <3>1. Kept(sent[s], LeftOf(s), wire[s], store[s])
        BY <1>1, <2>1, <2>3 DEF DnsKept
      <3>2. m \in DnsMessages
        <4>1. body \in Seq(Nat)
          BY StreamAssumption
        <4> QED
          BY <1>6, <2>3, <4>1, EncodedIsMessage
      <3> HIDE DEF m
      <3>3. Kept(Append(sent[s], m), LeftOf(s), wire[s] \o m, store[s])
        BY <3>1, <3>2, KeptWhenSent
      <3>4. wire'[s] = wire[s] \o m /\ sent'[s] = Append(sent[s], m)
        BY <1>1, <1>2 DEF StreamTypes, m
      <3>5. Kept(sent'[s], LeftOf(s)', wire'[s], store'[s])
        BY <1>1, <1>5, <3>3, <3>4, Zenon
      <3> QED
        BY <1>1, <2>3, <3>5 DEF DnsKept
    <2>4. CASE u = s /\ s \in lost
      BY <1>1, <2>4 DEF DnsKept
    <2> QED
      BY <2>2, <2>3, <2>4
  <1> QED
    BY <1>4, <1>5, <1>6 DEF StreamInv

\* A parser comes or goes, or nothing happens.
LEMMA OthersKeep ==
  ASSUME StreamInv,
         UNCHANGED <<socketid, open, fresh, bufVars, peerVars, store, lost>>
  PROVE  StreamInv'
PROOF
  <1>1. /\ socketid' = socketid /\ open' = open /\ fresh' = fresh /\ store' = store
        /\ lost' = lost /\ wire' = wire /\ sent' = sent /\ UNCHANGED bufVars
    BY DEF peerVars
  <1>2. /\ StreamTypes /\ Fits(Buffers(ld, ldLast, ldNum))
        /\ \A u \in Streams : PayloadOf[u] = "DNS" => DnsKept(u)
    BY DEF StreamInv
  <1>3. Recent' = Recent
    BY <1>1 DEF Recent
  <1>4. StreamTypes'
    BY <1>1, <1>2, <1>3 DEF StreamTypes
  <1>5. Fits(Buffers(ld, ldLast, ldNum))' /\ \A u : LeftOf(u)' = LeftOf(u)
    BY <1>1, <1>2, <1>3, ListStays
  <1>6. ASSUME NEW u \in Streams, PayloadOf[u] = "DNS" PROVE DnsKept(u)'
    <2>1. DnsKept(u)
      BY <1>2, <1>6
    <2> QED
      BY <1>1, <1>5, <2>1 DEF DnsKept
  <1> QED
    BY <1>4, <1>5, <1>6 DEF StreamInv

\* The invariant of the streams, while no more than two connections are made between two
\* departures of a client.
LEMMA StreamInvariance ==
  ASSUME MaxStreams <= 2
  PROVE  StreamSpec => []StreamInv
PROOF
  <1>1. StreamInv /\ [StreamNext]_streamVars => StreamInv'
    <2> SUFFICES ASSUME StreamInv, [StreamNext]_streamVars PROVE StreamInv'
      OBVIOUS
    <2>1. CASE Opens
      BY <2>1, OpensKeep
    <2>2. CASE ClientGone
      <3>1. Forget(Streams) /\ socketid' = socketid /\ fresh' = 0 /\ kBufferInit
        BY <2>2 DEF ClientGone
      <3> QED
        BY <3>1, ForgetKeeps
    <2>3. ASSUME NEW s \in Streams, Closes(s) PROVE StreamInv'
      <3>1. Forget({s}) /\ socketid' = socketid /\ UNCHANGED <<fresh, bufVars>>
        BY <2>3 DEF Closes
      <3> QED
        BY <3>1, ForgetKeeps
    <2>4. ASSUME NEW s \in Streams, PeerSends(s) PROVE StreamInv'
      BY <2>4, SendKeeps
    <2>5. ASSUME NEW s \in Streams, NEW n \in 1 .. Len(wire[s]), process_si_type_tcp(s, n)
          PROVE  StreamInv'
      BY <2>5, ReadKeeps
    <2>6. ASSUME NEW p, process_command_parser_attach_req(p) PROVE StreamInv'
      BY <2>6, OthersKeep DEF process_command_parser_attach_req
    <2>7. CASE UNCHANGED streamVars
      BY <2>7, OthersKeep DEF streamVars
    <2> QED
      BY <2>1, <2>2, <2>3, <2>4, <2>5, <2>6, <2>7 DEF StreamNext
  <1> QED
    BY <1>1, StreamInitially, PTL DEF StreamSpec

\* What holds of each DNS connection that lost no segment to a missing parser: the messages
\* stored are those sent, whole and in order, none waits although it is whole, and no byte
\* is lost between two segments.
DnsConnectionsKept ==
  \A s \in open \ lost : PayloadOf[s] = "DNS" =>
    /\ store[s] = SubSeq(sent[s], 1, Len(store[s]))
    /\ Len(store[s]) < Len(sent[s]) => Len(LeftOf(s)) < Len(sent[s][Len(store[s]) + 1])
    /\ FlattenSeq(store[s]) \o LeftOf(s) \o wire[s] = FlattenSeq(sent[s])

\* process_si_type_tcp with kBufferGet, kParserDNS and kBufferSet, for DNS connections next
\* to a connection of any other payload type: whatever is sent, however it is cut, whoever
\* closes and whichever parsers come and go.  With three connections since the last
\* departure of a client the last pointer of kBuffer may be wrong and the theorem false.
THEOREM DnsConnectionsAreKept ==
  ASSUME MaxStreams <= 2
  PROVE  StreamSpec => []DnsConnectionsKept
PROOF
  <1>1. StreamInv => DnsConnectionsKept
    <2> SUFFICES ASSUME StreamInv, NEW s \in open \ lost, PayloadOf[s] = "DNS"
                 PROVE  /\ store[s] = SubSeq(sent[s], 1, Len(store[s]))
                        /\ Len(store[s]) < Len(sent[s])
                             => Len(LeftOf(s)) < Len(sent[s][Len(store[s]) + 1])
                        /\ FlattenSeq(store[s]) \o LeftOf(s) \o wire[s] = FlattenSeq(sent[s])
      BY DEF DnsConnectionsKept
    <2>1. s \in Streams
      BY DEF StreamInv, StreamTypes
    <2>2. Kept(sent[s], LeftOf(s), wire[s], store[s])
      BY <2>1 DEF StreamInv, DnsKept
    <2> QED
      BY <2>2, KeptMeans
  <1> QED
    BY <1>1, StreamInvariance, PTL

\* Where all connections are DNS, every message is registered whole, once, in order and as
\* soon as its last byte was read.
THEOREM MessagesAreWholeHolds ==
  ASSUME MaxStreams <= 2, \A s \in Streams : PayloadOf[s] = "DNS"
  PROVE  StreamSpec => []MessagesAreWhole
PROOF
  <1>1. StreamInv /\ DnsConnectionsKept => MessagesAreWhole
    BY DEF StreamInv, StreamTypes, DnsConnectionsKept, MessagesAreWhole
  <1> QED
    BY <1>1, StreamInvariance, DnsConnectionsAreKept, PTL

\* Where all connections are DNS, no byte is lost between kBufferGet and kBufferSet.
THEOREM BytesAreKeptHolds ==
  ASSUME MaxStreams <= 2, \A s \in Streams : PayloadOf[s] = "DNS"
  PROVE  StreamSpec => []BytesAreKept
PROOF
  <1>1. StreamInv /\ DnsConnectionsKept => BytesAreKept
    BY DEF StreamInv, StreamTypes, DnsConnectionsKept, BytesAreKept
  <1> QED
    BY <1>1, StreamInvariance, DnsConnectionsAreKept, PTL

=============================================================================
