---------------------------- MODULE BtCltnProofs ----------------------------
(* Proofs about BtCltn: that every element of a set is found where it is,    *)
(* after any sequence of operations, that there is always room for one more, *)
(* and that sets and lists implement the collections of Cltn.                *)
EXTENDS BtCltn, FiniteSetTheorems, SequenceTheorems, WellFoundedInduction, TLAPS

-----------------------------------------------------------------------------
(* Least elements and induction over the naturals, by a set for a predicate *)

\* Min, as CHOOSE defines it, is the least element of a set of naturals.
LEMMA MinIsLeast ==
  ASSUME NEW S, S \subseteq Nat, S # {}
  PROVE  /\ Min(S) \in S
         /\ \A y \in S : Min(S) <= y
PROOF
  <1>1. \E x \in S : \A y \in S : ~(<<y, x>> \in OpToRel(<, Nat))
    BY NatLessThanWellFounded, WFMin, Zenon
  <1>2. \A x, y \in Nat : y < x => <<y, x>> \in OpToRel(<, Nat)
    BY DEF OpToRel
  <1>3. PICK x \in S : \A y \in S : ~(<<y, x>> \in OpToRel(<, Nat))
    BY <1>1
  <1>4. ASSUME NEW y \in S PROVE x <= y
    <2>1. x \in Nat /\ y \in Nat
      OBVIOUS
    <2>2. ~(y < x)
      BY <2>1, <1>2, <1>3, Zenon
    <2> QED
      BY <2>1, <2>2
  <1> QED
    BY <1>4 DEF Min

\* A set of naturals that holds 0 and with each number the next one holds them all.
LEMMA InductionOnNat ==
  ASSUME NEW G, 0 \in G, \A n \in Nat : n \in G => n + 1 \in G
  PROVE  Nat \subseteq G
PROOF
  <1> DEFINE T == {n \in Nat : n \notin G}
  <1>1. SUFFICES ASSUME T # {} PROVE FALSE
    OBVIOUS
  <1>2. Min(T) \in T /\ \A y \in T : Min(T) <= y
    BY <1>1, MinIsLeast
  <1>3. PICK m \in Nat : m \notin G /\ \A y \in T : m <= y
    BY <1>2
  <1>4. m - 1 \in Nat
    BY <1>3
  <1>5. m - 1 \in G
    BY <1>3, <1>4
  <1> QED
    BY <1>3, <1>4, <1>5

-----------------------------------------------------------------------------
(* Places                                                                   *)

\* The remainder of a number that is less than twice the divisor above a multiple of it
LEMMA ModAdd ==
  ASSUME NEW h \in Nat, NEW c \in Nat \ {0}, NEW u \in 0 .. c - 1
  PROVE  /\ h % c \in 0 .. c - 1
         /\ (h + u) % c = IF (h % c) + u < c THEN (h % c) + u ELSE (h % c) + u - c
PROOF
  <1>1. PICK q, r \in Int : q = h \div c /\ r = h % c /\ h = c * q + r /\ 0 <= r /\ r < c
    OBVIOUS
  <1>2. PICK p, s \in Int : p = (h + u) \div c /\ s = (h + u) % c /\ h + u = c * p + s /\ 0 <= s /\ s < c
    OBVIOUS
  <1>3. c * p + s = c * q + r + u
    BY <1>1, <1>2
  <1>4. p >= q
    <2>1. SUFFICES ASSUME p + 1 <= q PROVE FALSE
      OBVIOUS
    <2>2. c * (p + 1) <= c * q
      BY <2>1
    <2> QED
      BY <2>2, <1>1, <1>2, <1>3
  <1>5. p <= q + 1
    <2>1. SUFFICES ASSUME p >= q + 2 PROVE FALSE
      OBVIOUS
    <2>2. c * p >= c * (q + 2)
      BY <2>1
    <2> QED
      BY <2>2, <1>1, <1>2, <1>3
  <1> QED
    BY <1>1, <1>2, <1>3, <1>4, <1>5

\* An array of c places
Array(c) == [0 .. c - 1 -> Elements \cup {0}]

\* Elements are truly elements, and hash values naturals
HashOK == hash \in [Keys -> Nat]

Home(e, c) == hash[Key[e]] % c

\* The steps from h to q, around the end of the array
Dist(h, q, c) == IF h <= q THEN q - h ELSE q - h + c

\* findAt() stops at q
Hit(a, q, e) == a[q] = 0 \/ isSame(a[q], e)

\* No two elements with one key
OneEach(a) ==
  \A p, q \in DOMAIN a : a[p] # 0 /\ a[q] # 0 /\ Key[a[p]] = Key[a[q]] => p = q

\* No empty place between the home of an element and its place
Chained(a, c) ==
  \A p, q \in 0 .. c - 1 :
    a[p] # 0 /\ Dist(Home(a[p], c), q, c) < Dist(Home(a[p], c), p, c) => a[q] # 0

Sound(a, c) == OneEach(a) /\ Chained(a, c)

Occupied(a) == {p \in DOMAIN a : a[p] # 0}

LEMMA ModSmall ==
  ASSUME NEW c \in Nat \ {0}, NEW n \in 0 .. c - 1, NEW k \in 0 .. c - 1
  PROVE  (n + k) % c = IF n + k < c THEN n + k ELSE n + k - c
PROOF
  <1>1. (0 + n) % c = IF (0 % c) + n < c THEN (0 % c) + n ELSE (0 % c) + n - c
    BY ModAdd
  <1>2. (0 + 0) % c = IF (0 % c) + 0 < c THEN (0 % c) + 0 ELSE (0 % c) + 0 - c
    BY ModAdd
  <1>3. 0 % c \in 0 .. c - 1
    BY ModAdd
  <1>4. 0 % c = 0
    OBVIOUS
  <1>5. n % c = n
    BY <1>1, <1>4
  <1>6. (n + k) % c = IF (n % c) + k < c THEN (n % c) + k ELSE (n % c) + k - c
    <2>1. n \in Nat
      OBVIOUS
    <2> QED
      BY <2>1, ModAdd
  <1> QED
    BY <1>5, <1>6

LEMMA ArrayIs ==
  ASSUME NEW c \in Nat, NEW a \in Array(c)
  PROVE  DOMAIN a = 0 .. c - 1 /\ Capacity(a) = c /\ \A p \in 0 .. c - 1 : a[p] \in Elements \cup {0}
PROOF
  <1>1. DOMAIN a = 0 .. c - 1
    BY DEF Array
  <1>2. Cardinality(0 .. c - 1) = IF 0 > c - 1 THEN 0 ELSE (c - 1) - 0 + 1
    BY FS_Interval
  <1> QED
    BY <1>1, <1>2 DEF Capacity, Array

LEMMA HomeIs ==
  ASSUME HashOK, NEW c \in Nat \ {0}, NEW e \in Elements
  PROVE  /\ hash[Key[e]] \in Nat /\ Home(e, c) \in 0 .. c - 1
         /\ \A q \in 0 .. c - 1 : Dist(Home(e, c), q, c) \in 0 .. c - 1
PROOF
  <1>1. Key[e] \in Keys
    BY DEF Keys
  <1>2. hash[Key[e]] \in Nat
    BY <1>1 DEF HashOK
  <1>3. \A h \in Nat : h % c \in 0 .. c - 1
    <2> TAKE h \in Nat
    <2>1. 0 \in 0 .. c - 1
      OBVIOUS
    <2> QED
      BY <2>1, ModAdd
  <1>4. Home(e, c) \in 0 .. c - 1
    BY <1>2, <1>3 DEF Home
  <1> QED
    BY <1>2, <1>4 DEF Dist

\* What findAt() returns: no place when all are taken by others, or the first place from the
\* home on that is empty or has the key
Finds(a, e, c, s) ==
  \/ s = noObjectEntry /\ \A q \in 0 .. c - 1 : ~Hit(a, q, e)
  \/ /\ s \in 0 .. c - 1 /\ Hit(a, s, e)
     /\ \A q \in 0 .. c - 1 : Dist(Home(e, c), q, c) < Dist(Home(e, c), s, c) => ~Hit(a, q, e)

LEMMA FindAtFinds ==
  ASSUME HashOK, NEW c \in Nat \ {0}, NEW a \in Array(c), NEW e \in Elements
  PROVE  Finds(a, e, c, findAt(a, e))
PROOF
  <1> DEFINE h == hash[Key[e]]
             m == h % c
             Place(u) == (h + u) % c
             hits == {u \in 0 .. c - 1 : a[Place(u)] = 0 \/ isSame(a[Place(u)], e)}
  <1>1. h \in Nat /\ m \in 0 .. c - 1 /\ m = Home(e, c)
    BY HomeIs DEF Home
  <1>2. Capacity(a) = c
    BY ArrayIs
  <1>3. findAt(a, e) = IF hits = {} THEN noObjectEntry ELSE Place(Min(hits))
    BY <1>2 DEF findAt
  <1>4. \A u \in 0 .. c - 1 : Place(u) = IF m + u < c THEN m + u ELSE m + u - c
    <2> HIDE DEF h
    <2> QED
      BY <1>1, ModAdd
  <1>5. \A q \in 0 .. c - 1 : Dist(m, q, c) \in 0 .. c - 1 /\ Place(Dist(m, q, c)) = q
    <2> HIDE DEF Place, m
    <2> QED
      BY <1>1, <1>4 DEF Dist
  <1>6. \A u \in 0 .. c - 1 : Place(u) \in 0 .. c - 1 /\ Dist(m, Place(u), c) = u
    <2> HIDE DEF Place, m
    <2> QED
      BY <1>1, <1>4 DEF Dist
  <1>7. \A u \in 0 .. c - 1 : u \in hits <=> Hit(a, Place(u), e)
    BY DEF Hit
  <1>8. hits \subseteq 0 .. c - 1 /\ hits \subseteq Nat
    OBVIOUS
  <1> HIDE DEF hits, Place, m
  <1>9. CASE hits = {}
    <2>1. \A q \in 0 .. c - 1 : ~Hit(a, q, e)
      BY <1>9, <1>5, <1>7
    <2> QED
      BY <2>1, <1>3, <1>9 DEF Finds
  <1>10. CASE hits # {}
    <2> DEFINE u == Min(hits)
    <2>1. u \in hits /\ \A v \in hits : u <= v
      BY <1>8, <1>10, MinIsLeast
    <2>2. u \in 0 .. c - 1
      BY <2>1, <1>8
    <2>3. findAt(a, e) = Place(u)
      BY <1>3, <1>10
    <2> HIDE DEF u
    <2>4. Place(u) \in 0 .. c - 1 /\ Dist(m, Place(u), c) = u /\ Hit(a, Place(u), e)
      BY <2>1, <2>2, <1>6, <1>7
    <2>5. ASSUME NEW q \in 0 .. c - 1, Dist(m, q, c) < u PROVE ~Hit(a, q, e)
      <3>1. Dist(m, q, c) \in 0 .. c - 1 /\ Place(Dist(m, q, c)) = q
        BY <1>5
      <3>2. Dist(m, q, c) \notin hits
        BY <3>1, <2>1, <2>2, <2>5
      <3> QED
        BY <3>1, <3>2, <1>7
    <2> QED
      BY <2>3, <2>4, <2>5, <1>1 DEF Finds
  <1> QED
    BY <1>9, <1>10

-----------------------------------------------------------------------------
(* Searching and putting                                                    *)

\* In a sound array the search for a key ends at its element, or nothing has the key.
LEMMA SearchIsExact ==
  ASSUME HashOK, NEW c \in Nat \ {0}, NEW a \in Array(c), Sound(a, c), NEW e \in Elements
  PROVE  /\ \A p \in 0 .. c - 1 : isSame(a[p], e) => findAt(a, e) = p
         /\ findAt(a, e) \in 0 .. c - 1 \/ findAt(a, e) = noObjectEntry
         /\ findAt(a, e) # noObjectEntry => Hit(a, findAt(a, e), e)
         /\ (\E q \in 0 .. c - 1 : a[q] = 0) => findAt(a, e) # noObjectEntry
PROOF
  <1> DEFINE s == findAt(a, e)
             h == Home(e, c)
  <1>1. Finds(a, e, c, s)
    BY FindAtFinds
  <1>2. \A q \in 0 .. c - 1 : Dist(h, q, c) \in 0 .. c - 1
    BY HomeIs
  <1>3. h \in 0 .. c - 1
    BY HomeIs
  <1>4. noObjectEntry \notin 0 .. c - 1
    BY DEF noObjectEntry
  <1>5. ASSUME NEW p \in 0 .. c - 1, isSame(a[p], e) PROVE s = p
    <2>1. a[p] # 0 /\ Key[a[p]] = Key[e] /\ Home(a[p], c) = h
      BY <1>5 DEF isSame, Home
    <2>2. s \in 0 .. c - 1 /\ Hit(a, s, e)
          /\ \A q \in 0 .. c - 1 : Dist(h, q, c) < Dist(h, s, c) => ~Hit(a, q, e)
      BY <1>1, <1>5 DEF Finds, Hit
    <2>3. ~(Dist(h, p, c) < Dist(h, s, c))
      BY <2>2, <1>5 DEF Hit
    <2>4. CASE a[s] = 0
      <3>1. ~(Dist(h, s, c) < Dist(h, p, c))
        BY <2>1, <2>2, <2>4 DEF Sound, Chained
      <3> HIDE DEF s, h
      <3>2. Dist(h, s, c) = Dist(h, p, c)
        BY <3>1, <2>2, <2>3, <1>2
      <3> QED
        BY <3>2, <2>2, <1>3 DEF Dist
    <2>5. CASE a[s] # 0
      <3>1. Key[a[s]] = Key[e]
        BY <2>2, <2>5 DEF Hit, isSame
      <3>2. s \in DOMAIN a /\ p \in DOMAIN a
        BY <2>2, ArrayIs
      <3> QED
        BY <2>1, <2>5, <3>1, <3>2 DEF Sound, OneEach
    <2> QED
      BY <2>4, <2>5
  <1>6. s \in 0 .. c - 1 \/ s = noObjectEntry
    BY <1>1 DEF Finds
  <1>7. s # noObjectEntry => Hit(a, s, e)
    BY <1>1 DEF Finds
  <1>8. (\E q \in 0 .. c - 1 : a[q] = 0) => s # noObjectEntry
    BY <1>1, <1>4 DEF Finds, Hit
  <1> QED
    BY <1>5, <1>6, <1>7, <1>8

\* An element put at the place found for it
Put(a, e) == [a EXCEPT ![findAt(a, e)] = e]

LEMMA PutSound ==
  ASSUME HashOK, NEW c \in Nat \ {0}, NEW a \in Array(c), Sound(a, c), NEW e \in Elements,
         0 \notin Elements, findAt(a, e) # noObjectEntry
  PROVE  /\ findAt(a, e) \in 0 .. c - 1
         /\ Put(a, e) \in Array(c) /\ Sound(Put(a, e), c)
         /\ Put(a, e)[findAt(a, e)] = e
         /\ \A p \in 0 .. c - 1 : p # findAt(a, e) => Put(a, e)[p] = a[p]
         /\ Occupied(Put(a, e)) = Occupied(a) \cup {findAt(a, e)}
         /\ a[findAt(a, e)] = 0 => Stored(Put(a, e)) = Stored(a) \cup {e}
PROOF
  <1> DEFINE s == findAt(a, e)
             h == Home(e, c)
             b == [a EXCEPT ![s] = e]
  <1>0. DOMAIN a = 0 .. c - 1 /\ \A p \in 0 .. c - 1 : a[p] \in Elements \cup {0}
    BY ArrayIs
  <1>1. /\ \A p \in 0 .. c - 1 : isSame(a[p], e) => s = p
        /\ s \in 0 .. c - 1 /\ Hit(a, s, e)
    BY SearchIsExact
  <1>2. \A q \in 0 .. c - 1 : Dist(h, q, c) < Dist(h, s, c) => ~Hit(a, q, e)
    BY <1>1, FindAtFinds DEF Finds, noObjectEntry
  <1> HIDE DEF s
  <1>3. b \in Array(c) /\ DOMAIN b = 0 .. c - 1
    BY <1>0, <1>1 DEF Array
  <1>4. /\ b[s] = e /\ e # 0
        /\ \A p \in 0 .. c - 1 : p # s => b[p] = a[p]
    BY <1>0, <1>1
  <1> HIDE DEF b
  <1>5. OneEach(b)
    <2> SUFFICES ASSUME NEW p \in 0 .. c - 1, NEW q \in 0 .. c - 1,
                        b[p] # 0, b[q] # 0, Key[b[p]] = Key[b[q]], p # q
                 PROVE  FALSE
      BY <1>3 DEF OneEach
    <2>1. CASE p = s
      BY <2>1, <1>1, <1>4 DEF isSame
    <2>2. CASE q = s
      BY <2>2, <1>1, <1>4 DEF isSame
    <2>3. CASE p # s /\ q # s
      BY <2>3, <1>0, <1>4 DEF Sound, OneEach
    <2> QED
      BY <2>1, <2>2, <2>3
  <1>6. Chained(b, c)
    <2> SUFFICES ASSUME NEW p \in 0 .. c - 1, NEW q \in 0 .. c - 1, b[p] # 0,
                        Dist(Home(b[p], c), q, c) < Dist(Home(b[p], c), p, c)
                 PROVE  b[q] # 0
      BY DEF Chained
    <2>1. CASE q = s
      BY <2>1, <1>4
    <2>2. CASE q # s /\ p = s
      BY <2>2, <1>2, <1>4 DEF Hit
    <2>3. CASE q # s /\ p # s
      BY <2>3, <1>4 DEF Sound, Chained
    <2> QED
      BY <2>1, <2>2, <2>3
  <1>7. Occupied(b) = Occupied(a) \cup {s}
    BY <1>0, <1>1, <1>3, <1>4 DEF Occupied
  <1>8. a[s] = 0 => Stored(b) = Stored(a) \cup {e}
    <2> SUFFICES ASSUME a[s] = 0 PROVE Stored(b) = Stored(a) \cup {e}
      OBVIOUS
    <2>1. Stored(b) = {b[p] : p \in 0 .. c - 1} \ {0} /\ Stored(a) = {a[p] : p \in 0 .. c - 1} \ {0}
      BY <1>0, <1>3 DEF Stored
    <2>2. ASSUME NEW x \in Stored(b) PROVE x \in Stored(a) \cup {e}
      BY <2>1, <1>4
    <2>3. ASSUME NEW x \in Stored(a) \cup {e} PROVE x \in Stored(b)
      <3>1. CASE x = e
        BY <3>1, <2>1, <1>1, <1>4
      <3>2. CASE x \in Stored(a)
        <4>1. PICK p \in 0 .. c - 1 : x = a[p] /\ x # 0
          BY <2>1, <3>2
        <4>2. p # s
          BY <4>1
        <4> QED
          BY <4>1, <4>2, <2>1, <1>4
      <3> QED
        BY <3>1, <3>2
    <2> QED
      BY <2>2, <2>3
  <1>9. Sound(b, c)
    BY <1>5, <1>6 DEF Sound
  <1>10. Put(a, e) = b /\ findAt(a, e) = s
    BY DEF s, b, Put
  <1> QED
    BY <1>1, <1>3, <1>4, <1>7, <1>8, <1>9, <1>10

-----------------------------------------------------------------------------
(* The loops.  A recursive function satisfies its equation because a function that does *)
(* exists, by induction over its domain.                                                *)

\* The copy grows by one element at a time.
LEMMA CopyIs ==
  ASSUME NEW a, Capacity(a) \in Nat, NEW c
  PROVE  /\ CopyUpTo(a, c)[0] = Empty(c)
         /\ \A k \in 1 .. Capacity(a) : CopyUpTo(a, c)[k] = Added(CopyUpTo(a, c)[k - 1], a[k - 1])
PROOF
  <1> DEFINE Next1(g, k) == Added(g, a[k - 1])
             Is(g, n) == g = [k \in 0 .. n |-> IF k = 0 THEN Empty(c) ELSE Next1(g[k - 1], k)]
             G == {n \in Nat : \E g : Is(g, n)}
  <1>1. 0 \in G
    <2>1. Is([k \in 0 .. 0 |-> Empty(c)], 0)
      OBVIOUS
    <2> QED
      BY <2>1
  <1>2. ASSUME NEW n \in Nat, n \in G PROVE n + 1 \in G
    <2> HIDE DEF Next1
    <2>1. PICK g : Is(g, n)
      BY <1>2
    <2> DEFINE d == [k \in 0 .. n + 1 |-> IF k <= n THEN g[k] ELSE Next1(g[n], n + 1)]
               r == [k \in 0 .. n + 1 |-> IF k = 0 THEN Empty(c) ELSE Next1(d[k - 1], k)]
    <2>2. \A k \in 0 .. n : g[k] = IF k = 0 THEN Empty(c) ELSE Next1(g[k - 1], k)
      BY <2>1
    <2>3. ASSUME NEW k \in 0 .. n + 1
          PROVE  d[k] = IF k = 0 THEN Empty(c) ELSE Next1(d[k - 1], k)
      <3>1. CASE k = 0
        BY <3>1, <2>2
      <3>2. CASE k \in 1 .. n
        <4>1. d[k] = g[k] /\ d[k - 1] = g[k - 1]
          BY <3>2
        <4> QED
          BY <3>2, <4>1, <2>2
      <3>3. CASE k = n + 1
        <4>1. d[k] = Next1(g[n], n + 1) /\ d[k - 1] = g[n]
          BY <3>3
        <4> QED
          BY <3>3, <4>1
      <3> QED
        BY <3>1, <3>2, <3>3
    <2>4. \A k \in 0 .. n + 1 : d[k] = r[k]
      BY <2>3
    <2>5. d = [k \in 0 .. n + 1 |-> d[k]] /\ r = [k \in 0 .. n + 1 |-> r[k]]
      OBVIOUS
    <2>6. d = r
      <3> HIDE DEF d, r
      <3> QED
        BY <2>4, <2>5
    <2>7. Is(d, n + 1)
      BY <2>6
    <2> HIDE DEF d, r, Is
    <2> QED
      BY <2>7
  <1>3. \E g : Is(g, Capacity(a))
    <2> HIDE DEF Is
    <2>1. Nat \subseteq G
      <3> HIDE DEF G
      <3> QED
        BY <1>1, <1>2, InductionOnNat
    <2> QED
      BY <2>1
  <1>4. Is(CopyUpTo(a, c), Capacity(a))
    BY <1>3 DEF CopyUpTo
  <1>5. ASSUME NEW g, Is(g, Capacity(a))
        PROVE  g[0] = Empty(c) /\ \A k \in 1 .. Capacity(a) : g[k] = Next1(g[k - 1], k)
    <2> HIDE DEF Next1
    <2>1. \A k \in 0 .. Capacity(a) : g[k] = IF k = 0 THEN Empty(c) ELSE Next1(g[k - 1], k)
      BY <1>5
    <2> QED
      BY <2>1
  <1> QED
    BY <1>4, <1>5

\* The places behind n are visited one after the other.
LEMMA VisitsIs ==
  ASSUME NEW a, Capacity(a) - 1 \in Nat, NEW at
  PROVE  /\ VisitUpTo(a, at)[0] = [array |-> a, at |-> at, stop |-> FALSE]
         /\ \A k \in 1 .. Capacity(a) - 1 : VisitUpTo(a, at)[k] = Visit(VisitUpTo(a, at)[k - 1], (at + k) % Capacity(a))
PROOF
  <1> DEFINE start == [array |-> a, at |-> at, stop |-> FALSE]
             Next1(g, k) == Visit(g, (at + k) % Capacity(a))
             Is(g, n) == g = [k \in 0 .. n |-> IF k = 0 THEN start ELSE Next1(g[k - 1], k)]
             G == {n \in Nat : \E g : Is(g, n)}
  <1>1. 0 \in G
    <2>1. Is([k \in 0 .. 0 |-> start], 0)
      OBVIOUS
    <2> QED
      BY <2>1
  <1>2. ASSUME NEW n \in Nat, n \in G PROVE n + 1 \in G
    <2> HIDE DEF Next1, start
    <2>1. PICK g : Is(g, n)
      BY <1>2
    <2> DEFINE d == [k \in 0 .. n + 1 |-> IF k <= n THEN g[k] ELSE Next1(g[n], n + 1)]
               r == [k \in 0 .. n + 1 |-> IF k = 0 THEN start ELSE Next1(d[k - 1], k)]
    <2>2. \A k \in 0 .. n : g[k] = IF k = 0 THEN start ELSE Next1(g[k - 1], k)
      BY <2>1
    <2>3. ASSUME NEW k \in 0 .. n + 1
          PROVE  d[k] = IF k = 0 THEN start ELSE Next1(d[k - 1], k)
      <3>1. CASE k = 0
        BY <3>1, <2>2
      <3>2. CASE k \in 1 .. n
        <4>1. d[k] = g[k] /\ d[k - 1] = g[k - 1]
          BY <3>2
        <4> QED
          BY <3>2, <4>1, <2>2
      <3>3. CASE k = n + 1
        <4>1. d[k] = Next1(g[n], n + 1) /\ d[k - 1] = g[n]
          BY <3>3
        <4> QED
          BY <3>3, <4>1
      <3> QED
        BY <3>1, <3>2, <3>3
    <2>4. \A k \in 0 .. n + 1 : d[k] = r[k]
      BY <2>3
    <2>5. d = [k \in 0 .. n + 1 |-> d[k]] /\ r = [k \in 0 .. n + 1 |-> r[k]]
      OBVIOUS
    <2>6. d = r
      <3> HIDE DEF d, r
      <3> QED
        BY <2>4, <2>5
    <2>7. Is(d, n + 1)
      BY <2>6
    <2> HIDE DEF d, r, Is
    <2> QED
      BY <2>7
  <1>3. \E g : Is(g, Capacity(a) - 1)
    <2> HIDE DEF Is
    <2>1. Nat \subseteq G
      <3> HIDE DEF G
      <3> QED
        BY <1>1, <1>2, InductionOnNat
    <2> QED
      BY <2>1
  <1>4. Is(VisitUpTo(a, at), Capacity(a) - 1)
    BY <1>3 DEF VisitUpTo
  <1>5. ASSUME NEW g, Is(g, Capacity(a) - 1)
        PROVE  g[0] = start /\ \A k \in 1 .. Capacity(a) - 1 : g[k] = Next1(g[k - 1], k)
    <2> HIDE DEF Next1, start
    <2>1. \A k \in 0 .. Capacity(a) - 1 : g[k] = IF k = 0 THEN start ELSE Next1(g[k - 1], k)
      BY <1>5
    <2> QED
      BY <2>1
  <1> QED
    BY <1>4, <1>5

-----------------------------------------------------------------------------
(* Removal.  Seen from a place z that stays empty, the elements' ways from their homes do *)
(* not cross the end of the array; the place that became empty is on the way of elements  *)
(* not visited yet only.                                                                  *)

Moved(a, x, y) == [a EXCEPT ![x] = a[y], ![y] = 0]

LEMMA MovedKeeps ==
  ASSUME NEW c \in Nat, NEW a \in Array(c), NEW x \in 0 .. c - 1, NEW y \in 0 .. c - 1,
         a[x] = 0, a[y] # 0
  PROVE  /\ Moved(a, x, y) \in Array(c)
         /\ Moved(a, x, y)[x] = a[y] /\ Moved(a, x, y)[y] = 0
         /\ \A p \in 0 .. c - 1 : p # x /\ p # y => Moved(a, x, y)[p] = a[p]
         /\ OneEach(a) => OneEach(Moved(a, x, y))
         /\ Stored(Moved(a, x, y)) = Stored(a)
         /\ Cardinality(Occupied(Moved(a, x, y))) = Cardinality(Occupied(a))
PROOF
  <1> DEFINE b == Moved(a, x, y)
  <1>0. DOMAIN a = 0 .. c - 1 /\ (\A p \in 0 .. c - 1 : a[p] \in Elements \cup {0}) /\ x # y
    BY ArrayIs
  <1>1. b \in Array(c) /\ DOMAIN b = 0 .. c - 1
    BY <1>0 DEF Moved, Array
  <1>2. b[x] = a[y] /\ b[y] = 0 /\ \A p \in 0 .. c - 1 : p # x /\ p # y => b[p] = a[p]
    BY <1>0 DEF Moved
  <1> HIDE DEF b
  <1>3. OneEach(a) => OneEach(b)
    <2> SUFFICES ASSUME OneEach(a), NEW p \in 0 .. c - 1, NEW q \in 0 .. c - 1,
                        b[p] # 0, b[q] # 0, Key[b[p]] = Key[b[q]]
                 PROVE  p = q
      BY <1>1 DEF OneEach
    <2> DEFINE Old(r) == IF r = x THEN y ELSE r
    <2>1. p # y /\ q # y
      BY <1>2
    <2>2. Old(p) \in DOMAIN a /\ Old(q) \in DOMAIN a /\ a[Old(p)] = b[p] /\ a[Old(q)] = b[q]
      BY <1>0, <1>2, <2>1
    <2>3. Old(p) = Old(q)
      <3> HIDE DEF Old
      <3> QED
        BY <2>2 DEF OneEach
    <2> QED
      BY <2>1, <2>3
  <1>4. Stored(b) = Stored(a)
    <2>1. Stored(b) = {b[p] : p \in 0 .. c - 1} \ {0} /\ Stored(a) = {a[p] : p \in 0 .. c - 1} \ {0}
      BY <1>0, <1>1 DEF Stored
    <2>2. ASSUME NEW e \in Stored(b) PROVE e \in Stored(a)
      BY <2>1, <1>2
    <2>3. ASSUME NEW e \in Stored(a) PROVE e \in Stored(b)
      <3>1. PICK p \in 0 .. c - 1 : e = a[p] /\ e # 0
        BY <2>1
      <3>2. p # x
        BY <3>1
      <3>3. CASE p = y
        BY <3>1, <3>3, <2>1, <1>2
      <3>4. CASE p # y
        <4>1. b[p] = e
          BY <3>1, <3>2, <3>4, <1>2
        <4> QED
          BY <4>1, <3>1, <2>1
      <3> QED
        BY <3>3, <3>4
    <2> QED
      BY <2>2, <2>3
  <1>5. Cardinality(Occupied(b)) = Cardinality(Occupied(a))
    <2>1. Occupied(b) = (Occupied(a) \ {y}) \cup {x}
      <3>1. Occupied(b) = {p \in 0 .. c - 1 : b[p] # 0} /\ Occupied(a) = {p \in 0 .. c - 1 : a[p] # 0}
        BY <1>0, <1>1 DEF Occupied
      <3>2. ASSUME NEW p \in 0 .. c - 1 PROVE b[p] # 0 <=> p = x \/ (p # y /\ a[p] # 0)
        BY <1>0, <1>2
      <3> QED
        BY <3>1, <3>2
    <2>2. IsFiniteSet(Occupied(a))
      <3>1. IsFiniteSet(0 .. c - 1)
        BY FS_Interval
      <3> QED
        BY <3>1, <1>0, FS_Subset DEF Occupied
    <2>3. y \in Occupied(a) /\ x \notin Occupied(a)
      BY <1>0 DEF Occupied
    <2>4. /\ IsFiniteSet(Occupied(a) \ {y})
          /\ Cardinality(Occupied(a) \ {y}) = Cardinality(Occupied(a)) - 1
      BY <2>2, <2>3, FS_RemoveElement
    <2>5. Cardinality((Occupied(a) \ {y}) \cup {x}) = Cardinality(Occupied(a) \ {y}) + 1
      BY <2>3, <2>4, FS_AddElement
    <2>6. Cardinality(Occupied(a)) \in Nat
      BY <2>2, FS_CardinalityType
    <2> QED
      BY <2>1, <2>4, <2>5, <2>6
  <1> QED
    BY <1>1, <1>2, <1>3, <1>4, <1>5 DEF b

\* The elements are still there, one of each key.
Keeps(b, a, c) ==
  /\ b \in Array(c) /\ OneEach(b) /\ Stored(b) = Stored(a)
  /\ Cardinality(Occupied(b)) = Cardinality(Occupied(a))

\* Seen from z, the home of the element at p is not behind it, and the empty places between
\* the two are in except
Reached(b, c, z, p, except) ==
  /\ 1 <= Dist(z, Home(b[p], c), c) /\ Dist(z, Home(b[p], c), c) <= Dist(z, p, c)
  /\ \A q \in 0 .. c - 1 :
       Dist(z, Home(b[p], c), c) <= Dist(z, q, c) /\ Dist(z, q, c) < Dist(z, p, c) /\ b[q] = 0 =>
         q \in except

\* After k visits: x is the place of removal, z another empty one
VisitInv(b, a, c, x, z, k) ==
  /\ b \in [array : Array(c), at : 0 .. c - 1, stop : BOOLEAN]
  /\ Keeps(b.array, a, c)
  /\ b.array[b.at] = 0 /\ b.array[z] = 0 /\ b.at # z
  /\ ~b.stop => Dist(z, b.at, c) <= Dist(z, x, c) + k /\ Dist(z, x, c) + k < c
  /\ \A p \in 0 .. c - 1 :
       b.array[p] # 0 =>
         Reached(b.array, c, z, p,
                 IF ~b.stop /\ Dist(z, p, c) > Dist(z, x, c) + k THEN {b.at} ELSE {})

LEMMA DistIs ==
  ASSUME NEW c \in Nat \ {0}, NEW z \in 0 .. c - 1
  PROVE  /\ \A p \in 0 .. c - 1 : Dist(z, p, c) \in 0 .. c - 1 /\ (Dist(z, p, c) = 0 <=> p = z)
         /\ \A p, q \in 0 .. c - 1 : Dist(z, p, c) = Dist(z, q, c) => p = q
PROOF
  BY DEF Dist

\* From home to place, around the end of the array, is the same as seen from z.
LEMMA ReachedIsChained ==
  ASSUME HashOK, NEW c \in Nat \ {0}, NEW b \in Array(c), NEW z \in 0 .. c - 1, b[z] = 0
  PROVE  Chained(b, c) <=> \A p \in 0 .. c - 1 : b[p] # 0 => Reached(b, c, z, p, {})
PROOF
  <1>1. ASSUME NEW h \in 0 .. c - 1, NEW p \in 0 .. c - 1, NEW q \in 0 .. c - 1,
               1 <= Dist(z, h, c), Dist(z, h, c) <= Dist(z, p, c)
        PROVE  Dist(h, q, c) < Dist(h, p, c) <=>
                 Dist(z, h, c) <= Dist(z, q, c) /\ Dist(z, q, c) < Dist(z, p, c)
    BY <1>1 DEF Dist
  <1>2. ASSUME NEW h \in 0 .. c - 1, NEW p \in 0 .. c - 1, p # z,
               Dist(h, z, c) >= Dist(h, p, c)
        PROVE  1 <= Dist(z, h, c) /\ Dist(z, h, c) <= Dist(z, p, c)
    BY <1>2 DEF Dist
  <1>3. \A p \in 0 .. c - 1 : b[p] # 0 => b[p] \in Elements /\ Home(b[p], c) \in 0 .. c - 1
    BY ArrayIs, HomeIs
  <1>4. ASSUME Chained(b, c), NEW p \in 0 .. c - 1, b[p] # 0 PROVE Reached(b, c, z, p, {})
    <2> DEFINE h == Home(b[p], c)
    <2>1. h \in 0 .. c - 1
      BY <1>3, <1>4
    <2>2. \A q \in 0 .. c - 1 : Dist(h, q, c) < Dist(h, p, c) => b[q] # 0
      BY <1>4 DEF Chained
    <2>3. Dist(h, z, c) >= Dist(h, p, c)
      <3>1. ~(Dist(h, z, c) < Dist(h, p, c))
        BY <2>2
      <3> HIDE DEF h
      <3> QED
        BY <3>1, <2>1 DEF Dist
    <2>4. p # z
      BY <1>4
    <2> HIDE DEF h
    <2>5. 1 <= Dist(z, h, c) /\ Dist(z, h, c) <= Dist(z, p, c)
      BY <2>1, <2>3, <2>4, <1>2
    <2>6. \A q \in 0 .. c - 1 :
            Dist(z, h, c) <= Dist(z, q, c) /\ Dist(z, q, c) < Dist(z, p, c) => b[q] # 0
      BY <2>1, <2>2, <2>5, <1>1
    <2> QED
      BY <2>5, <2>6 DEF Reached, h
  <1>5. ASSUME \A p \in 0 .. c - 1 : b[p] # 0 => Reached(b, c, z, p, {})
        PROVE  Chained(b, c)
    <2> SUFFICES ASSUME NEW p \in 0 .. c - 1, NEW q \in 0 .. c - 1, b[p] # 0,
                        Dist(Home(b[p], c), q, c) < Dist(Home(b[p], c), p, c)
                 PROVE  b[q] # 0
      BY DEF Chained
    <2>1. Reached(b, c, z, p, {})
      BY <1>5
    <2> DEFINE h == Home(b[p], c)
    <2>2. h \in 0 .. c - 1
      BY <1>3
    <2>3. 1 <= Dist(z, h, c) /\ Dist(z, h, c) <= Dist(z, p, c)
      BY <2>1 DEF Reached
    <2>4. Dist(z, h, c) <= Dist(z, q, c) /\ Dist(z, q, c) < Dist(z, p, c)
      <3>1. Dist(h, q, c) < Dist(h, p, c)
        OBVIOUS
      <3> HIDE DEF h
      <3> QED
        BY <3>1, <2>2, <2>3, <1>1
    <2> QED
      BY <2>1, <2>4 DEF Reached
  <1> QED
    BY <1>4, <1>5

\* Moves() asks whether the empty place is on the way of the element.
LEMMA MovesIs ==
  ASSUME NEW c \in Nat \ {0}, NEW z \in 0 .. c - 1,
         NEW at \in 0 .. c - 1, NEW i \in 0 .. c - 1, NEW h \in 0 .. c - 1,
         1 <= Dist(z, h, c), Dist(z, h, c) <= Dist(z, i, c), Dist(z, at, c) < Dist(z, i, c)
  PROVE  Moves(at, i, h) <=> Dist(z, h, c) <= Dist(z, at, c)
PROOF
  BY DEF Moves, Dist

\* One visit more.  A place that is empty ends the loop: whoever has the place of removal on
\* the way would have this one on the way too.
LEMMA VisitStep ==
  ASSUME HashOK, NEW c \in Nat \ {0}, NEW a \in Array(c),
         NEW x \in 0 .. c - 1, NEW z \in 0 .. c - 1, x # z,
         NEW k \in 0 .. c - 2, NEW b, VisitInv(b, a, c, x, z, k)
  PROVE  VisitInv(Visit(b, (x + (k + 1)) % c), a, c, x, z, k + 1)
PROOF
  <1> DEFINE i == (x + (k + 1)) % c
             o == b.array[i]
             h == Home(o, c)
             D(q) == Dist(z, q, c)
             n == D(x) + k + 1
  <1>1. /\ b.array \in Array(c) /\ b.at \in 0 .. c - 1 /\ b.stop \in BOOLEAN
        /\ b = [array |-> b.array, at |-> b.at, stop |-> b.stop]
        /\ Keeps(b.array, a, c)
        /\ b.array[b.at] = 0 /\ b.array[z] = 0 /\ b.at # z
        /\ ~b.stop => D(b.at) <= D(x) + k /\ D(x) + k < c
    BY DEF VisitInv
  <1>2. \A p \in 0 .. c - 1 :
          b.array[p] # 0 =>
            Reached(b.array, c, z, p, IF ~b.stop /\ D(p) > D(x) + k THEN {b.at} ELSE {})
    BY DEF VisitInv
  <1>3. i = IF x + (k + 1) < c THEN x + (k + 1) ELSE x + (k + 1) - c
    <2>1. k + 1 \in 0 .. c - 1
      OBVIOUS
    <2> QED
      BY <2>1, ModSmall
  <1> HIDE DEF i
  <1>4. i \in 0 .. c - 1
    BY <1>3
  <1>5. /\ \A p \in 0 .. c - 1 : D(p) \in 0 .. c - 1 /\ (D(p) = 0 <=> p = z)
        /\ \A p, q \in 0 .. c - 1 : D(p) = D(q) => p = q
    BY DistIs
  <1>6. n \in Nat /\ (n < c => D(i) = n) /\ (n = c => i = z)
    BY <1>3 DEF Dist
  <1>7. \A p \in 0 .. c - 1 : b.array[p] # 0 => b.array[p] \in Elements /\ Home(b.array[p], c) \in 0 .. c - 1
    BY <1>1, ArrayIs, HomeIs
  <1>8. Capacity(b.array) = c
    BY <1>1, ArrayIs
  <1> HIDE DEF D
  <1>9. CASE b.stop \/ o = 0
    <2> DEFINE d == [b EXCEPT !.stop = TRUE]
    <2>1. Visit(b, i) = d
      BY <1>9 DEF Visit
    <2>2. d.array = b.array /\ d.at = b.at /\ d.stop = TRUE
          /\ d \in [array : Array(c), at : 0 .. c - 1, stop : BOOLEAN]
      BY <1>1
    <2> HIDE DEF d
    <2>3. ASSUME NEW p \in 0 .. c - 1, b.array[p] # 0
          PROVE  Reached(b.array, c, z, p, {})
      <3>1. CASE b.stop \/ ~(D(p) > D(x) + k)
        BY <3>1, <1>2, <2>3
      <3>2. CASE ~b.stop /\ D(p) > D(x) + k
        <4>1. Reached(b.array, c, z, p, {b.at})
          BY <3>2, <1>2, <2>3
        <4>2. o = 0 /\ p # i
          BY <3>2, <1>9, <2>3
        <4>3. n < c /\ D(i) = n /\ D(p) > n
          BY <3>2, <4>2, <1>4, <1>5, <1>6
        <4>4. SUFFICES ASSUME D(Home(b.array[p], c)) <= D(b.at), D(b.at) < D(p) PROVE FALSE
          BY <4>1 DEF Reached, D
        <4>5. D(b.at) <= D(x) + k
          BY <3>2, <1>1
        <4>6. D(Home(b.array[p], c)) <= D(i)
          BY <4>3, <4>4, <4>5, <1>1, <1>4, <1>5, <1>7, <2>3
        <4>7. D(i) < D(p)
          BY <4>3
        <4>8. i = b.at
          BY <4>1, <4>2, <4>6, <4>7, <1>4 DEF Reached, D
        <4> QED
          BY <4>8, <4>5, <4>3, <1>5
      <3> QED
        BY <3>1, <3>2
    <2>4. VisitInv(d, a, c, x, z, k + 1)
      BY <1>1, <2>2, <2>3 DEF VisitInv
    <2> QED
      BY <2>1, <2>4 DEF i
  <1>10. CASE ~b.stop /\ o # 0
    <2>1. i # z /\ n < c /\ D(i) = n
      BY <1>10, <1>1, <1>5, <1>6
    <2>2. h \in 0 .. c - 1 /\ o \in Elements
      BY <1>10, <1>4, <1>7
    <2>3. Reached(b.array, c, z, i, {b.at})
      <3>1. D(i) > D(x) + k
        BY <2>1, <1>4, <1>5
      <3>2. Reached(b.array, c, z, i, IF ~b.stop /\ D(i) > D(x) + k THEN {b.at} ELSE {})
        BY <1>2, <1>4, <1>10
      <3> QED
        BY <3>1, <3>2, <1>10
    <2>4. D(b.at) < D(i) /\ D(b.at) <= D(x) + k
      BY <1>10, <2>1, <1>1, <1>5
    <2>5. 1 <= D(h) /\ D(h) <= D(i)
      BY <2>3 DEF Reached, D
    <2>6. Moves(b.at, i, h) <=> D(h) <= D(b.at)
      BY <2>2, <2>4, <2>5, <1>1, <1>4, MovesIs DEF D
    <2>7. Visit(b, i) = IF Moves(b.at, i, h)
                          THEN [b EXCEPT !.array = Moved(b.array, b.at, i), !.at = i] ELSE b
      BY <1>10, <1>8 DEF Visit, Moved, Home
    <2>8. CASE D(h) <= D(b.at)
      <3> DEFINE m == Moved(b.array, b.at, i)
                 d == [b EXCEPT !.array = m, !.at = i]
      <3>1. /\ m \in Array(c) /\ m[b.at] = o /\ m[i] = 0
            /\ \A p \in 0 .. c - 1 : p # b.at /\ p # i => m[p] = b.array[p]
            /\ OneEach(b.array) => OneEach(m)
            /\ Stored(m) = Stored(b.array)
            /\ Cardinality(Occupied(m)) = Cardinality(Occupied(b.array))
        BY <1>1, <1>4, <1>10, MovedKeeps
      <3> HIDE DEF m
      <3>2. Visit(b, i) = d
        BY <2>6, <2>7, <2>8 DEF m
      <3>3. d.array = m /\ d.at = i /\ d.stop = FALSE
            /\ d \in [array : Array(c), at : 0 .. c - 1, stop : BOOLEAN]
        BY <1>1, <1>4, <1>10, <3>1
      <3> HIDE DEF d
      <3>4. Keeps(m, a, c)
        BY <1>1, <3>1 DEF Keeps
      <3>5. m[z] = 0
        BY <1>1, <2>1, <3>1
      <3>6. ASSUME NEW p \in 0 .. c - 1, m[p] # 0
            PROVE  Reached(m, c, z, p, IF D(p) > D(x) + (k + 1) THEN {i} ELSE {})
        <4>1. p # i
          BY <3>1, <3>6
        <4>2. CASE p = b.at
          <5>1. Home(m[p], c) = h
            BY <4>2, <3>1
          <5>2. ASSUME NEW q \in 0 .. c - 1, D(h) <= D(q), D(q) < D(p), m[q] = 0 PROVE FALSE
            <6>1. q # i /\ q # b.at
              BY <5>2, <4>2, <2>4, <1>1, <1>4, <1>5
            <6>2. b.array[q] = 0 /\ D(q) < D(i)
              BY <5>2, <6>1, <3>1, <4>2, <2>4, <1>1, <1>4, <1>5
            <6> QED
              BY <6>1, <6>2, <2>3, <5>2 DEF Reached, D
          <5> QED
            BY <5>1, <5>2, <4>2, <2>5, <2>8 DEF Reached, D
        <4>3. CASE p # b.at
          <5>1. m[p] = b.array[p] /\ b.array[p] # 0
            BY <3>1, <3>6, <4>1, <4>3
          <5>2. Reached(b.array, c, z, p, IF D(p) > D(x) + k THEN {b.at} ELSE {})
            BY <5>1, <1>2, <1>10
          <5> DEFINE g == Home(b.array[p], c)
          <5>3. ASSUME NEW q \in 0 .. c - 1, D(g) <= D(q), D(q) < D(p), m[q] = 0
                PROVE  q = i /\ D(p) > D(x) + (k + 1)
            <6>1. q # b.at
              BY <5>3, <3>1, <1>10
            <6>2. q = i
              <7>1. SUFFICES ASSUME q # i PROVE FALSE
                OBVIOUS
              <7>2. b.array[q] = 0
                BY <7>1, <6>1, <3>1, <5>3
              <7> QED
                BY <7>2, <6>1, <5>2, <5>3 DEF Reached, D
            <6> QED
              BY <6>2, <5>3, <2>1, <1>5, <1>4
          <5> QED
            BY <5>1, <5>2, <5>3 DEF Reached, D
        <4> QED
          BY <4>2, <4>3
      <3>7. VisitInv(d, a, c, x, z, k + 1)
        <4>1. D(i) <= D(x) + (k + 1) /\ D(x) + (k + 1) < c
          BY <2>1, <1>5
        <4> QED
          BY <3>1, <3>3, <3>4, <3>5, <3>6, <2>1, <4>1 DEF VisitInv, D
      <3> QED
        BY <3>2, <3>7 DEF i
    <2>9. CASE ~(D(h) <= D(b.at))
      <3>1. Visit(b, i) = b
        BY <2>6, <2>7, <2>9
      <3>2. ASSUME NEW p \in 0 .. c - 1, b.array[p] # 0
            PROVE  Reached(b.array, c, z, p, IF D(p) > D(x) + (k + 1) THEN {b.at} ELSE {})
        <4>1. Reached(b.array, c, z, p, IF D(p) > D(x) + k THEN {b.at} ELSE {})
          BY <3>2, <1>2, <1>10
        <4>2. CASE p # i
          <5>1. D(p) > D(x) + k <=> D(p) > D(x) + (k + 1)
            BY <4>2, <2>1, <1>4, <1>5
          <5> QED
            BY <5>1, <4>1
        <4>3. CASE p = i
          BY <4>3, <4>1, <2>9 DEF Reached, D
        <4> QED
          BY <4>2, <4>3
      <3>3. D(b.at) <= D(x) + (k + 1) /\ D(x) + (k + 1) < c
        BY <2>1, <2>4, <1>1, <1>5
      <3>4. VisitInv(b, a, c, x, z, k + 1)
        BY <1>1, <1>10, <3>2, <3>3 DEF VisitInv, D
      <3> QED
        BY <3>1, <3>4 DEF i
    <2> QED
      BY <2>8, <2>9
  <1> QED
    BY <1>9, <1>10

Cleared(a, x) == [a EXCEPT ![x] = 0]

LEMMA ClearedIs ==
  ASSUME NEW c \in Nat, NEW a \in Array(c), OneEach(a), 0 \notin Elements,
         NEW x \in 0 .. c - 1, a[x] # 0
  PROVE  /\ Cleared(a, x) \in Array(c)
         /\ Cleared(a, x)[x] = 0 /\ \A p \in 0 .. c - 1 : p # x => Cleared(a, x)[p] = a[p]
         /\ OneEach(Cleared(a, x))
         /\ Stored(Cleared(a, x)) = Stored(a) \ {a[x]}
         /\ Cardinality(Occupied(Cleared(a, x))) = Cardinality(Occupied(a)) - 1
PROOF
  <1> DEFINE b == Cleared(a, x)
  <1>0. DOMAIN a = 0 .. c - 1 /\ (\A p \in 0 .. c - 1 : a[p] \in Elements \cup {0})
    BY ArrayIs
  <1>1. b \in Array(c) /\ DOMAIN b = 0 .. c - 1
    BY <1>0 DEF Cleared, Array
  <1>2. b[x] = 0 /\ \A p \in 0 .. c - 1 : p # x => b[p] = a[p]
    BY <1>0 DEF Cleared
  <1> HIDE DEF b
  <1>3. OneEach(b)
    <2> SUFFICES ASSUME NEW p \in 0 .. c - 1, NEW q \in 0 .. c - 1,
                        b[p] # 0, b[q] # 0, Key[b[p]] = Key[b[q]]
                 PROVE  p = q
      BY <1>1 DEF OneEach
    <2>1. a[p] = b[p] /\ a[q] = b[q]
      BY <1>2
    <2> QED
      BY <2>1, <1>0 DEF OneEach
  <1>4. Stored(b) = Stored(a) \ {a[x]}
    <2>1. Stored(b) = {b[p] : p \in 0 .. c - 1} \ {0} /\ Stored(a) = {a[p] : p \in 0 .. c - 1} \ {0}
      BY <1>0, <1>1 DEF Stored
    <2>2. ASSUME NEW e \in Stored(b) PROVE e \in Stored(a) \ {a[x]}
      <3>1. PICK p \in 0 .. c - 1 : e = b[p] /\ e # 0
        BY <2>1
      <3>2. p # x /\ e = a[p]
        BY <3>1, <1>2
      <3>3. a[p] # a[x]
        BY <3>1, <3>2, <1>0 DEF OneEach
      <3> QED
        BY <2>1, <3>1, <3>2, <3>3
    <2>3. ASSUME NEW e \in Stored(a) \ {a[x]} PROVE e \in Stored(b)
      <3>1. PICK p \in 0 .. c - 1 : e = a[p] /\ e # 0
        BY <2>1
      <3>2. b[p] = e
        BY <3>1, <1>2
      <3> QED
        BY <2>1, <3>1, <3>2
    <2> QED
      BY <2>2, <2>3
  <1>5. Cardinality(Occupied(b)) = Cardinality(Occupied(a)) - 1
    <2>1. Occupied(b) = Occupied(a) \ {x}
      <3>1. Occupied(b) = {p \in 0 .. c - 1 : b[p] # 0} /\ Occupied(a) = {p \in 0 .. c - 1 : a[p] # 0}
        BY <1>0, <1>1 DEF Occupied
      <3> QED
        BY <3>1, <1>2
    <2>2. IsFiniteSet(Occupied(a))
      <3>1. IsFiniteSet(0 .. c - 1)
        BY FS_Interval
      <3> QED
        BY <3>1, <1>0, FS_Subset DEF Occupied
    <2>3. x \in Occupied(a)
      BY <1>0 DEF Occupied
    <2> QED
      BY <2>1, <2>2, <2>3, FS_RemoveElement
  <1> QED
    BY <1>1, <1>2, <1>3, <1>4, <1>5 DEF b

\* With another empty place the loop ends there at the latest, and no element is cut off.
LEMMA RehashStops ==
  ASSUME HashOK, NEW c \in Nat \ {0}, NEW a0 \in Array(c), Sound(a0, c), 0 \notin Elements,
         NEW x \in 0 .. c - 1, a0[x] # 0, NEW z \in 0 .. c - 1, z # x, a0[z] = 0
  PROVE  /\ Keeps(rehash(Cleared(a0, x), x), Cleared(a0, x), c)
         /\ Chained(rehash(Cleared(a0, x), x), c)
PROOF
  <1> DEFINE a == Cleared(a0, x)
             v == VisitUpTo(a, x)
             G == {k \in Nat : k <= c - 1 => VisitInv(v[k], a, c, x, z, k)}
  <1>1. /\ a \in Array(c) /\ a[x] = 0 /\ a[z] = 0 /\ OneEach(a)
        /\ \A p \in 0 .. c - 1 : p # x => a[p] = a0[p]
    BY ClearedIs DEF Sound
  <1>2. Capacity(a) = c
    BY <1>1, ArrayIs
  <1> HIDE DEF a
  <1>3. /\ v[0] = [array |-> a, at |-> x, stop |-> FALSE]
        /\ \A k \in 1 .. c - 1 : v[k] = Visit(v[k - 1], (x + k) % c)
    <2>1. Capacity(a) - 1 \in Nat
      BY <1>2
    <2> QED
      BY <2>1, <1>2, VisitsIs
  <1> HIDE DEF v
  <1>4. \A p \in 0 .. c - 1 : Dist(z, p, c) \in 0 .. c - 1 /\ (Dist(z, p, c) = 0 <=> p = z)
    BY DEF Dist
  <1>5. 0 \in G
    <2>1. ASSUME NEW p \in 0 .. c - 1, a[p] # 0
          PROVE  Reached(a, c, z, p, IF Dist(z, p, c) > Dist(z, x, c) + 0 THEN {x} ELSE {})
      <3>1. p # x /\ a[p] = a0[p]
        BY <2>1, <1>1
      <3>2. Reached(a0, c, z, p, {})
        BY <2>1, <3>1, ReachedIsChained DEF Sound
      <3>3. ASSUME NEW q \in 0 .. c - 1, Dist(z, Home(a[p], c), c) <= Dist(z, q, c),
                   Dist(z, q, c) < Dist(z, p, c), a[q] = 0
            PROVE  q = x
        BY <3>1, <3>2, <3>3, <1>1 DEF Reached
      <3> QED
        BY <3>1, <3>2, <3>3, <1>4 DEF Reached
    <2>2. VisitInv(v[0], a, c, x, z, 0)
      <3> DEFINE b == [array |-> a, at |-> x, stop |-> FALSE]
      <3>1. b.array = a /\ b.at = x /\ b.stop = FALSE
            /\ b \in [array : Array(c), at : 0 .. c - 1, stop : BOOLEAN]
        BY <1>1
      <3> HIDE DEF b
      <3>2. Dist(z, x, c) <= Dist(z, x, c) + 0 /\ Dist(z, x, c) + 0 < c
        BY <1>4
      <3>3. VisitInv(b, a, c, x, z, 0)
        BY <3>1, <3>2, <2>1, <1>1 DEF VisitInv, Keeps
      <3> QED
        BY <3>3, <1>3 DEF b
    <2> QED
      BY <2>2
  <1>6. ASSUME NEW k \in Nat, k \in G PROVE k + 1 \in G
    <2> SUFFICES ASSUME k + 1 <= c - 1 PROVE VisitInv(v[k + 1], a, c, x, z, k + 1)
      OBVIOUS
    <2>1. VisitInv(v[k], a, c, x, z, k) /\ k \in 0 .. c - 2
      BY <1>6
    <2>2. v[k + 1] = Visit(v[k], (x + (k + 1)) % c)
      BY <1>3
    <2> QED
      BY <2>1, <2>2, <1>1, VisitStep
  <1>7. Nat \subseteq G
    <2> HIDE DEF G
    <2> QED
      BY <1>5, <1>6, InductionOnNat
  <1>8. VisitInv(v[c - 1], a, c, x, z, c - 1)
    BY <1>7
  <1> DEFINE b == v[c - 1]
  <1>9. rehash(a, x) = b.array
    BY <1>2 DEF rehash, v
  <1> HIDE DEF b, G
  <1>10. b.stop
    <2>1. b.stop \in BOOLEAN /\ (~b.stop => Dist(z, x, c) + (c - 1) < c)
      BY <1>8 DEF VisitInv, b
    <2> QED
      BY <2>1, <1>4
  <1>11. /\ Keeps(b.array, a, c) /\ b.array \in Array(c) /\ b.array[z] = 0
         /\ \A p \in 0 .. c - 1 : b.array[p] # 0 => Reached(b.array, c, z, p, {})
    BY <1>8, <1>10 DEF VisitInv, b
  <1>12. Chained(b.array, c)
    BY <1>11, ReachedIsChained
  <1> QED
    BY <1>9, <1>11, <1>12 DEF a

\* An array of two places may have been full: the other element is the only one left.
LEMMA RehashOfTwo ==
  ASSUME HashOK, NEW a0 \in Array(2), Sound(a0, 2), 0 \notin Elements,
         NEW x \in 0 .. 1, a0[x] # 0
  PROVE  /\ Keeps(rehash(Cleared(a0, x), x), Cleared(a0, x), 2)
         /\ Chained(rehash(Cleared(a0, x), x), 2)
PROOF
  <1> DEFINE a == Cleared(a0, x)
             v == VisitUpTo(a, x)
             i == 1 - x
             o == a[i]
             s == [array |-> a, at |-> x, stop |-> FALSE]
  <1>1. a \in Array(2) /\ a[x] = 0 /\ OneEach(a)
    BY ClearedIs DEF Sound
  <1>2. Capacity(a) = 2
    BY <1>1, ArrayIs
  <1> HIDE DEF a
  <1>3. i \in 0 .. 1 /\ i # x /\ (x + 1) % 2 = i
    BY ModSmall
  <1>4. v[1] = Visit(s, i) /\ rehash(a, x) = v[1].array
    <2>1. Capacity(a) - 1 \in Nat /\ Capacity(a) - 1 = 1
      BY <1>2
    <2>2. v[0] = s /\ \A k \in 1 .. 1 : v[k] = Visit(v[k - 1], (x + k) % 2)
      BY <2>1, <1>2, VisitsIs
    <2> QED
      BY <2>1, <2>2, <1>3 DEF rehash
  <1>5. s.array = a /\ s.at = x /\ s.stop = FALSE
    OBVIOUS
  <1>6. o # 0 => o \in Elements /\ Home(o, 2) \in 0 .. 1
    <2>1. o \in Elements \cup {0}
      <3> HIDE DEF i
      <3> QED
        BY <1>1, <1>3 DEF Array
    <2>2. 2 \in Nat \ {0} /\ 2 - 1 = 1
      OBVIOUS
    <2> HIDE DEF o
    <2>3. \A e \in Elements : Home(e, 2) \in 0 .. 2 - 1
      BY <2>2, HomeIs
    <2> QED
      BY <2>1, <2>2, <2>3
  <1>7. Visit(s, i) = IF o = 0 THEN [s EXCEPT !.stop = TRUE]
                      ELSE IF Moves(x, i, Home(o, 2))
                        THEN [s EXCEPT !.array = Moved(a, x, i), !.at = i] ELSE s
    <2> HIDE DEF s
    <2> QED
      BY <1>2, <1>5 DEF Visit, Moved, Home
  <1>8. rehash(a, x) = IF o # 0 /\ Moves(x, i, Home(o, 2)) THEN Moved(a, x, i) ELSE a
    <2>1. [s EXCEPT !.stop = TRUE].array = a
          /\ [s EXCEPT !.array = Moved(a, x, i), !.at = i].array = Moved(a, x, i)
      OBVIOUS
    <2> HIDE DEF s, i, o, v
    <2> QED
      BY <2>1, <1>4, <1>5, <1>7
  <1>9. \A p \in 0 .. 1 : p = i \/ p = x
    OBVIOUS
  <1> HIDE DEF v, s, i
  <1>10. CASE o # 0 /\ Moves(x, i, Home(o, 2))
    <2> DEFINE m == Moved(a, x, i)
    <2>1. /\ m \in Array(2) /\ m[x] = o /\ m[i] = 0 /\ OneEach(m)
          /\ Stored(m) = Stored(a) /\ Cardinality(Occupied(m)) = Cardinality(Occupied(a))
      BY <1>1, <1>3, <1>10, MovedKeeps
    <2>2. Home(o, 2) = x
      BY <1>3, <1>6, <1>10 DEF Moves
    <2> HIDE DEF m, o
    <2>3. \A p \in 0 .. 1 : m[p] # 0 => p = x /\ Home(m[p], 2) = p
      BY <2>1, <2>2, <1>9
    <2>4. Chained(m, 2)
      BY <2>3 DEF Chained, Dist
    <2> QED
      BY <2>1, <2>4, <1>8, <1>10 DEF Keeps, m, a
  <1>11. CASE ~(o # 0 /\ Moves(x, i, Home(o, 2)))
    <2>1. o # 0 => Home(o, 2) = i
      BY <1>3, <1>6, <1>11 DEF Moves
    <2>2. \A p \in 0 .. 1 : a[p] # 0 => p = i /\ Home(a[p], 2) = p
      BY <2>1, <1>1, <1>9
    <2>3. Chained(a, 2)
      BY <2>2 DEF Chained, Dist
    <2> QED
      BY <2>3, <1>1, <1>8, <1>11 DEF Keeps, a
  <1> QED
    BY <1>10, <1>11

-----------------------------------------------------------------------------
(* Growing and copying                                                      *)

\* The first k places
FirstStored(a, k) == {a[p] : p \in 0 .. k - 1} \ {0}
FirstOccupied(a, k) == {p \in 0 .. k - 1 : a[p] # 0}

LEMMA EmptyIsSound ==
  ASSUME NEW c \in Nat \ {0}
  PROVE  /\ Empty(c) \in Array(c) /\ Sound(Empty(c), c)
         /\ Stored(Empty(c)) = {} /\ Occupied(Empty(c)) = {}
PROOF
  <1>1. DOMAIN Empty(c) = 0 .. c - 1 /\ \A p \in 0 .. c - 1 : Empty(c)[p] = 0
    BY DEF Empty
  <1>2. Empty(c) \in Array(c)
    BY DEF Empty, Array
  <1>3. Sound(Empty(c), c)
    BY <1>1 DEF Sound, OneEach, Chained
  <1>4. Stored(Empty(c)) = {}
    BY <1>1 DEF Stored
  <1>5. Occupied(Empty(c)) = {}
    BY <1>1 DEF Occupied
  <1> QED
    BY <1>2, <1>3, <1>4, <1>5

\* The number of occupied places
LEMMA OccupiedCount ==
  ASSUME NEW c \in Nat, NEW a \in Array(c)
  PROVE  /\ IsFiniteSet(Occupied(a)) /\ Cardinality(Occupied(a)) \in 0 .. c
         /\ Cardinality(Occupied(a)) < c => \E q \in 0 .. c - 1 : a[q] = 0
         /\ \A x \in 0 .. c - 1 : a[x] # 0 /\ Cardinality(Occupied(a)) < c =>
              \E q \in 0 .. c - 1 : q # x /\ a[q] = 0
PROOF
  <1>1. DOMAIN a = 0 .. c - 1
    BY ArrayIs
  <1>2. IsFiniteSet(0 .. c - 1) /\ Cardinality(0 .. c - 1) = c
    BY FS_Interval
  <1>3. Occupied(a) \subseteq 0 .. c - 1
    BY <1>1 DEF Occupied
  <1>4. IsFiniteSet(Occupied(a)) /\ Cardinality(Occupied(a)) <= Cardinality(0 .. c - 1)
    BY <1>2, <1>3, FS_Subset
  <1>5. Cardinality(Occupied(a)) \in Nat
    BY <1>4, FS_CardinalityType
  <1>6. Cardinality(Occupied(a)) < c => \E q \in 0 .. c - 1 : a[q] = 0
    <2> SUFFICES ASSUME Cardinality(Occupied(a)) < c, \A q \in 0 .. c - 1 : a[q] # 0
                 PROVE  FALSE
      OBVIOUS
    <2>1. Occupied(a) = 0 .. c - 1
      BY <1>1 DEF Occupied
    <2> QED
      BY <2>1, <1>2
  <1>7. ASSUME NEW x \in 0 .. c - 1, a[x] # 0, Cardinality(Occupied(a)) < c
        PROVE  \E q \in 0 .. c - 1 : q # x /\ a[q] = 0
    BY <1>6, <1>7
  <1> QED
    BY <1>2, <1>4, <1>5, <1>6, <1>7

\* A copy in an array that is not smaller holds the same elements.
LEMMA CopyKeeps ==
  ASSUME HashOK, NEW c0 \in Nat, NEW c \in Nat \ {0}, c0 <= c, 0 \notin Elements,
         NEW a \in Array(c0), OneEach(a)
  PROVE  /\ SetCopy(a, c) \in Array(c) /\ Sound(SetCopy(a, c), c)
         /\ Stored(SetCopy(a, c)) = Stored(a)
         /\ Cardinality(Occupied(SetCopy(a, c))) = Cardinality(Occupied(a))
PROOF
  <1> DEFINE v == CopyUpTo(a, c)
             Copied(b, k) == /\ b \in Array(c) /\ Sound(b, c)
                             /\ Stored(b) = FirstStored(a, k)
                             /\ Cardinality(Occupied(b)) = Cardinality(FirstOccupied(a, k))
             G == {k \in Nat : k <= c0 => Copied(v[k], k)}
  <1>1. DOMAIN a = 0 .. c0 - 1 /\ Capacity(a) = c0 /\ \A p \in 0 .. c0 - 1 : a[p] \in Elements \cup {0}
    BY ArrayIs
  <1>2. v[0] = Empty(c) /\ \A k \in 1 .. c0 : v[k] = Added(v[k - 1], a[k - 1])
    BY <1>1, CopyIs
  <1> HIDE DEF v
  <1>3. 0 \in G
    <2>1. FirstStored(a, 0) = {} /\ FirstOccupied(a, 0) = {}
      BY DEF FirstStored, FirstOccupied
    <2> QED
      BY <2>1, <1>2, EmptyIsSound
  <1>4. ASSUME NEW k \in Nat, k \in G PROVE k + 1 \in G
    <2> SUFFICES ASSUME k + 1 <= c0 PROVE Copied(v[k + 1], k + 1)
      OBVIOUS
    <2> DEFINE b == v[k]
               e == a[k]
               s == findAt(b, e)
               d == Put(b, e)
    <2>1. Copied(b, k)
      BY <1>4
    <2>2. v[k + 1] = Added(b, e)
      BY <1>2
    <2>3. k \in 0 .. c0 - 1 /\ e \in Elements \cup {0}
      BY <1>1
    <2> HIDE DEF b
    <2>4. IsFiniteSet(FirstOccupied(a, k)) /\ Cardinality(FirstOccupied(a, k)) \in Nat
          /\ Cardinality(FirstOccupied(a, k)) <= k
      <3>0. k - 1 \in Int
        OBVIOUS
      <3>1. IsFiniteSet(0 .. k - 1) /\ Cardinality(0 .. k - 1) = k
        <4>1. /\ IsFiniteSet(0 .. k - 1)
              /\ Cardinality(0 .. k - 1) = IF 0 > k - 1 THEN 0 ELSE (k - 1) - 0 + 1
          BY <3>0, FS_Interval
        <4> QED
          BY <4>1
      <3>2. IsFiniteSet(FirstOccupied(a, k)) /\ Cardinality(FirstOccupied(a, k)) <= k
        BY <3>1, FS_Subset DEF FirstOccupied
      <3> QED
        BY <3>2, FS_CardinalityType
    <2>5. CASE e = 0
      <3>1. FirstStored(a, k + 1) = FirstStored(a, k)
        BY <2>5 DEF FirstStored
      <3>2. FirstOccupied(a, k + 1) = FirstOccupied(a, k)
        BY <2>5 DEF FirstOccupied
      <3>3. v[k + 1] = b
        BY <2>2, <2>5 DEF Added
      <3> QED
        BY <3>1, <3>2, <3>3, <2>1
    <2>6. CASE e # 0
      <3>1. e \in Elements
        BY <2>3, <2>6
      <3>2. v[k + 1] = d
        BY <2>2, <2>6 DEF Added, Put
      <3>3. \E q \in 0 .. c - 1 : b[q] = 0
        BY <2>1, <2>3, <2>4, OccupiedCount
      <3>4. s # noObjectEntry
        BY <2>1, <3>1, <3>3, SearchIsExact
      <3>5. /\ s \in 0 .. c - 1 /\ d \in Array(c) /\ Sound(d, c)
            /\ Occupied(d) = Occupied(b) \cup {s}
            /\ b[s] = 0 => Stored(d) = Stored(b) \cup {e}
        <4> HIDE DEF e
        <4>1. b \in Array(c) /\ Sound(b, c) /\ findAt(b, e) # noObjectEntry
          BY <2>1, <3>4
        <4> QED
          BY <4>1, <3>1, PutSound
      <3> HIDE DEF d, e
      <3>6. b[s] = 0
        <4>1. SUFFICES ASSUME b[s] # 0 PROVE FALSE
          OBVIOUS
        <4>2. Key[b[s]] = Key[e]
          BY <2>1, <3>1, <3>4, <4>1, SearchIsExact DEF Hit, isSame
        <4>3. b[s] \in Stored(b)
          <5>1. DOMAIN b = 0 .. c - 1
            BY <2>1, ArrayIs
          <5> QED
            BY <5>1, <3>5, <4>1 DEF Stored
        <4>4. PICK p \in 0 .. k - 1 : b[s] = a[p]
          BY <4>3, <2>1 DEF FirstStored
        <4>5. p \in DOMAIN a /\ k \in DOMAIN a /\ p # k
          BY <1>1, <2>3
        <4> QED
          BY <4>1, <4>2, <4>4, <4>5, <2>6 DEF OneEach, e
      <3>7. Stored(d) = FirstStored(a, k + 1)
        <4>1. FirstStored(a, k + 1) = FirstStored(a, k) \cup {e}
          <5>1. 0 .. (k + 1) - 1 = (0 .. k - 1) \cup {k}
            OBVIOUS
          <5> QED
            BY <5>1, <2>6 DEF FirstStored, e
        <4> QED
          BY <4>1, <3>5, <3>6, <2>1
      <3>8. Cardinality(Occupied(d)) = Cardinality(FirstOccupied(a, k + 1))
        <4>1. FirstOccupied(a, k + 1) = FirstOccupied(a, k) \cup {k}
          <5>1. 0 .. (k + 1) - 1 = (0 .. k - 1) \cup {k}
            OBVIOUS
          <5> QED
            BY <5>1, <2>6 DEF FirstOccupied, e
        <4>2. k \notin FirstOccupied(a, k)
          BY DEF FirstOccupied
        <4>3. Cardinality(FirstOccupied(a, k + 1)) = Cardinality(FirstOccupied(a, k)) + 1
          BY <4>1, <4>2, <2>4, FS_AddElement
        <4>4. s \notin Occupied(b) /\ IsFiniteSet(Occupied(b))
          BY <3>6, <2>1, OccupiedCount DEF Occupied
        <4>5. Cardinality(Occupied(d)) = Cardinality(Occupied(b)) + 1
          BY <3>5, <4>4, FS_AddElement
        <4> QED
          BY <4>3, <4>5, <2>1
      <3> QED
        BY <3>2, <3>5, <3>7, <3>8
    <2> QED
      BY <2>5, <2>6
  <1>5. Nat \subseteq G
    <2> HIDE DEF G
    <2> QED
      BY <1>3, <1>4, InductionOnNat
  <1>6. Copied(v[c0], c0)
    <2> HIDE DEF Copied
    <2> QED
      BY <1>5
  <1>7. SetCopy(a, c) = v[c0]
    BY <1>1 DEF SetCopy, v
  <1>8. FirstStored(a, c0) = Stored(a) /\ FirstOccupied(a, c0) = Occupied(a)
    BY <1>1 DEF FirstStored, FirstOccupied, Stored, Occupied
  <1> QED
    BY <1>6, <1>7, <1>8

-----------------------------------------------------------------------------
(* Sets                                                                     *)

\* The invariant of a set of n elements.  The capacity is never 3, with which two elements
\* are within the limit of two thirds and a third fills the array: a larger array has an
\* empty place when an element is removed, where the loop of rehash() stops at the latest.
SetOK(a, n, c) ==
  /\ c \in Nat /\ (c = 2 \/ c >= 4)
  /\ a \in Array(c) /\ Sound(a, c)
  /\ n = Cardinality(Occupied(a)) /\ n * 3 <= c * 2 + 3

ElementsOK == 0 \notin Elements /\ Elements \subseteq Nat

\* expand() or not, there is room for one more
LEMMA ExpandedHasRoom ==
  ASSUME HashOK, ElementsOK, NEW c, c = Capacity(array), SetOK(array, num, c)
  PROVE  LET d == Capacity(SetExpanded)
         IN /\ SetOK(SetExpanded, num, d) /\ num * 3 <= d * 2
            /\ Stored(SetExpanded) = Stored(array)
            /\ \E q \in 0 .. d - 1 : SetExpanded[q] = 0
PROOF
  <1>1. c \in Nat \ {0} /\ array \in Array(c) /\ Sound(array, c) /\ num = Cardinality(Occupied(array))
    BY DEF SetOK
  <1>2. num \in 0 .. c
    BY <1>1, OccupiedCount
  <1>3. CASE num * 3 > c * 2
    <2> DEFINE d == (c + 1) * 2
               b == SetCopy(array, d)
    <2>1. SetExpanded = b
      BY <1>3 DEF SetExpanded
    <2>2. d \in Nat \ {0} /\ c <= d /\ d >= 4 /\ num * 3 <= d * 2 /\ num < d /\ c \in Nat
      BY <1>1, <1>2
    <2> HIDE DEF d
    <2>3. b \in Array(d) /\ Sound(b, d) /\ Stored(b) = Stored(array)
          /\ Cardinality(Occupied(b)) = Cardinality(Occupied(array))
      BY <1>1, <2>2, CopyKeeps DEF ElementsOK, Sound
    <2> HIDE DEF b
    <2>4. Capacity(b) = d
      BY <2>2, <2>3, ArrayIs
    <2>5. \E q \in 0 .. d - 1 : b[q] = 0
      BY <1>1, <2>2, <2>3, OccupiedCount
    <2>6. SetOK(b, num, d)
      BY <1>1, <1>2, <2>2, <2>3 DEF SetOK
    <2> QED
      BY <2>1, <2>2, <2>3, <2>4, <2>5, <2>6
  <1>4. CASE ~(num * 3 > c * 2)
    <2>1. SetExpanded = array
      BY <1>4 DEF SetExpanded
    <2>2. num < c /\ num * 3 <= c * 2
      BY <1>1, <1>2, <1>4
    <2>3. \E q \in 0 .. c - 1 : array[q] = 0
      BY <1>1, <2>2, OccupiedCount
    <2> QED
      BY <2>1, <2>2, <2>3
  <1> QED
    BY <1>3, <1>4

\* What addIfAbsent() returns, and the place of it
Adds(r, e, c) ==
  /\ SetOK(r.array, r.num, c) /\ c = Capacity(r.array)
  /\ r.slot \in 0 .. c - 1 /\ r.slot = findAt(r.array, e)
  /\ r.elm \in Elements /\ r.elm = r.array[r.slot] /\ Key[r.elm] = Key[e]
  /\ Stored(r.array) = Stored(array) \cup {r.elm}
  /\ \/ r.elm \in Stored(array)
     \/ r.elm = e /\ \A o \in Stored(array) : Key[o] # Key[e]

LEMMA AddIfAbsentAdds ==
  ASSUME HashOK, ElementsOK, SetOK(array, num, Capacity(array)), NEW e \in Elements
  PROVE  \E c : Adds(addIfAbsent(e), e, c)
PROOF
  <1> DEFINE a == SetExpanded
             c == Capacity(a)
             s == findAt(a, e)
             r == addIfAbsent(e)
  <1>1. /\ SetOK(a, num, c) /\ num * 3 <= c * 2 /\ Stored(a) = Stored(array)
        /\ \E q \in 0 .. c - 1 : a[q] = 0
    BY ExpandedHasRoom
  <1> HIDE DEF a
  <1>2. c \in Nat \ {0} /\ a \in Array(c) /\ Sound(a, c) /\ num = Cardinality(Occupied(a))
    BY <1>1 DEF SetOK
  <1>3. s \in 0 .. c - 1 /\ s # noObjectEntry /\ Hit(a, s, e)
        /\ \A p \in 0 .. c - 1 : isSame(a[p], e) => s = p
    BY <1>1, <1>2, SearchIsExact
  <1>4. DOMAIN a = 0 .. c - 1 /\ \A p \in 0 .. c - 1 : a[p] \in Elements \cup {0}
    BY <1>2, ArrayIs
  <1>5. a[s] \in Elements \cup {0}
    BY <1>3, <1>4
  <1> HIDE DEF c
  <1>6. CASE a[s] = 0
    <2> DEFINE b == Put(a, e)
    <2>1. r = [array |-> b, num |-> num + 1, slot |-> s, elm |-> e]
      BY <1>3, <1>6 DEF addIfAbsent, a, Put
    <2>2. /\ b \in Array(c) /\ Sound(b, c) /\ b[s] = e
          /\ Occupied(b) = Occupied(a) \cup {s}
          /\ Stored(b) = Stored(a) \cup {e}
      BY <1>2, <1>3, <1>6, PutSound DEF ElementsOK
    <2> HIDE DEF b
    <2>3. Cardinality(Occupied(b)) = num + 1
      <3>1. s \notin Occupied(a)
        BY <1>6 DEF Occupied
      <3> QED
        BY <3>1, <2>2, <1>2, OccupiedCount, FS_AddElement
    <2>4. Capacity(b) = c
      BY <2>2, <1>2, ArrayIs
    <2>5. num \in Nat
      BY <1>2, OccupiedCount
    <2>6. SetOK(b, num + 1, c)
      BY <2>2, <2>3, <2>5, <1>1, <1>2 DEF SetOK
    <2>7. findAt(b, e) = s
      BY <2>2, <1>2, <1>3, SearchIsExact DEF isSame, ElementsOK
    <2>8. \A o \in Stored(array) : Key[o] # Key[e]
      <3> SUFFICES ASSUME NEW o \in Stored(a), Key[o] = Key[e] PROVE FALSE
        BY <1>1
      <3>1. PICK p \in 0 .. c - 1 : o = a[p] /\ o # 0
        BY <1>4 DEF Stored
      <3> QED
        BY <3>1, <1>3, <1>6 DEF isSame
    <2>9. Adds(r, e, c)
      <3>1. r.array = b /\ r.num = num + 1 /\ r.slot = s /\ r.elm = e
        BY <2>1
      <3> HIDE DEF r, s
      <3> QED
        BY <3>1, <2>2, <2>4, <2>6, <2>7, <2>8, <1>1, <1>3 DEF Adds
    <2> QED
      BY <2>9
  <1>7. CASE a[s] # 0
    <2>1. r = [array |-> a, num |-> num, slot |-> s, elm |-> a[s]]
      BY <1>3, <1>7 DEF addIfAbsent, a
    <2>2. a[s] \in Stored(a) /\ a[s] \in Elements /\ Key[a[s]] = Key[e]
      BY <1>3, <1>4, <1>5, <1>7 DEF Stored, Hit, isSame
    <2>3. Adds(r, e, c)
      <3>1. r.array = a /\ r.num = num /\ r.slot = s /\ r.elm = a[s]
        BY <2>1
      <3>2. Stored(a) = Stored(array) \cup {a[s]}
        BY <2>2, <1>1
      <3>3. s = findAt(a, e) /\ c = Capacity(a)
        BY DEF c
      <3> HIDE DEF r, s
      <3> QED
        BY <3>1, <3>2, <3>3, <2>2, <1>1, <1>3 DEF Adds
    <2> QED
      BY <2>3
  <1> QED
    BY <1>6, <1>7

\* What remove() and find() look for: the one element with the key of e, or 0
IsOld(old, S, e) ==
  \/ old = 0 /\ \A o \in S : Key[o] # Key[e]
  \/ /\ old \in S /\ Key[old] = Key[e]
     /\ \A o \in S : Key[o] = Key[e] => o = old

\* In a sound array every key is stored once.
LEMMA StoredOnce ==
  ASSUME NEW c \in Nat, NEW a \in Array(c), OneEach(a)
  PROVE  /\ \A o, p \in Stored(a) : Key[o] = Key[p] => o = p
         /\ Stored(a) \subseteq Elements
         /\ \A o : o \in Stored(a) <=> o # 0 /\ \E p \in 0 .. c - 1 : a[p] = o
PROOF
  <1>1. DOMAIN a = 0 .. c - 1 /\ \A p \in 0 .. c - 1 : a[p] \in Elements \cup {0}
    BY ArrayIs
  <1>2. \A o : o \in Stored(a) <=> o # 0 /\ \E p \in 0 .. c - 1 : a[p] = o
    BY <1>1 DEF Stored
  <1>3. Stored(a) \subseteq Elements
    BY <1>1, <1>2
  <1>4. ASSUME NEW o \in Stored(a), NEW p \in Stored(a), Key[o] = Key[p] PROVE o = p
    <2>1. PICK q \in 0 .. c - 1 : a[q] = o
      BY <1>2
    <2>2. PICK r \in 0 .. c - 1 : a[r] = p
      BY <1>2
    <2> QED
      BY <2>1, <2>2, <1>1, <1>2, <1>4 DEF OneEach
  <1> QED
    BY <1>2, <1>3, <1>4

\* The place found for a key holds the old element or nothing.
LEMMA FoundIsOld ==
  ASSUME HashOK, NEW c \in Nat \ {0}, NEW a \in Array(c), Sound(a, c), NEW e \in Elements
  PROVE  IsOld(IF findAt(a, e) = noObjectEntry THEN 0 ELSE a[findAt(a, e)], Stored(a), e)
PROOF
  <1> DEFINE s == findAt(a, e)
  <1>1. /\ \A p \in 0 .. c - 1 : isSame(a[p], e) => s = p
        /\ s \in 0 .. c - 1 \/ s = noObjectEntry
        /\ s # noObjectEntry => Hit(a, s, e)
    BY SearchIsExact
  <1>2. /\ \A o, p \in Stored(a) : Key[o] = Key[p] => o = p
        /\ \A o : o \in Stored(a) <=> o # 0 /\ \E p \in 0 .. c - 1 : a[p] = o
    BY StoredOnce DEF Sound
  <1>3. noObjectEntry \notin 0 .. c - 1
    BY DEF noObjectEntry
  <1> HIDE DEF s
  <1>4. CASE s # noObjectEntry /\ a[s] # 0
    <2>1. a[s] \in Stored(a) /\ Key[a[s]] = Key[e]
      BY <1>1, <1>2, <1>4 DEF Hit, isSame
    <2> QED
      BY <2>1, <1>2, <1>4 DEF IsOld, s
  <1>5. CASE s = noObjectEntry \/ a[s] = 0
    <2>1. ASSUME NEW o \in Stored(a), Key[o] = Key[e] PROVE FALSE
      <3>1. PICK p \in 0 .. c - 1 : a[p] = o /\ o # 0
        BY <1>2
      <3>2. s = p
        BY <2>1, <3>1, <1>1 DEF isSame
      <3> QED
        BY <3>1, <3>2, <1>3, <1>5
    <2> QED
      BY <2>1, <1>5 DEF IsOld, s
  <1> QED
    BY <1>4, <1>5

SetOps == {"add", "filter", "replace", "remove", "find"}

\* What an operation does to a set, and returns, seen from outside
SetActs(op, e, S, T, r) ==
  \E old :
    /\ IsOld(old, S, e)
    /\ op \in {"add", "filter"} => T = IF old = 0 THEN S \cup {e} ELSE S
    /\ op = "replace" => T = {o \in S : Key[o] # Key[e]} \cup {e}
    /\ op = "remove" => T = {o \in S : Key[o] # Key[e]}
    /\ op = "find" => T = S
    /\ op = "add" => r = IF old \in {0, e} THEN e ELSE 0
    /\ op = "filter" => r = IF old = 0 THEN e ELSE old
    /\ op = "replace" => r = IF old = e THEN 0 ELSE old
    /\ op \in {"remove", "find"} => r = old

\* What was there before addIfAbsent() and what is there after
LEMMA AddedIs ==
  ASSUME ElementsOK, NEW e \in Elements, NEW r, NEW c, Adds(r, e, c),
         \A o, p \in Stored(array) : Key[o] = Key[p] => o = p
  PROVE  \E old : /\ IsOld(old, Stored(array), e)
                  /\ Stored(r.array) = IF old = 0 THEN Stored(array) \cup {e} ELSE Stored(array)
                  /\ r.elm = (IF old = 0 THEN e ELSE old)
                  /\ old # 0 => old \in Elements
PROOF
  <1>1. CASE r.elm \in Stored(array)
    <2>1. IsOld(r.elm, Stored(array), e) /\ r.elm # 0
      BY <1>1 DEF IsOld, Adds, ElementsOK
    <2>2. Stored(r.array) = Stored(array)
      BY <1>1 DEF Adds
    <2>3. r.elm \in Elements
      BY DEF Adds
    <2> QED
      BY <2>1, <2>2, <2>3
  <1>2. CASE r.elm = e /\ \A o \in Stored(array) : Key[o] # Key[e]
    <2>1. IsOld(0, Stored(array), e)
      BY <1>2 DEF IsOld
    <2>2. Stored(r.array) = Stored(array) \cup {e}
      BY <1>2 DEF Adds
    <2> QED
      BY <2>1, <2>2, <1>2
  <1> QED
    BY <1>1, <1>2 DEF Adds

\* Replacing the element found puts the other one in its place.
LEMMA PutOver ==
  ASSUME HashOK, ElementsOK, NEW c \in Nat \ {0}, NEW a \in Array(c), Sound(a, c),
         NEW e \in Elements, findAt(a, e) \in 0 .. c - 1, a[findAt(a, e)] # 0
  PROVE  Stored(Put(a, e)) = {o \in Stored(a) : Key[o] # Key[e]} \cup {e}
PROOF
  <1> DEFINE s == findAt(a, e)
             b == Put(a, e)
  <1>1. findAt(a, e) # noObjectEntry /\ 0 \notin Elements
    BY DEF noObjectEntry, ElementsOK
  <1>2. b \in Array(c) /\ Sound(b, c) /\ b[s] = e /\ \A p \in 0 .. c - 1 : p # s => b[p] = a[p]
    BY <1>1, PutSound
  <1>3. Key[a[s]] = Key[e]
    BY <1>1, SearchIsExact DEF Hit, isSame
  <1>4. \A p \in 0 .. c - 1 : isSame(a[p], e) => s = p
    BY SearchIsExact
  <1> HIDE DEF s, b
  <1>5. s \in 0 .. c - 1 /\ e # 0 /\ a[s] # 0
    BY <1>1 DEF s
  <1>6. /\ \A o : o \in Stored(a) <=> o # 0 /\ \E p \in 0 .. c - 1 : a[p] = o
        /\ \A o : o \in Stored(b) <=> o # 0 /\ \E p \in 0 .. c - 1 : b[p] = o
    BY <1>2, StoredOnce DEF Sound
  <1>7. ASSUME NEW o \in Stored(b) PROVE o \in {x \in Stored(a) : Key[x] # Key[e]} \cup {e}
    <2>1. PICK p \in 0 .. c - 1 : b[p] = o /\ o # 0
      BY <1>6
    <2>2. CASE p = s
      BY <2>1, <2>2, <1>2
    <2>3. CASE p # s
      <3>1. a[p] = o /\ o \in Stored(a)
        BY <2>1, <2>3, <1>2, <1>6
      <3> QED
        BY <3>1, <2>1, <2>3, <1>4 DEF isSame
    <2> QED
      BY <2>2, <2>3
  <1>8. ASSUME NEW o \in {x \in Stored(a) : Key[x] # Key[e]} \cup {e} PROVE o \in Stored(b)
    <2>1. CASE o = e
      BY <2>1, <1>2, <1>5, <1>6
    <2>2. CASE o \in Stored(a) /\ Key[o] # Key[e]
      <3>1. PICK p \in 0 .. c - 1 : a[p] = o /\ o # 0
        BY <2>2, <1>6
      <3>2. p # s
        BY <3>1, <2>2, <1>3
      <3> QED
        BY <3>1, <3>2, <1>2, <1>6
    <2> QED
      BY <2>1, <2>2, <1>8
  <1> QED
    BY <1>7, <1>8 DEF b

\* What every operation of a set keeps, and what it does
SetStepOK(op, e) ==
  /\ SetOK(array', num', Capacity(array'))
  /\ SetActs(op, e, Stored(array), Stored(array'), ret')

\* What the lemmas on the operations have in common
SetPre == HashOK /\ ElementsOK /\ SetOK(array, num, Capacity(array))

LEMMA SetPreIs ==
  ASSUME SetPre
  PROVE  /\ HashOK /\ ElementsOK /\ 0 \notin Elements
         /\ Capacity(array) \in Nat \ {0} /\ array \in Array(Capacity(array))
         /\ Sound(array, Capacity(array)) /\ OneEach(array)
         /\ \A o, p \in Stored(array) : Key[o] = Key[p] => o = p
PROOF
  <1>1. Capacity(array) \in Nat \ {0} /\ array \in Array(Capacity(array))
        /\ Sound(array, Capacity(array))
    BY DEF SetPre, SetOK
  <1> QED
    BY <1>1, StoredOnce DEF SetPre, ElementsOK, Sound

LEMMA AddKeeps == ASSUME SetPre, NEW e \in Elements, add(e) PROVE SetStepOK("add", e)
PROOF
  <1> DEFINE r == addIfAbsent(e)
  <1>1. PICK c : Adds(r, e, c)
    BY SetPreIs, AddIfAbsentAdds DEF SetPre
  <1>2. array' = r.array /\ num' = r.num /\ ret' = IF r.elm = e THEN e ELSE 0
    BY DEF add
  <1> HIDE DEF r
  <1>3. PICK old : /\ IsOld(old, Stored(array), e)
                   /\ Stored(r.array) = IF old = 0 THEN Stored(array) \cup {e} ELSE Stored(array)
                   /\ r.elm = (IF old = 0 THEN e ELSE old)
    BY <1>1, SetPreIs, AddedIs
  <1>4. ret' = IF old \in {0, e} THEN e ELSE 0
    BY <1>2, <1>3
  <1>5. SetActs("add", e, Stored(array), Stored(array'), ret')
    BY <1>2, <1>3, <1>4 DEF SetActs
  <1>6. SetOK(array', num', Capacity(array'))
    BY <1>1, <1>2 DEF Adds
  <1> QED
    BY <1>5, <1>6 DEF SetStepOK

LEMMA FilterKeeps == ASSUME SetPre, NEW e \in Elements, filter(e) PROVE SetStepOK("filter", e)
PROOF
  <1> DEFINE r == addIfAbsent(e)
  <1>1. PICK c : Adds(r, e, c)
    BY SetPreIs, AddIfAbsentAdds DEF SetPre
  <1>2. array' = r.array /\ num' = r.num /\ ret' = r.elm
    BY DEF filter
  <1> HIDE DEF r
  <1>3. PICK old : /\ IsOld(old, Stored(array), e)
                   /\ Stored(r.array) = IF old = 0 THEN Stored(array) \cup {e} ELSE Stored(array)
                   /\ r.elm = (IF old = 0 THEN e ELSE old)
    BY <1>1, SetPreIs, AddedIs
  <1>5. SetActs("filter", e, Stored(array), Stored(array'), ret')
    BY <1>2, <1>3 DEF SetActs
  <1>6. SetOK(array', num', Capacity(array'))
    BY <1>1, <1>2 DEF Adds
  <1> QED
    BY <1>5, <1>6 DEF SetStepOK

LEMMA ReplaceKeeps == ASSUME SetPre, NEW e \in Elements, replace(e) PROVE SetStepOK("replace", e)
PROOF
  <1> DEFINE r == addIfAbsent(e)
             b == Put(r.array, e)
  <1>1. PICK c : Adds(r, e, c)
    BY SetPreIs, AddIfAbsentAdds DEF SetPre
  <1>2. /\ r.elm \in Elements /\ r.elm # 0 /\ c \in Nat \ {0}
        /\ r.slot = findAt(r.array, e) /\ r.slot \in 0 .. c - 1 /\ r.array[r.slot] = r.elm
        /\ r.array \in Array(c) /\ Sound(r.array, c) /\ r.slot # noObjectEntry
        /\ SetOK(r.array, r.num, c)
    BY <1>1, SetPreIs DEF Adds, SetOK, noObjectEntry
  <1>3. array' = b /\ num' = r.num /\ ret' = IF r.elm = e THEN 0 ELSE r.elm
    BY <1>2 DEF replace, Put
  <1> HIDE DEF r
  <1>4. PICK old : /\ IsOld(old, Stored(array), e)
                   /\ Stored(r.array) = IF old = 0 THEN Stored(array) \cup {e} ELSE Stored(array)
                   /\ r.elm = (IF old = 0 THEN e ELSE old)
                   /\ old # 0 => old \in Elements
    BY <1>1, SetPreIs, AddedIs
  <1>5. /\ b \in Array(c) /\ Sound(b, c) /\ Occupied(b) = Occupied(r.array) \cup {r.slot}
        /\ Stored(b) = {o \in Stored(r.array) : Key[o] # Key[e]} \cup {e}
    BY <1>2, SetPreIs, PutSound, PutOver
  <1> HIDE DEF b
  <1>6. Occupied(b) = Occupied(r.array) /\ Capacity(b) = c
    <2>1. r.slot \in Occupied(r.array)
      BY <1>2, ArrayIs DEF Occupied
    <2> QED
      BY <2>1, <1>2, <1>5, ArrayIs
  <1>7. SetOK(b, r.num, c)
    BY <1>2, <1>5, <1>6 DEF SetOK
  <1>8. Stored(b) = {o \in Stored(array) : Key[o] # Key[e]} \cup {e}
    BY <1>4, <1>5
  \* The element itself is added when none of its key was there, and nothing is returned
  <1>9. CASE old = 0
    <2>1. {o \in Stored(array) : Key[o] # Key[e]} = Stored(array)
      <3>1. 0 \notin Stored(array)
        BY DEF Stored
      <3> QED
        BY <3>1, <1>4, <1>9 DEF IsOld
    <2>2. ret' = 0
      BY <1>3, <1>4, <1>9
    <2>3. e # 0
      BY SetPreIs
    <2> QED
      BY <2>2, <2>3, <1>3, <1>4, <1>6, <1>7, <1>8, <1>9 DEF SetActs, SetStepOK
  <1>10. CASE old # 0
    <2>1. ret' = IF old = e THEN 0 ELSE old
      BY <1>3, <1>4, <1>10
    <2> QED
      BY <2>1, <1>3, <1>4, <1>6, <1>7, <1>8 DEF SetActs, SetStepOK
  <1> QED
    BY <1>9, <1>10

\* There is another empty place, or the array has two places only.
LEMMA RemoveKeeps == ASSUME SetPre, NEW e \in Elements, remove(e) PROVE SetStepOK("remove", e)
PROOF
  <1> DEFINE c == Capacity(array)
             s == findAt(array, e)
             old == IF s = noObjectEntry THEN 0 ELSE array[s]
             a == Cleared(array, s)
             b == rehash(a, s)
  <1>1. /\ c \in Nat \ {0} /\ array \in Array(c) /\ Sound(array, c) /\ OneEach(array)
        /\ HashOK /\ 0 \notin Elements /\ SetOK(array, num, c)
        /\ \A o, p \in Stored(array) : Key[o] = Key[p] => o = p
    BY SetPreIs DEF SetPre
  <1>2. ret' = old /\ IF old = 0 THEN array' = array /\ num' = num
                      ELSE array' = b /\ num' = num - 1
    BY DEF remove, Cleared
  <1>3. IsOld(old, Stored(array), e)
    BY <1>1, FoundIsOld
  <1>4. s \in 0 .. c - 1 \/ s = noObjectEntry
    BY <1>1, SearchIsExact
  <1> HIDE DEF c, s, b, a
  <1>5. CASE old = 0
    <2>1. SetActs("remove", e, Stored(array), Stored(array'), ret')
      <3>1. {o \in Stored(array) : Key[o] # Key[e]} = Stored(array)
        <4>1. 0 \notin Stored(array)
          BY DEF Stored
        <4> QED
          BY <4>1, <1>3, <1>5 DEF IsOld
      <3> QED
        BY <3>1, <1>2, <1>3, <1>5 DEF SetActs
    <2>2. SetOK(array', num', Capacity(array'))
      BY <1>1, <1>2, <1>5 DEF c
    <2> QED
      BY <2>1, <2>2 DEF SetStepOK
  <1>6. CASE old # 0
    <2>1. s \in 0 .. c - 1 /\ array[s] # 0 /\ old = array[s]
      BY <1>4, <1>6
    <2>2. /\ a \in Array(c) /\ Stored(a) = Stored(array) \ {array[s]}
          /\ Cardinality(Occupied(a)) = Cardinality(Occupied(array)) - 1
      BY <1>1, <2>1, ClearedIs DEF a
    <2>3. Keeps(b, a, c) /\ Chained(b, c)
      <3>1. CASE c = 2
        <4>1. array \in Array(2) /\ Sound(array, 2) /\ s \in 0 .. 1
          BY <1>1, <2>1, <3>1
        <4>2. Keeps(b, a, 2) /\ Chained(b, 2)
          BY <4>1, <1>1, <2>1, RehashOfTwo DEF a, b
        <4> QED
          BY <4>2, <3>1
      <3>2. CASE c # 2
        <4>1. Cardinality(Occupied(array)) < c
          BY <3>2, <1>1, OccupiedCount DEF SetOK
        <4>2. PICK z \in 0 .. c - 1 : z # s /\ array[z] = 0
          BY <4>1, <1>1, <2>1, OccupiedCount
        <4> QED
          BY <4>2, <1>1, <2>1, RehashStops DEF a, b
      <3> QED
        BY <3>1, <3>2
    <2>4. /\ b \in Array(c) /\ Sound(b, c) /\ Stored(b) = Stored(array) \ {old}
          /\ Cardinality(Occupied(b)) = Cardinality(Occupied(array)) - 1
      BY <2>1, <2>2, <2>3 DEF Keeps, Sound
    <2>5. Capacity(b) = c
      BY <2>4, <1>1, ArrayIs
    <2>6. num \in 0 .. c /\ num = Cardinality(Occupied(array))
      BY <1>1, OccupiedCount DEF SetOK
    <2>7. SetOK(b, num - 1, c)
      BY <2>4, <2>6, <1>1 DEF SetOK
    <2>8. Stored(array) \ {old} = {o \in Stored(array) : Key[o] # Key[e]}
      BY <1>3, <1>6 DEF IsOld
    <2>9. SetActs("remove", e, Stored(array), Stored(b), old)
      BY <2>4, <2>8, <1>3 DEF SetActs
    <2> QED
      BY <2>5, <2>7, <2>9, <1>2, <1>6 DEF SetStepOK
  <1> QED
    BY <1>5, <1>6

LEMMA FindKeeps == ASSUME SetPre, NEW e \in Elements, find(e) PROVE SetStepOK("find", e)
PROOF
  <1>1. IsOld(ret', Stored(array), e)
    BY SetPreIs, FoundIsOld DEF find
  <1>2. array' = array /\ num' = num
    BY DEF find
  <1>3. SetActs("find", e, Stored(array), Stored(array'), ret')
    BY <1>1, <1>2 DEF SetActs
  <1>4. SetOK(array', num', Capacity(array'))
    BY <1>2 DEF SetPre
  <1> QED
    BY <1>3, <1>4 DEF SetStepOK


-----------------------------------------------------------------------------
(* Lists                                                                    *)

\* The elements are appended one after the other.
LEMMA InOrderIs ==
  ASSUME NEW a, Capacity(a) \in Nat
  PROVE  /\ InOrderUpTo(a)[0] = <<>>
         /\ \A k \in 1 .. Capacity(a) :
              InOrderUpTo(a)[k] = IF a[k - 1] = 0 THEN InOrderUpTo(a)[k - 1] ELSE Append(InOrderUpTo(a)[k - 1], a[k - 1])
PROOF
  <1> DEFINE Next1(g, k) == IF a[k - 1] = 0 THEN g ELSE Append(g, a[k - 1])
             Is(g, n) == g = [k \in 0 .. n |-> IF k = 0 THEN <<>> ELSE Next1(g[k - 1], k)]
             G == {n \in Nat : \E g : Is(g, n)}
  <1>1. 0 \in G
    <2>1. Is([k \in 0 .. 0 |-> <<>>], 0)
      OBVIOUS
    <2> QED
      BY <2>1
  <1>2. ASSUME NEW n \in Nat, n \in G PROVE n + 1 \in G
    <2> HIDE DEF Next1
    <2>1. PICK g : Is(g, n)
      BY <1>2
    <2> DEFINE d == [k \in 0 .. n + 1 |-> IF k <= n THEN g[k] ELSE Next1(g[n], n + 1)]
               r == [k \in 0 .. n + 1 |-> IF k = 0 THEN <<>> ELSE Next1(d[k - 1], k)]
    <2>2. \A k \in 0 .. n : g[k] = IF k = 0 THEN <<>> ELSE Next1(g[k - 1], k)
      BY <2>1
    <2>3. ASSUME NEW k \in 0 .. n + 1
          PROVE  d[k] = IF k = 0 THEN <<>> ELSE Next1(d[k - 1], k)
      <3>1. CASE k = 0
        BY <3>1, <2>2
      <3>2. CASE k \in 1 .. n
        <4>1. d[k] = g[k] /\ d[k - 1] = g[k - 1]
          BY <3>2
        <4> QED
          BY <3>2, <4>1, <2>2
      <3>3. CASE k = n + 1
        <4>1. d[k] = Next1(g[n], n + 1) /\ d[k - 1] = g[n]
          BY <3>3
        <4> QED
          BY <3>3, <4>1
      <3> QED
        BY <3>1, <3>2, <3>3
    <2>4. \A k \in 0 .. n + 1 : d[k] = r[k]
      BY <2>3
    <2>5. d = [k \in 0 .. n + 1 |-> d[k]] /\ r = [k \in 0 .. n + 1 |-> r[k]]
      OBVIOUS
    <2>6. d = r
      <3> HIDE DEF d, r
      <3> QED
        BY <2>4, <2>5
    <2>7. Is(d, n + 1)
      BY <2>6
    <2> HIDE DEF d, r, Is
    <2> QED
      BY <2>7
  <1>3. \E g : Is(g, Capacity(a))
    <2> HIDE DEF Is
    <2>1. Nat \subseteq G
      <3> HIDE DEF G
      <3> QED
        BY <1>1, <1>2, InductionOnNat
    <2> QED
      BY <2>1
  <1>4. Is(InOrderUpTo(a), Capacity(a))
    BY <1>3 DEF InOrderUpTo
  <1>5. ASSUME NEW g, Is(g, Capacity(a))
        PROVE  g[0] = <<>> /\ \A k \in 1 .. Capacity(a) : g[k] = Next1(g[k - 1], k)
    <2> HIDE DEF Next1
    <2>1. \A k \in 0 .. Capacity(a) : g[k] = IF k = 0 THEN <<>> ELSE Next1(g[k - 1], k)
      BY <1>5
    <2> QED
      BY <2>1
  <1> QED
    BY <1>4, <1>5

\* A list s of n elements in an array of c places, with the gap behind the first f
Holds(a, c, n, f, s) ==
  /\ c \in Nat /\ n \in 0 .. c /\ f \in 0 .. n
  /\ a \in Array(c) /\ s \in [1 .. n -> Elements]
  /\ \A p \in 0 .. c - 1 :
       a[p] = IF p < f THEN s[p + 1] ELSE IF p >= f + (c - n) THEN s[p - (c - n) + 1] ELSE 0

LEMMA HoldsIs ==
  ASSUME NEW c, NEW a, NEW n, NEW f, NEW s, Holds(a, c, n, f, s)
  PROVE  /\ Capacity(a) = c /\ DOMAIN a = 0 .. c - 1
         /\ \A j \in 0 .. n - 1 : a[IF j < f THEN j ELSE j + c - n] = s[j + 1]
         /\ s \in Seq(Elements) /\ Len(s) = n
PROOF
  <1>1. Capacity(a) = c /\ DOMAIN a = 0 .. c - 1
    BY ArrayIs DEF Holds
  <1>2. ASSUME NEW j \in 0 .. n - 1
        PROVE  a[IF j < f THEN j ELSE j + c - n] = s[j + 1]
    <2>1. c \in Nat /\ n \in 0 .. c /\ f \in 0 .. n
      BY DEF Holds
    <2>2. CASE j < f
      <3>1. j \in 0 .. c - 1
        BY <2>1
      <3> QED
        BY <3>1, <2>2 DEF Holds
    <2>3. CASE ~(j < f)
      <3> DEFINE p == j + c - n
      <3>1. p \in 0 .. c - 1 /\ p >= f + (c - n) /\ ~(p < f) /\ p - (c - n) + 1 = j + 1
        BY <2>1, <2>3
      <3> HIDE DEF p
      <3>2. a[p] = s[p - (c - n) + 1]
        BY <3>1 DEF Holds
      <3> QED
        BY <3>1, <3>2, <2>3 DEF p
    <2> QED
      BY <2>2, <2>3
  <1>3. s \in Seq(Elements) /\ Len(s) = n
    <2>1. n \in Nat /\ s \in [1 .. n -> Elements]
      BY DEF Holds
    <2>2. s \in Seq(Elements)
      BY <2>1, SeqDef
    <2>3. DOMAIN s = 1 .. n
      BY <2>1
    <2> QED
      BY <2>1, <2>2, <2>3, LenProperties
  <1> QED
    BY <1>1, <1>2, <1>3

\* A copy has its gap at the end.
LEMMA CopyHolds ==
  ASSUME 0 \notin Elements, NEW c, NEW a, NEW n, NEW f, NEW s, Holds(a, c, n, f, s),
         NEW d \in Nat, n <= d
  PROVE  Holds(ListCopy(a, d), d, n, n, s)
PROOF
  <1> DEFINE v == InOrderUpTo(a)
             \* The number of elements at the first k places
             L(k) == IF k <= f THEN k ELSE IF k <= f + (c - n) THEN f ELSE k - (c - n)
             First(w, k) == /\ w \in Seq(Elements) /\ Len(w) = L(k)
                            /\ \A j \in 1 .. L(k) : w[j] = s[j]
             G == {k \in Nat : k <= c => First(v[k], k)}
  <1>1. /\ c \in Nat /\ n \in 0 .. c /\ f \in 0 .. n /\ s \in [1 .. n -> Elements]
        /\ Capacity(a) = c
    BY HoldsIs DEF Holds
  <1>2. \A p \in 0 .. c - 1 :
          a[p] = IF p < f THEN s[p + 1] ELSE IF p >= f + (c - n) THEN s[p - (c - n) + 1] ELSE 0
    BY DEF Holds
  <1>3. /\ v[0] = <<>>
        /\ \A k \in 1 .. c : v[k] = IF a[k - 1] = 0 THEN v[k - 1] ELSE Append(v[k - 1], a[k - 1])
    BY <1>1, InOrderIs
  <1> HIDE DEF v
  <1>4. 0 \in G
    <2>1. L(0) = 0
      BY <1>1
    <2>2. <<>> \in Seq(Elements) /\ Len(<<>>) = 0
      BY EmptySeq
    <2>3. First(v[0], 0)
      <3> HIDE DEF L
      <3>1. v[0] \in Seq(Elements) /\ Len(v[0]) = 0
        BY <2>2, <1>3
      <3> QED
        BY <3>1, <2>1
    <2> QED
      BY <2>3
  <1>5. ASSUME NEW k \in Nat, k \in G PROVE k + 1 \in G
    <2> SUFFICES ASSUME k + 1 <= c PROVE First(v[k + 1], k + 1)
      OBVIOUS
    <2> DEFINE w == v[k]
    <2>1. First(w, k)
      <3> HIDE DEF First
      <3> QED
        BY <1>5, <1>1
    <2>2. v[k + 1] = IF a[k] = 0 THEN w ELSE Append(w, a[k])
      BY <1>3
    <2>3. k \in 0 .. c - 1
      BY <1>1
    <2> HIDE DEF w
    <2>4. CASE f <= k /\ k < f + (c - n)
      <3>1. a[k] = 0
        BY <2>3, <2>4, <1>1, <1>2
      <3>2. L(k + 1) = L(k)
        BY <2>3, <2>4, <1>1
      <3> QED
        BY <3>1, <3>2, <2>1, <2>2
    <2>5. CASE ~(f <= k /\ k < f + (c - n))
      <3>1. a[k] = s[L(k) + 1] /\ L(k + 1) = L(k) + 1 /\ L(k) \in 0 .. n - 1
        BY <2>3, <2>5, <1>1, <1>2
      <3> HIDE DEF L
      <3>2. a[k] \in Elements
        <4>1. L(k) + 1 \in 1 .. n
          BY <3>1, <1>1
        <4> QED
          BY <4>1, <3>1, <1>1
      <3>3. v[k + 1] = Append(w, a[k])
        BY <3>2, <2>2
      <3> DEFINE x == Append(w, a[k])
      <3>4. /\ x \in Seq(Elements) /\ Len(x) = Len(w) + 1
            /\ \A i \in 1 .. Len(w) : x[i] = w[i]
            /\ x[Len(w) + 1] = a[k]
        BY <2>1, <3>2, AppendProperties
      <3> HIDE DEF x
      <3>5. \A j \in 1 .. L(k + 1) : x[j] = s[j]
        BY <2>1, <3>1, <3>4
      <3> QED
        BY <2>1, <3>1, <3>3, <3>4, <3>5 DEF x
    <2> QED
      BY <2>4, <2>5
  <1>6. Nat \subseteq G
    <2> HIDE DEF G
    <2> QED
      BY <1>4, <1>5, InductionOnNat
  <1> DEFINE w == v[c]
  <1>7. Len(w) = n /\ \A j \in 1 .. n : w[j] = s[j]
    <2>1. First(w, c)
      <3> HIDE DEF First
      <3> QED
        BY <1>1, <1>6
    <2>2. L(c) = n
      BY <1>1
    <2> QED
      BY <2>1, <2>2
  <1> HIDE DEF w, G
  <1> DEFINE b == ListCopy(a, d)
  <1>8. b = [p \in 0 .. d - 1 |-> IF p < n THEN w[p + 1] ELSE 0]
    BY <1>1, <1>7 DEF ListCopy, v, w
  <1>9. \A p \in 0 .. d - 1 : b[p] = IF p < n THEN s[p + 1] ELSE 0
    BY <1>1, <1>7, <1>8
  <1>10. \A p \in 0 .. d - 1 : b[p] \in Elements \cup {0}
    BY <1>1, <1>9
  <1>11. b \in Array(d)
    BY <1>8, <1>10 DEF Array
  <1> HIDE DEF b
  <1>12. \A p \in 0 .. d - 1 :
           b[p] = IF p < n THEN s[p + 1] ELSE IF p >= n + (d - n) THEN s[p - (d - n) + 1] ELSE 0
    BY <1>1, <1>9
  <1>13. n \in 0 .. d /\ n \in 0 .. n
    BY <1>1
  <1> QED
    BY <1>1, <1>11, <1>12, <1>13 DEF Holds, b

\* b is a with the elements of the indexes l to r moved across the gap, to its right or left
InRight(b, a, c, n, l, r) ==
  /\ DOMAIN b = 0 .. c - 1
  /\ \A p \in 0 .. c - 1 :
       b[p] = IF p - (c - n) \in l .. r THEN a[p - (c - n)]
              ELSE IF p \in l .. r THEN 0 ELSE a[p]

InLeft(b, a, c, n, l, r) ==
  /\ DOMAIN b = 0 .. c - 1
  /\ \A p \in 0 .. c - 1 :
       b[p] = IF p \in l .. r THEN a[p + (c - n)]
              ELSE IF p - (c - n) \in l .. r THEN 0 ELSE a[p]

LEMMA LeftToRightIs ==
  ASSUME NEW c \in Nat, NEW a \in Array(c), NEW n \in Nat, NEW l \in Int, NEW r \in Int
  PROVE  InRight(leftToRight(a, n, l .. r), a, c, n, l, r)
PROOF
  <1> DEFINE range == l .. r
             from == [i \in range |-> i]
             to == [i \in range |-> rightPosition(a, n, i)]
             b == leftToRight(a, n, range)
  <1>1. DOMAIN a = 0 .. c - 1 /\ Capacity(a) = c
    BY ArrayIs
  <1>2. DOMAIN to = range /\ DOMAIN from = range
        /\ \A i \in range : from[i] = i /\ to[i] = i + c - n
    BY <1>1 DEF rightPosition
  <1>3. b = Move(a, from, to)
    BY DEF leftToRight
  <1> HIDE DEF from, to, b
  <1>4. DOMAIN b = 0 .. c - 1
    BY <1>1, <1>3 DEF Move
  <1>5. ASSUME NEW p \in 0 .. c - 1
        PROVE  b[p] = IF p - (c - n) \in range THEN a[p - (c - n)]
                      ELSE IF p \in range THEN 0 ELSE a[p]
    <2>1. b[p] = IF \E i \in DOMAIN to : to[i] = p
                   THEN a[from[CHOOSE i \in DOMAIN to : to[i] = p]]
                 ELSE IF \E i \in DOMAIN from : from[i] = p THEN 0 ELSE a[p]
      BY <1>1, <1>3 DEF Move
    <2>2. \A i \in range : to[i] = p <=> i = p - (c - n)
      BY <1>2
    <2>3. CASE p - (c - n) \in range
      <3> DEFINE k == CHOOSE i \in DOMAIN to : to[i] = p
      <3>1. k \in range /\ to[k] = p
        BY <1>2, <2>2, <2>3
      <3>2. from[k] = p - (c - n)
        BY <3>1, <1>2, <2>2
      <3> QED
        BY <3>1, <3>2, <1>2, <2>1, <2>3
    <2>4. CASE p - (c - n) \notin range
      <3>1. ~\E i \in DOMAIN to : to[i] = p
        BY <1>2, <2>2, <2>4
      <3>2. (\E i \in DOMAIN from : from[i] = p) <=> p \in range
        BY <1>2
      <3> QED
        BY <3>1, <3>2, <2>1, <2>4
    <2> QED
      BY <2>3, <2>4
  <1> QED
    BY <1>4, <1>5 DEF b, InRight

LEMMA RightToLeftIs ==
  ASSUME NEW c \in Nat, NEW a \in Array(c), NEW n \in Nat, NEW l \in Int, NEW r \in Int
  PROVE  InLeft(rightToLeft(a, n, l .. r), a, c, n, l, r)
PROOF
  <1> DEFINE range == l .. r
             from == [i \in range |-> rightPosition(a, n, i)]
             to == [i \in range |-> i]
             b == rightToLeft(a, n, range)
  <1>1. DOMAIN a = 0 .. c - 1 /\ Capacity(a) = c
    BY ArrayIs
  <1>2. DOMAIN to = range /\ DOMAIN from = range
        /\ \A i \in range : to[i] = i /\ from[i] = i + (c - n)
    BY <1>1 DEF rightPosition
  <1>3. b = Move(a, from, to)
    BY DEF rightToLeft
  <1> HIDE DEF from, to, b
  <1>4. DOMAIN b = 0 .. c - 1
    BY <1>1, <1>3 DEF Move
  <1>5. ASSUME NEW p \in 0 .. c - 1
        PROVE  b[p] = IF p \in range THEN a[p + (c - n)]
                      ELSE IF p - (c - n) \in range THEN 0 ELSE a[p]
    <2>1. b[p] = IF \E i \in DOMAIN to : to[i] = p
                   THEN a[from[CHOOSE i \in DOMAIN to : to[i] = p]]
                 ELSE IF \E i \in DOMAIN from : from[i] = p THEN 0 ELSE a[p]
      BY <1>1, <1>3 DEF Move
    <2>2. \A i \in range : from[i] = p <=> i = p - (c - n)
      BY <1>2
    <2>3. CASE p \in range
      <3> DEFINE k == CHOOSE i \in DOMAIN to : to[i] = p
      <3>1. k \in range /\ to[k] = p
        BY <1>2, <2>3
      <3>2. from[k] = p + (c - n)
        BY <3>1, <1>2
      <3> QED
        BY <3>1, <3>2, <1>2, <2>1, <2>3
    <2>4. CASE p \notin range
      <3>1. ~\E i \in DOMAIN to : to[i] = p
        BY <1>2, <2>4
      <3>2. (\E i \in DOMAIN from : from[i] = p) <=> p - (c - n) \in range
        BY <1>2, <2>2
      <3> QED
        BY <3>1, <3>2, <2>1, <2>4
    <2> QED
      BY <2>3, <2>4
  <1> QED
    BY <1>4, <1>5 DEF b, InLeft

\* An array is what its places hold.
LEMMA ArrayOf ==
  ASSUME NEW c \in Nat, NEW b, DOMAIN b = 0 .. c - 1, b = [p \in DOMAIN b |-> b[p]],
         \A p \in 0 .. c - 1 : b[p] \in Elements \cup {0}
  PROVE  b \in Array(c)
PROOF
  BY DEF Array

\* The gap moved to the index i
LEMMA GapAtHolds ==
  ASSUME NEW c, NEW a, NEW n, NEW f, NEW s, Holds(a, c, n, f, s), NEW i \in 0 .. n
  PROVE  Holds(GapAt(a, n, f, i), c, n, i, s)
PROOF
  <1> DEFINE b == GapAt(a, n, f, i)
  <1>1. /\ c \in Nat /\ n \in 0 .. c /\ f \in 0 .. n /\ n \in Nat
        /\ a \in Array(c) /\ s \in [1 .. n -> Elements]
    BY DEF Holds
  <1>2. \A p \in 0 .. c - 1 :
          a[p] = IF p < f THEN s[p + 1] ELSE IF p >= f + (c - n) THEN s[p - (c - n) + 1] ELSE 0
    BY DEF Holds
  <1>3. /\ DOMAIN b = 0 .. c - 1
        /\ \A p \in 0 .. c - 1 :
             b[p] = IF i < f
                      THEN IF p - (c - n) \in i .. f - 1 THEN a[p - (c - n)]
                           ELSE IF p \in i .. f - 1 THEN 0 ELSE a[p]
                      ELSE IF p \in f .. i - 1 THEN a[p + (c - n)]
                           ELSE IF p - (c - n) \in f .. i - 1 THEN 0 ELSE a[p]
    <2>1. CASE i < f
      <3>1. b = leftToRight(a, n, i .. f - 1)
        BY <2>1 DEF GapAt
      <3>2. i \in Int /\ f - 1 \in Int
        BY <1>1
      <3> HIDE DEF b
      <3>3. InRight(b, a, c, n, i, f - 1)
        BY <3>1, <3>2, <1>1, LeftToRightIs
      <3> QED
        BY <3>3, <2>1 DEF InRight
    <2>2. CASE ~(i < f)
      <3>1. b = rightToLeft(a, n, f .. i - 1)
        BY <2>2 DEF GapAt
      <3>2. f \in Int /\ i - 1 \in Int
        BY <1>1
      <3> HIDE DEF b
      <3>3. InLeft(b, a, c, n, f, i - 1)
        BY <3>1, <3>2, <1>1, RightToLeftIs
      <3> QED
        BY <3>3, <2>2 DEF InLeft
    <2> QED
      BY <2>1, <2>2
  <1>4. b = [p \in DOMAIN b |-> b[p]]
    BY DEF GapAt, leftToRight, rightToLeft, Move
  <1> HIDE DEF b
  <1>5. ASSUME NEW p \in 0 .. c - 1
        PROVE  b[p] = IF p < i THEN s[p + 1]
                      ELSE IF p >= i + (c - n) THEN s[p - (c - n) + 1] ELSE 0
    <2>1. CASE i < f
      <3>1. b[p] = IF p - (c - n) \in i .. f - 1 THEN a[p - (c - n)]
                   ELSE IF p \in i .. f - 1 THEN 0 ELSE a[p]
        BY <2>1, <1>3
      <3>2. p - (c - n) \in i .. f - 1 => a[p - (c - n)] = s[p - (c - n) + 1]
        BY <2>1, <1>1, <1>2
      <3> QED
        BY <3>1, <3>2, <2>1, <1>1, <1>2
    <2>2. CASE ~(i < f)
      <3>1. b[p] = IF p \in f .. i - 1 THEN a[p + (c - n)]
                   ELSE IF p - (c - n) \in f .. i - 1 THEN 0 ELSE a[p]
        BY <2>2, <1>3
      <3>2. p \in f .. i - 1 => a[p + (c - n)] = s[p + 1]
        <4> SUFFICES ASSUME p \in f .. i - 1 PROVE a[p + (c - n)] = s[p + 1]
          OBVIOUS
        <4> DEFINE q == p + (c - n)
        <4>1. q \in 0 .. c - 1 /\ ~(q < f) /\ q >= f + (c - n) /\ q - (c - n) + 1 = p + 1
          BY <1>1
        <4> HIDE DEF q
        <4>2. a[q] = s[q - (c - n) + 1]
          BY <4>1, <1>2
        <4> QED
          BY <4>1, <4>2 DEF q
      <3> QED
        BY <3>1, <3>2, <2>2, <1>1, <1>2
    <2> QED
      BY <2>1, <2>2
  <1>6. \A p \in 0 .. c - 1 : b[p] \in Elements \cup {0}
    <2> TAKE p \in 0 .. c - 1
    <2>1. p < i => p + 1 \in 1 .. n
      BY <1>1
    <2>2. p >= i + (c - n) => p - (c - n) + 1 \in 1 .. n
      BY <1>1
    <2> QED
      BY <2>1, <2>2, <1>1, <1>5
  <1>7. b \in Array(c)
    BY <1>1, <1>3, <1>4, <1>6, ArrayOf
  <1> QED
    BY <1>1, <1>5, <1>7 DEF Holds, b

\* A sequence with an element more, or less, behind the first i
Inserted(s, i, e, n) ==
  [j \in 1 .. n + 1 |-> IF j <= i THEN s[j] ELSE IF j = i + 1 THEN e ELSE s[j - 1]]
Removed(s, i, n) == [j \in 1 .. n - 1 |-> IF j <= i THEN s[j] ELSE s[j + 1]]

LEMMA FunctionIsSeq ==
  ASSUME NEW n \in Nat, NEW t \in [1 .. n -> Elements]
  PROVE  t \in Seq(Elements) /\ Len(t) = n /\ DOMAIN t = 1 .. n
PROOF
  <1>1. t \in Seq(Elements)
    BY SeqDef
  <1> QED
    BY <1>1, LenProperties

LEMMA InsertedIs ==
  ASSUME NEW n \in Nat, NEW s \in [1 .. n -> Elements], NEW e \in Elements, NEW i \in 0 .. n
  PROVE  Inserted(s, i, e, n) \in [1 .. n + 1 -> Elements] /\ InsertAt(s, i + 1, e) = Inserted(s, i, e, n)
PROOF
  <1> DEFINE t == Inserted(s, i, e, n)
             l == SubSeq(s, 1, i)
             m == <<e>>
             r == SubSeq(s, i + 1, n)
  <1>1. s \in Seq(Elements) /\ Len(s) = n
    BY FunctionIsSeq
  <1>2. t \in [1 .. n + 1 -> Elements]
    <2>1. \A j \in 1 .. n + 1 : /\ j <= i => j \in 1 .. n
                                /\ j > i + 1 => j - 1 \in 1 .. n
      OBVIOUS
    <2>2. \A j \in 1 .. n + 1 : (IF j <= i THEN s[j] ELSE IF j = i + 1 THEN e ELSE s[j - 1]) \in Elements
      BY <2>1
    <2> QED
      BY <2>2 DEF Inserted
  <1>3. t \in Seq(Elements) /\ Len(t) = n + 1
    <2>1. n + 1 \in Nat
      OBVIOUS
    <2> HIDE DEF t
    <2> QED
      BY <2>1, <1>2, FunctionIsSeq
  <1>4. l \in Seq(Elements) /\ Len(l) = i /\ \A j \in 1 .. i : l[j] = s[j]
    <2>1. \A j \in 1 .. i : s[j] \in Elements
      OBVIOUS
    <2>2. i \in Int /\ 1 \in Int
      OBVIOUS
    <2>3. /\ l \in Seq(Elements) /\ Len(l) = IF 1 <= i THEN i - 1 + 1 ELSE 0
          /\ \A j \in 1 .. i - 1 + 1 : l[j] = s[1 + j - 1]
      BY <2>1, <2>2, SubSeqProperties
    <2> HIDE DEF l
    <2> QED
      BY <2>3
  <1>5. r \in Seq(Elements) /\ Len(r) = n - i /\ \A j \in 1 .. n - i : r[j] = s[i + j]
    <2>1. \A j \in i + 1 .. n : s[j] \in Elements
      OBVIOUS
    <2>2. i + 1 \in Int /\ n \in Int
      OBVIOUS
    <2>3. /\ r \in Seq(Elements) /\ Len(r) = IF i + 1 <= n THEN n - (i + 1) + 1 ELSE 0
          /\ \A j \in 1 .. n - (i + 1) + 1 : r[j] = s[i + 1 + j - 1]
      BY <2>1, <2>2, SubSeqProperties
    <2> HIDE DEF r
    <2>4. \A j \in 1 .. n - i : j \in 1 .. n - (i + 1) + 1 /\ i + 1 + j - 1 = i + j
      OBVIOUS
    <2> QED
      BY <2>3, <2>4
  <1>6. m \in Seq(Elements) /\ Len(m) = 1 /\ m[1] = e
    OBVIOUS
  <1>7. InsertAt(s, i + 1, e) = (l \o m) \o r
    BY <1>1 DEF InsertAt
  <1> HIDE DEF t, l, m, r
  <1> DEFINE x == l \o m
             y == x \o r
  <1>8. /\ x \in Seq(Elements) /\ Len(x) = i + 1
        /\ \A j \in 1 .. i + 1 : x[j] = IF j <= i THEN l[j] ELSE m[j - i]
    <2>1. /\ x \in Seq(Elements) /\ Len(x) = Len(l) + Len(m)
          /\ \A j \in 1 .. Len(l) + Len(m) : x[j] = IF j <= Len(l) THEN l[j] ELSE m[j - Len(l)]
      <3>1. l \in Seq(Elements) /\ m \in Seq(Elements)
        BY <1>4, <1>6
      <3> QED
        BY <3>1, ConcatProperties
    <2> HIDE DEF x
    <2> QED
      BY <2>1, <1>4, <1>6
  <1> HIDE DEF x
  <1>9. /\ y \in Seq(Elements) /\ Len(y) = n + 1
        /\ \A j \in 1 .. n + 1 : y[j] = IF j <= i + 1 THEN x[j] ELSE r[j - (i + 1)]
    <2>1. Len(x) + Len(r) = n + 1
      BY <1>5, <1>8
    <2>2. /\ y \in Seq(Elements) /\ Len(y) = Len(x) + Len(r)
          /\ \A j \in 1 .. Len(x) + Len(r) : y[j] = IF j <= Len(x) THEN x[j] ELSE r[j - Len(x)]
      <3>1. x \in Seq(Elements) /\ r \in Seq(Elements)
        BY <1>5, <1>8
      <3> QED
        BY <3>1, ConcatProperties
    <2> HIDE DEF y
    <2> QED
      BY <2>1, <2>2, <1>8
  <1> HIDE DEF y
  <1>10. ASSUME NEW j \in 1 .. n + 1 PROVE y[j] = t[j]
    <2>0. t[j] = IF j <= i THEN s[j] ELSE IF j = i + 1 THEN e ELSE s[j - 1]
      BY DEF t, Inserted
    <2>1. CASE j <= i
      BY <2>0, <2>1, <1>4, <1>8, <1>9
    <2>2. CASE j = i + 1
      BY <2>0, <2>2, <1>6, <1>8, <1>9
    <2>3. CASE j > i + 1
      <3>1. y[j] = r[j - (i + 1)] /\ j - (i + 1) \in 1 .. n - i /\ i + (j - (i + 1)) = j - 1
        <4>1. ~(j <= i + 1) /\ j - (i + 1) \in 1 .. n - i /\ i + (j - (i + 1)) = j - 1
          BY <2>3
        <4> QED
          BY <4>1, <1>9
      <3>2. r[j - (i + 1)] = s[i + (j - (i + 1))]
        BY <3>1, <1>5
      <3>3. ~(j <= i) /\ j # i + 1
        BY <2>3
      <3> QED
        BY <3>1, <3>2, <3>3, <2>0
    <2> QED
      BY <2>1, <2>2, <2>3
  <1>11. y = t
    BY <1>3, <1>9, <1>10, SeqEqual
  <1> QED
    BY <1>2, <1>7, <1>11 DEF t, x, y

LEMMA RemovedIs ==
  ASSUME NEW n \in Nat, NEW s \in [1 .. n -> Elements], NEW i \in 0 .. n - 1
  PROVE  Removed(s, i, n) \in [1 .. n - 1 -> Elements] /\ RemoveAt(s, i + 1) = Removed(s, i, n)
PROOF
  <1> DEFINE t == Removed(s, i, n)
             l == SubSeq(s, 1, i)
             r == SubSeq(s, i + 2, n)
  <1>1. s \in Seq(Elements) /\ Len(s) = n
    BY FunctionIsSeq
  <1>2. t \in [1 .. n - 1 -> Elements]
    BY DEF Removed
  <1>3. t \in Seq(Elements) /\ Len(t) = n - 1
    <2>1. n - 1 \in Nat
      OBVIOUS
    <2> HIDE DEF t
    <2> QED
      BY <2>1, <1>2, FunctionIsSeq
  <1>4. l \in Seq(Elements) /\ Len(l) = i /\ \A j \in 1 .. i : l[j] = s[j]
    <2>1. \A j \in 1 .. i : s[j] \in Elements
      OBVIOUS
    <2>2. i \in Int /\ 1 \in Int
      OBVIOUS
    <2>3. /\ l \in Seq(Elements) /\ Len(l) = IF 1 <= i THEN i - 1 + 1 ELSE 0
          /\ \A j \in 1 .. i - 1 + 1 : l[j] = s[1 + j - 1]
      BY <2>1, <2>2, SubSeqProperties
    <2> HIDE DEF l
    <2> QED
      BY <2>3
  <1>5. r \in Seq(Elements) /\ Len(r) = n - i - 1 /\ \A j \in 1 .. n - i - 1 : r[j] = s[i + j + 1]
    <2>1. \A j \in i + 2 .. n : s[j] \in Elements
      OBVIOUS
    <2>2. i + 2 \in Int /\ n \in Int
      OBVIOUS
    <2>3. /\ r \in Seq(Elements) /\ Len(r) = IF i + 2 <= n THEN n - (i + 2) + 1 ELSE 0
          /\ \A j \in 1 .. n - (i + 2) + 1 : r[j] = s[i + 2 + j - 1]
      BY <2>1, <2>2, SubSeqProperties
    <2> HIDE DEF r
    <2>4. \A j \in 1 .. n - i - 1 : j \in 1 .. n - (i + 2) + 1 /\ i + 2 + j - 1 = i + j + 1
      OBVIOUS
    <2> QED
      BY <2>3, <2>4
  <1>6. RemoveAt(s, i + 1) = l \o r
    <2>1. (i + 1) - 1 = i /\ (i + 1) + 1 = i + 2
      OBVIOUS
    <2> QED
      BY <2>1, <1>1 DEF RemoveAt
  <1> HIDE DEF t, l, r
  <1> DEFINE y == l \o r
  <1>7. /\ y \in Seq(Elements) /\ Len(y) = n - 1
        /\ \A j \in 1 .. n - 1 : y[j] = IF j <= i THEN l[j] ELSE r[j - i]
    <2>1. Len(l) + Len(r) = n - 1
      BY <1>4, <1>5
    <2>2. /\ y \in Seq(Elements) /\ Len(y) = Len(l) + Len(r)
          /\ \A j \in 1 .. Len(l) + Len(r) : y[j] = IF j <= Len(l) THEN l[j] ELSE r[j - Len(l)]
      <3>1. l \in Seq(Elements) /\ r \in Seq(Elements)
        BY <1>4, <1>5
      <3> QED
        BY <3>1, ConcatProperties
    <2> HIDE DEF y
    <2> QED
      BY <2>1, <2>2, <1>4
  <1> HIDE DEF y
  <1>8. ASSUME NEW j \in 1 .. n - 1 PROVE y[j] = t[j]
    <2>0. t[j] = IF j <= i THEN s[j] ELSE s[j + 1]
      BY DEF t, Removed
    <2>1. CASE j <= i
      BY <2>0, <2>1, <1>4, <1>7
    <2>2. CASE j > i
      <3>1. y[j] = r[j - i] /\ j - i \in 1 .. n - i - 1 /\ i + (j - i) + 1 = j + 1
        BY <2>2, <1>7
      <3> QED
        BY <3>1, <2>0, <2>2, <1>5
    <2> QED
      BY <2>1, <2>2
  <1>9. y = t
    BY <1>3, <1>7, <1>8, SeqEqual
  <1> QED
    BY <1>2, <1>6, <1>9 DEF t, y

\* The list of a state
ListOK(s) == Holds(array, Capacity(array), num, free, s)

LEMMA ContentIs ==
  ASSUME class = "BtList", NEW s, ListOK(s)
  PROVE  Content = s /\ (\A i \in 0 .. num - 1 : array[position(i)] = s[i + 1]) /\ num \in Nat
PROOF
  <1> DEFINE c == Capacity(array)
  <1>1. Holds(array, c, num, free, s)
    BY DEF ListOK
  <1> HIDE DEF c
  <1>2. \A j \in 0 .. num - 1 : array[IF j < free THEN j ELSE j + c - num] = s[j + 1]
    BY <1>1, HoldsIs
  <1>3. num \in Nat /\ s \in [1 .. num -> Elements]
    BY <1>1 DEF Holds
  <1>4. \A i \in 0 .. num - 1 : array[position(i)] = s[i + 1]
    BY <1>2 DEF position, rightPosition, c
  <1>5. \A i \in 1 .. num : i - 1 \in 0 .. num - 1 /\ (i - 1) + 1 = i
    BY <1>3
  <1>6. Content = [i \in 1 .. num |-> array[position(i - 1)]]
    BY DEF Content
  <1>7. \A i \in 1 .. num : array[position(i - 1)] = s[i]
    BY <1>4, <1>5
  <1> QED
    BY <1>3, <1>4, <1>6, <1>7

LEMMA PutAtGap ==
  ASSUME NEW c, NEW a, NEW n, NEW s, NEW i, Holds(a, c, n, i, s), n < c, NEW e \in Elements
  PROVE  Holds([a EXCEPT ![i] = e], c, n + 1, i + 1, Inserted(s, i, e, n))
PROOF
  <1> DEFINE b == [a EXCEPT ![i] = e]
             t == Inserted(s, i, e, n)
  <1>1. /\ c \in Nat /\ n \in 0 .. c /\ i \in 0 .. n /\ a \in Array(c) /\ s \in [1 .. n -> Elements]
        /\ \A p \in 0 .. c - 1 :
             a[p] = IF p < i THEN s[p + 1] ELSE IF p >= i + (c - n) THEN s[p - (c - n) + 1] ELSE 0
    BY DEF Holds
  <1>2. i \in 0 .. c - 1 /\ DOMAIN a = 0 .. c - 1
    BY <1>1, ArrayIs
  <1>3. b \in Array(c)
    BY <1>1, <1>2 DEF Array
  <1>4. b[i] = e /\ \A p \in 0 .. c - 1 : p # i => b[p] = a[p]
    BY <1>1, <1>2
  <1>5. t \in [1 .. n + 1 -> Elements]
    BY <1>1, InsertedIs
  <1>6. \A j \in 1 .. n + 1 : t[j] = IF j <= i THEN s[j] ELSE IF j = i + 1 THEN e ELSE s[j - 1]
    BY DEF Inserted
  <1> HIDE DEF b, t
  <1>7. ASSUME NEW p \in 0 .. c - 1
        PROVE  b[p] = IF p < i + 1 THEN t[p + 1]
                      ELSE IF p >= (i + 1) + (c - (n + 1)) THEN t[p - (c - (n + 1)) + 1] ELSE 0
    <2>1. CASE p < i
      <3>1. p + 1 \in 1 .. n + 1 /\ p + 1 <= i
        BY <2>1, <1>1
      <3>2. t[p + 1] = s[p + 1]
        BY <3>1, <1>6
      <3> QED
        BY <3>2, <2>1, <1>1, <1>4
    <2>2. CASE p = i
      <3>1. p + 1 \in 1 .. n + 1 /\ p + 1 = i + 1 /\ ~(p + 1 <= i)
        BY <2>2, <1>1
      <3>2. t[p + 1] = e
        BY <3>1, <1>6
      <3> QED
        BY <3>2, <2>2, <1>1, <1>4
    <2>3. CASE p > i /\ p >= i + (c - n)
      <3> DEFINE j == p - (c - (n + 1)) + 1
      <3>1. j \in 1 .. n + 1 /\ j > i + 1 /\ j - 1 = p - (c - n) + 1
        BY <2>3, <1>1
      <3> HIDE DEF j
      <3>2. t[j] = s[j - 1]
        BY <3>1, <1>1, <1>6
      <3>3. b[p] = s[j - 1]
        <4>1. ~(p < i) /\ p # i
          BY <2>3, <1>1
        <4>2. a[p] = s[p - (c - n) + 1]
          BY <4>1, <2>3, <1>1
        <4>3. b[p] = a[p]
          BY <4>1, <1>4
        <4> QED
          BY <4>2, <4>3, <3>1
      <3>4. ~(p < i + 1) /\ p >= (i + 1) + (c - (n + 1))
        BY <2>3, <1>1
      <3> QED
        BY <3>2, <3>3, <3>4 DEF j
    <2>4. CASE p > i /\ ~(p >= i + (c - n))
      <3>1. ~(p < i + 1) /\ ~(p >= (i + 1) + (c - (n + 1))) /\ ~(p < i)
        BY <2>4, <1>1
      <3>2. b[p] = 0
        BY <3>1, <2>4, <1>1, <1>4
      <3> QED
        BY <3>1, <3>2
    <2> QED
      BY <2>1, <2>2, <2>3, <2>4, <1>1
  <1>8. n + 1 \in 0 .. c /\ i + 1 \in 0 .. n + 1
    BY <1>1
  <1> QED
    BY <1>1, <1>3, <1>5, <1>7, <1>8 DEF Holds, b, t

\* Inserting puts the element in its place, whether the array grows or not.
LEMMA InsertKeeps ==
  ASSUME ElementsOK, NEW s, ListOK(s), NEW i \in Nat, NEW e \in Elements, insert(i, e)
  PROVE  /\ Holds(array', Capacity(array'), num', free', InsertAt(s, i + 1, e))
         /\ i \in 0 .. num /\ ret' = e
PROOF
  <1> DEFINE c == Capacity(array)
             grown == num >= c
             d == IF grown THEN (c + 1) * 2 ELSE c
             a == IF grown THEN ListCopy(array, (c + 1) * 2) ELSE array
             f == IF grown THEN num ELSE free
             b == GapAt(a, num, f, i)
             x == [b EXCEPT ![i] = e]
  <1>1. Holds(array, c, num, free, s)
    BY DEF ListOK
  <1>2. c \in Nat /\ num \in 0 .. c /\ num \in Nat /\ s \in [1 .. num -> Elements]
    BY <1>1 DEF Holds
  <1>3. /\ i <= num /\ array' = x /\ free' = i + 1 /\ num' = num + 1 /\ ret' = e
    BY DEF insert
  <1>4. i \in 0 .. num
    BY <1>2, <1>3
  <1> HIDE DEF c
  <1>5. Holds(a, d, num, f, s) /\ num < d /\ d \in Nat
    <2>1. CASE grown
      <3>1. (c + 1) * 2 \in Nat /\ num <= (c + 1) * 2 /\ num < (c + 1) * 2
        BY <1>2
      <3>2. Holds(ListCopy(array, (c + 1) * 2), (c + 1) * 2, num, num, s)
        BY <3>1, <1>1, CopyHolds DEF ElementsOK
      <3> QED
        BY <3>1, <3>2, <2>1
    <2>2. CASE ~grown
      BY <2>2, <1>1, <1>2
    <2> QED
      BY <2>1, <2>2
  <1> HIDE DEF a, d, f
  <1>6. Holds(b, d, num, i, s)
    BY <1>4, <1>5, GapAtHolds
  <1> HIDE DEF b
  <1>7. Holds(x, d, num + 1, i + 1, Inserted(s, i, e, num))
    BY <1>5, <1>6, PutAtGap
  <1>8. Capacity(x) = d
    BY <1>7, HoldsIs
  <1>9. InsertAt(s, i + 1, e) = Inserted(s, i, e, num)
    BY <1>2, <1>4, InsertedIs
  <1> HIDE DEF x
  <1> QED
    BY <1>3, <1>4, <1>7, <1>8, <1>9

\* Clearing an index and moving the gap there takes the element out.
LEMMA RemoveAtKeeps ==
  ASSUME NEW s, ListOK(s), NEW i \in Nat, removeAt(i)
  PROVE  /\ Holds(array', Capacity(array'), num', free', RemoveAt(s, i + 1))
         /\ i \in 0 .. num - 1 /\ ret' = s[i + 1]
PROOF
  <1> DEFINE c == Capacity(array)
             n == num
             f == free
             pos == position(i)
             a == [array EXCEPT ![pos] = 0]
             b == array'
             t == Removed(s, i, n)
  <1>1. Holds(array, c, n, f, s)
    BY DEF ListOK
  <1>2. c \in Nat /\ n \in 0 .. c /\ n \in Nat /\ f \in 0 .. n /\ array \in Array(c)
        /\ s \in [1 .. n -> Elements]
        /\ \A p \in 0 .. c - 1 :
             array[p] = IF p < f THEN s[p + 1] ELSE IF p >= f + (c - n) THEN s[p - (c - n) + 1] ELSE 0
    BY <1>1 DEF Holds
  <1>3. /\ i < n /\ free' = i /\ num' = n - 1 /\ ret' = array[pos]
        /\ b = IF n >= Capacity(a) THEN a
               ELSE IF i < f THEN leftToRight(a, n, i + 1 .. f - 1)
               ELSE rightToLeft(a, n, f .. i - 1)
    BY DEF removeAt
  <1>4. i \in 0 .. n - 1
    BY <1>2, <1>3
  <1>5. pos = (IF i < f THEN i ELSE i + (c - n)) /\ pos \in 0 .. c - 1
    <2>1. pos = IF i < f THEN i ELSE i + c - n
      BY DEF position, rightPosition
    <2> HIDE DEF c, pos
    <2> QED
      BY <2>1, <1>2, <1>4
  <1>6. ret' = s[i + 1]
    <2>1. \A j \in 0 .. n - 1 : array[IF j < f THEN j ELSE j + c - n] = s[j + 1]
      BY <1>1, HoldsIs
    <2>2. pos = IF i < f THEN i ELSE i + c - n
      BY DEF position, rightPosition
    <2> HIDE DEF c, pos
    <2> QED
      BY <2>1, <2>2, <1>3, <1>4
  <1> HIDE DEF c, pos
  <1>7. a \in Array(c) /\ a[pos] = 0 /\ \A p \in 0 .. c - 1 : p # pos => a[p] = array[p]
    <2>1. DOMAIN array = 0 .. c - 1
      BY <1>2, ArrayIs
    <2> QED
      BY <2>1, <1>2, <1>5 DEF Array
  <1>8. Capacity(a) = c
    BY <1>2, <1>7, ArrayIs
  <1> HIDE DEF a
  <1>9. /\ DOMAIN b = 0 .. c - 1 /\ b = [p \in DOMAIN b |-> b[p]]
        /\ \A p \in 0 .. c - 1 :
             b[p] = IF p < i THEN s[p + 1]
                    ELSE IF p >= i + (c - (n - 1)) THEN s[p - (c - n) + 1] ELSE 0
    <2>1. CASE n = c
      <3>1. b = a
        BY <2>1, <1>2, <1>3, <1>8
      <3>2. DOMAIN a = 0 .. c - 1 /\ a = [p \in DOMAIN a |-> a[p]]
        BY <1>7 DEF Array
      <3>3. ASSUME NEW p \in 0 .. c - 1
            PROVE  a[p] = IF p < i THEN s[p + 1]
                          ELSE IF p >= i + (c - (n - 1)) THEN s[p - (c - n) + 1] ELSE 0
        <4>1. pos = i /\ p - (c - n) + 1 = p + 1 /\ (p >= i + (c - (n - 1)) <=> p > i)
          BY <2>1, <1>2, <1>4, <1>5
        <4>2. p # i => a[p] = s[p + 1]
          BY <4>1, <2>1, <1>2, <1>7
        <4> QED
          BY <4>1, <4>2, <1>4, <1>7
      <3> HIDE DEF b
      <3> QED
        BY <3>1, <3>2, <3>3
    <2>2. CASE n # c /\ i < f
      <3>1. b = leftToRight(a, n, i + 1 .. f - 1)
        BY <2>2, <1>2, <1>3, <1>8
      <3>2. i + 1 \in Int /\ f - 1 \in Int
        BY <1>2, <1>4
      <3>3. InRight(b, a, c, n, i + 1, f - 1)
        BY <3>1, <3>2, <1>2, <1>7, LeftToRightIs
      <3>4. b = [p \in DOMAIN b |-> b[p]]
        BY <3>1 DEF leftToRight, Move
      <3> HIDE DEF b
      <3>5. ASSUME NEW p \in 0 .. c - 1
            PROVE  b[p] = IF p < i THEN s[p + 1]
                          ELSE IF p >= i + (c - (n - 1)) THEN s[p - (c - n) + 1] ELSE 0
        <4>1. b[p] = IF p - (c - n) \in i + 1 .. f - 1 THEN a[p - (c - n)]
                     ELSE IF p \in i + 1 .. f - 1 THEN 0 ELSE a[p]
          BY <3>3 DEF InRight
        <4>2. pos = i
          BY <2>2, <1>5
        <4>3. CASE p - (c - n) \in i + 1 .. f - 1
          <5> DEFINE q == p - (c - n)
          <5>1. q \in 0 .. c - 1 /\ q < f /\ q # pos /\ q \in i + 1 .. f - 1
            BY <4>2, <4>3, <1>2, <1>4
          <5> HIDE DEF q
          <5>2. a[q] = s[q + 1]
            BY <5>1, <1>2, <1>7
          <5>3. b[p] = a[q]
            BY <4>1, <4>3 DEF q
          <5>4. ~(p < i) /\ p >= i + (c - (n - 1))
            BY <4>3, <1>2, <1>4
          <5> QED
            BY <5>2, <5>3, <5>4 DEF q
        <4>4. CASE p - (c - n) \notin i + 1 .. f - 1
          BY <4>1, <4>2, <4>4, <2>2, <1>2, <1>4, <1>7
        <4> QED
          BY <4>3, <4>4
      <3> QED
        BY <3>3, <3>4, <3>5 DEF InRight
    <2>3. CASE n # c /\ ~(i < f)
      <3>1. b = rightToLeft(a, n, f .. i - 1)
        BY <2>3, <1>2, <1>3, <1>8
      <3>2. f \in Int /\ i - 1 \in Int
        BY <1>2, <1>4
      <3>3. InLeft(b, a, c, n, f, i - 1)
        BY <3>1, <3>2, <1>2, <1>7, RightToLeftIs
      <3>4. b = [p \in DOMAIN b |-> b[p]]
        BY <3>1 DEF rightToLeft, Move
      <3> HIDE DEF b
      <3>5. ASSUME NEW p \in 0 .. c - 1
            PROVE  b[p] = IF p < i THEN s[p + 1]
                          ELSE IF p >= i + (c - (n - 1)) THEN s[p - (c - n) + 1] ELSE 0
        <4>1. b[p] = IF p \in f .. i - 1 THEN a[p + (c - n)]
                     ELSE IF p - (c - n) \in f .. i - 1 THEN 0 ELSE a[p]
          BY <3>3 DEF InLeft
        <4>2. pos = i + (c - n)
          BY <2>3, <1>5
        <4>3. CASE p \in f .. i - 1
          <5> DEFINE q == p + (c - n)
          <5>1. q \in 0 .. c - 1 /\ ~(q < f) /\ q >= f + (c - n) /\ q # pos
                /\ q - (c - n) + 1 = p + 1
            BY <4>2, <4>3, <1>2, <1>4
          <5> HIDE DEF q
          <5>2. a[q] = s[p + 1]
            BY <5>1, <1>2, <1>7
          <5>3. b[p] = a[q]
            BY <4>1, <4>3 DEF q
          <5>4. p < i
            BY <4>3, <1>4
          <5> QED
            BY <5>2, <5>3, <5>4
        <4>4. CASE p \notin f .. i - 1
          BY <4>1, <4>2, <4>4, <2>3, <1>2, <1>4, <1>7
        <4> QED
          BY <4>3, <4>4
      <3> QED
        BY <3>3, <3>4, <3>5 DEF InLeft
    <2> QED
      BY <2>1, <2>2, <2>3
  <1>10. t \in [1 .. n - 1 -> Elements] /\ RemoveAt(s, i + 1) = t
    BY <1>2, <1>4, RemovedIs
  <1>11. \A j \in 1 .. n - 1 : t[j] = IF j <= i THEN s[j] ELSE s[j + 1]
    BY DEF Removed
  <1> HIDE DEF b, t
  <1>12. ASSUME NEW p \in 0 .. c - 1
         PROVE  b[p] = IF p < i THEN t[p + 1]
                       ELSE IF p >= i + (c - (n - 1)) THEN t[p - (c - (n - 1)) + 1] ELSE 0
    <2>1. CASE p < i
      <3>1. p + 1 \in 1 .. n - 1 /\ p + 1 <= i
        BY <2>1, <1>2, <1>4
      <3> QED
        BY <3>1, <2>1, <1>9, <1>11
    <2>2. CASE p >= i + (c - (n - 1))
      <3> DEFINE j == p - (c - (n - 1)) + 1
      <3>1. j \in 1 .. n - 1 /\ ~(j <= i) /\ j + 1 = p - (c - n) + 1 /\ ~(p < i)
        BY <2>2, <1>2, <1>4
      <3> HIDE DEF j
      <3>2. t[j] = s[j + 1]
        BY <3>1, <1>11
      <3> QED
        BY <3>1, <3>2, <2>2, <1>9 DEF j
    <2>3. CASE ~(p < i) /\ ~(p >= i + (c - (n - 1)))
      BY <2>3, <1>9
    <2> QED
      BY <2>1, <2>2, <2>3
  <1>13. \A p \in 0 .. c - 1 : b[p] \in Elements \cup {0}
    <2> TAKE p \in 0 .. c - 1
    <2>1. p < i => p + 1 \in 1 .. n
      BY <1>2, <1>4
    <2>2. p >= i + (c - (n - 1)) => p - (c - n) + 1 \in 1 .. n
      BY <1>2, <1>4
    <2> QED
      BY <2>1, <2>2, <1>2, <1>9
  <1>14. b \in Array(c)
    BY <1>2, <1>9, <1>13, ArrayOf
  <1>15. n - 1 \in 0 .. c /\ i \in 0 .. n - 1
    BY <1>2, <1>4
  <1>16. Holds(b, c, n - 1, i, t)
    BY <1>2, <1>10, <1>12, <1>14, <1>15 DEF Holds
  <1>17. Capacity(b) = c
    BY <1>16, HoldsIs
  <1> QED
    BY <1>3, <1>4, <1>6, <1>10, <1>16, <1>17 DEF b

-----------------------------------------------------------------------------
(* The invariant, and the refinement                                        *)

CltnInv ==
  /\ class \in {"BtSet", "BtList"}
  /\ hash \in [Keys -> Hashes \cup {0}]
  /\ ret \in Elements \cup {0}
  /\ class = "BtSet" => SetOK(array, num, Capacity(array)) /\ free = 0
  /\ class = "BtList" => \E s : ListOK(s)

LEMMA CltnInvHash == CltnInv => HashOK
PROOF
  <1>1. Hashes \cup {0} \subseteq Nat
    BY BtAssumption DEF BtAssumption
  <1> QED
    BY <1>1 DEF CltnInv, HashOK

LEMMA ElementsAre == ElementsOK /\ 0 \notin Elements
PROOF
  BY BtAssumption DEF BtAssumption, ElementsOK

LEMMA CltnInvInit == BtInit => CltnInv
PROOF
  <1> SUFFICES ASSUME BtInit PROVE CltnInv
    OBVIOUS
  <1>1. num = 0 /\ free = 0 /\ ret = 0
    BY DEF BtInit
  <1>2. PICK k \in Sizes :
          \/ /\ class = "BtSet"
             /\ hash \in [Keys -> Hashes]
             /\ array = Empty(IF k > 1 THEN k * 2 ELSE 2)
          \/ /\ class = "BtList"
             /\ hash = [x \in Keys |-> 0]
             /\ array = Empty(k)
    BY DEF BtInit
  <1>3. k \in Nat
    BY BtAssumption DEF BtAssumption
  <1>4. CASE class = "BtSet"
    <2> DEFINE c == IF k > 1 THEN k * 2 ELSE 2
    <2>1. c \in Nat \ {0} /\ (c = 2 \/ c >= 4)
      BY <1>3
    <2>2. array = Empty(c) /\ hash \in [Keys -> Hashes]
      BY <1>2, <1>4
    <2> HIDE DEF c
    <2>3. array \in Array(c) /\ Sound(array, c) /\ Occupied(array) = {}
      BY <2>1, <2>2, EmptyIsSound
    <2>4. Cardinality(Occupied(array)) = 0
      BY <2>3, FS_EmptySet
    <2>5. Capacity(array) = c
      BY <2>1, <2>3, ArrayIs
    <2>6. SetOK(array, num, Capacity(array))
      BY <2>1, <2>3, <2>4, <2>5, <1>1 DEF SetOK
    <2> QED
      BY <2>2, <2>6, <1>1, <1>4 DEF CltnInv
  <1>5. CASE class = "BtList"
    <2>1. array = Empty(k) /\ hash = [x \in Keys |-> 0]
      BY <1>2, <1>5
    <2> DEFINE s == [j \in 1 .. 0 |-> 0]
    <2>2. array \in Array(k) /\ \A p \in 0 .. k - 1 : array[p] = 0
      BY <2>1 DEF Empty, Array
    <2>3. Capacity(array) = k
      BY <2>2, <1>3, ArrayIs
    <2>4. s \in [1 .. 0 -> Elements]
      OBVIOUS
    <2>5. Holds(array, k, 0, 0, s)
      <3>1. \A p \in 0 .. k - 1 : ~(p < 0) /\ ~(p >= 0 + (k - 0))
        BY <1>3
      <3> HIDE DEF s
      <3> QED
        BY <3>1, <2>2, <2>4, <1>3 DEF Holds
    <2>6. ListOK(s)
      BY <2>3, <2>5, <1>1 DEF ListOK
    <2>7. hash \in [Keys -> Hashes \cup {0}]
      BY <2>1
    <2> QED
      BY <2>6, <2>7, <1>1, <1>5 DEF CltnInv
  <1> QED
    BY <1>2, <1>4, <1>5

\* What an operation is for the abstract set
AbstractSetOp(op, e) ==
  /\ op = "add" => Abstract!Add(e)
  /\ op = "filter" => Abstract!Filter(e)
  /\ op = "replace" => Abstract!Replace(e)
  /\ op = "remove" => Abstract!Discard(e)
  /\ op = "find" => Abstract!Find(e)

\* An operation of a set is that of the abstract set.
LEMMA SetActsIs ==
  ASSUME class = "BtSet", class' = class, NEW op \in SetOps, NEW e \in Elements,
         SetActs(op, e, Stored(array), Stored(array'), ret')
  PROVE  AbstractSetOp(op, e)
PROOF
  <1> DEFINE S == Stored(array)
             T == {o \in S : Key[o] = Key[e]}
  <1>1. Content = S /\ Content' = Stored(array')
    BY DEF Content
  <1>2. Abstract!Same(e) = T
    BY <1>1 DEF Abstract!Same
  <1>3. PICK old :
          /\ IsOld(old, S, e)
          /\ op \in {"add", "filter"} => Stored(array') = IF old = 0 THEN S \cup {e} ELSE S
          /\ op = "replace" => Stored(array') = {o \in S : Key[o] # Key[e]} \cup {e}
          /\ op = "remove" => Stored(array') = {o \in S : Key[o] # Key[e]}
          /\ op = "find" => Stored(array') = S
          /\ op = "add" => ret' = IF old \in {0, e} THEN e ELSE 0
          /\ op = "filter" => ret' = IF old = 0 THEN e ELSE old
          /\ op = "replace" => ret' = IF old = e THEN 0 ELSE old
          /\ op \in {"remove", "find"} => ret' = old
    BY DEF SetActs
  <1>4. 0 \notin S
    BY DEF Stored
  <1> HIDE DEF S
  <1>5. Abstract!OneOf(T) = old
    <2>1. CASE old = 0
      <3>1. T = {}
        BY <2>1, <1>3, <1>4 DEF IsOld
      <3> QED
        BY <3>1, <2>1 DEF Abstract!OneOf
    <2>2. CASE old # 0
      <3>1. T = {old}
        BY <2>2, <1>3 DEF IsOld
      <3>2. (CHOOSE o \in {old} : TRUE) = old
        OBVIOUS
      <3> QED
        BY <3>1, <3>2 DEF Abstract!OneOf
    <2> QED
      BY <2>1, <2>2
  <1>6. S \ T = {o \in S : Key[o] # Key[e]}
    OBVIOUS
  <1> HIDE DEF T
  <1> QED
    BY <1>1, <1>2, <1>3, <1>5, <1>6 DEF AbstractSetOp, SetOps, Abstract!Add, Abstract!Filter,
       Abstract!Replace, Abstract!Discard, Abstract!Find, Abstract!OnSet, Abstract!KeepsFirst,
       Abstract!Old

\* A step that does what an operation of a set does keeps the invariant.
LEMMA SetStepIs ==
  ASSUME CltnInv, class = "BtSet", UNCHANGED <<class, hash, free>>,
         NEW op \in SetOps, NEW e \in Elements, SetPre, SetStepOK(op, e)
  PROVE  CltnInv' /\ AbstractSetOp(op, e)
PROOF
  <1>1. class = "BtSet" /\ UNCHANGED <<class, hash, free>>
    OBVIOUS
  <1>2. SetPre
    OBVIOUS
  <1>3. SetStepOK(op, e)
    OBVIOUS
  <1>4. AbstractSetOp(op, e)
    BY <1>1, <1>3, SetActsIs DEF SetStepOK
  <1>5. ret' \in Elements \cup {0}
    <2>1. Stored(array) \subseteq Elements
      BY <1>2, SetPreIs, StoredOnce
    <2>2. PICK old : IsOld(old, Stored(array), e) /\ ret' \in {0, e, old}
      BY <1>3 DEF SetStepOK, SetActs, SetOps
    <2> QED
      BY <2>1, <2>2 DEF IsOld
  <1>6. CltnInv'
    <2>1. SetOK(array', num', Capacity(array'))
      BY <1>3 DEF SetStepOK
    <2>2. (SetOK(array, num, Capacity(array)))'
      BY <2>1, <1>1 DEF SetOK, Array, Sound, OneEach, Chained, Home, Dist, Occupied, Capacity
    <2> QED
      BY <2>2, <1>1, <1>5 DEF CltnInv
  <1> QED
    BY <1>4, <1>6

\* Every operation of a set keeps the invariant and is that of the abstract set.
LEMMA SetOpStep ==
  ASSUME CltnInv, NEW e \in Elements
  PROVE  /\ add(e) => CltnInv' /\ Abstract!Add(e)
         /\ filter(e) => CltnInv' /\ Abstract!Filter(e)
         /\ replace(e) => CltnInv' /\ Abstract!Replace(e)
         /\ remove(e) => CltnInv' /\ Abstract!Discard(e)
         /\ find(e) => CltnInv' /\ Abstract!Find(e)
PROOF
  <1>1. ASSUME add(e) \/ filter(e) \/ replace(e) \/ remove(e) \/ find(e)
        PROVE  class = "BtSet" /\ UNCHANGED <<class, hash, free>>
    BY <1>1 DEF add, filter, replace, remove, find
  <1>2. ASSUME add(e) \/ filter(e) \/ replace(e) \/ remove(e) \/ find(e)
        PROVE  SetPre
    BY <1>1, <1>2, CltnInvHash, ElementsAre DEF CltnInv, SetPre
  <1>3. ASSUME NEW op \in SetOps, SetStepOK(op, e),
               add(e) \/ filter(e) \/ replace(e) \/ remove(e) \/ find(e)
        PROVE  CltnInv' /\ AbstractSetOp(op, e)
    BY <1>1, <1>2, <1>3, SetStepIs
  <1>4. ASSUME add(e) PROVE CltnInv' /\ Abstract!Add(e)
    <2>1. SetStepOK("add", e)
      BY <1>2, <1>4, AddKeeps
    <2> QED
      BY <2>1, <1>3, <1>4 DEF SetOps, AbstractSetOp
  <1>5. ASSUME filter(e) PROVE CltnInv' /\ Abstract!Filter(e)
    <2>1. SetStepOK("filter", e)
      BY <1>2, <1>5, FilterKeeps
    <2> QED
      BY <2>1, <1>3, <1>5 DEF SetOps, AbstractSetOp
  <1>6. ASSUME replace(e) PROVE CltnInv' /\ Abstract!Replace(e)
    <2>1. SetStepOK("replace", e)
      BY <1>2, <1>6, ReplaceKeeps
    <2> QED
      BY <2>1, <1>3, <1>6 DEF SetOps, AbstractSetOp
  <1>7. ASSUME remove(e) PROVE CltnInv' /\ Abstract!Discard(e)
    <2>1. SetStepOK("remove", e)
      BY <1>2, <1>7, RemoveKeeps
    <2> QED
      BY <2>1, <1>3, <1>7 DEF SetOps, AbstractSetOp
  <1>8. ASSUME find(e) PROVE CltnInv' /\ Abstract!Find(e)
    <2>1. SetStepOK("find", e)
      BY <1>2, <1>8, FindKeeps
    <2> QED
      BY <2>1, <1>3, <1>8 DEF SetOps, AbstractSetOp
  <1> QED
    BY <1>4, <1>5, <1>6, <1>7, <1>8

\* What a list with these places holds
Placed(a, n, f) == [i \in 1 .. n |-> a[IF i - 1 < f THEN i - 1 ELSE rightPosition(a, n, i - 1)]]

LEMMA PlacedIs ==
  ASSUME NEW c, NEW a, NEW n, NEW f, NEW s, c = Capacity(a), Holds(a, c, n, f, s)
  PROVE  Placed(a, n, f) = s
PROOF
  <1>1. \A j \in 0 .. n - 1 : a[IF j < f THEN j ELSE j + c - n] = s[j + 1]
    BY HoldsIs
  <1>2. n \in Nat /\ s \in [1 .. n -> Elements]
    BY DEF Holds
  <1>3. \A i \in 1 .. n : i - 1 \in 0 .. n - 1 /\ (i - 1) + 1 = i
    BY <1>2
  <1>4. \A i \in 1 .. n : a[IF i - 1 < f THEN i - 1 ELSE (i - 1) + c - n] = s[i]
    BY <1>1, <1>3
  <1> QED
    BY <1>2, <1>4 DEF Placed, rightPosition

\* Every operation of a list keeps the invariant and is that of the abstract list.
LEMMA ListOpStep ==
  ASSUME CltnInv, NEW i \in Nat, class = "BtList", UNCHANGED <<class, hash>>
  PROVE  /\ removeAt(i) => CltnInv' /\ Abstract!Take(i)
         /\ index(i) => CltnInv' /\ Abstract!Index(i)
         /\ \A e \in Elements : insert(i, e) => CltnInv' /\ Abstract!Insert(i, e)
         /\ removeAt(i) \/ index(i) \/ (\E e \in Elements : insert(i, e)) => i \in 0 .. Len(Content)
PROOF
  <1>1. class = "BtList" /\ UNCHANGED <<class, hash>>
    OBVIOUS
  <1>2. PICK s : ListOK(s)
    BY <1>1 DEF CltnInv
  <1>3. Content = s /\ (\A k \in 0 .. num - 1 : array[position(k)] = s[k + 1]) /\ num \in Nat
    BY <1>1, <1>2, ContentIs
  <1>4. s \in [1 .. num -> Elements] /\ Len(s) = num
    BY <1>2, HoldsIs DEF ListOK, Holds
  <1>5. ASSUME NEW t, Holds(array', Capacity(array'), num', free', t), ret' \in Elements
        PROVE  Content' = t /\ CltnInv'
    <2>1. (ListOK(t))'
      BY <1>5 DEF ListOK, Holds, Array, Capacity
    <2>2. Placed(array', num', free') = t
      BY <1>5, PlacedIs
    <2>3. Content' = Placed(array', num', free')
      BY <1>1 DEF Content, Placed, position, rightPosition, Capacity
    <2> QED
      BY <2>1, <2>2, <2>3, <1>1, <1>5 DEF CltnInv
  <1>6. ASSUME removeAt(i) PROVE CltnInv' /\ Abstract!Take(i) /\ i \in 0 .. Len(Content)
    <2>1. /\ Holds(array', Capacity(array'), num', free', RemoveAt(s, i + 1))
          /\ i \in 0 .. num - 1 /\ ret' = s[i + 1]
      BY <1>2, <1>6, RemoveAtKeeps
    <2>2. ret' \in Elements
      BY <2>1, <1>3, <1>4
    <2>3. Content' = RemoveAt(Content, i + 1) /\ CltnInv'
      BY <2>1, <2>2, <1>3, <1>5
    <2>4. i < Len(Content) /\ i \in 0 .. Len(Content) /\ ret' = Content[i + 1]
      BY <2>1, <1>3, <1>4
    <2>5. Abstract!Take(i)
      BY <2>3, <2>4, <1>1 DEF Abstract!Take, Abstract!OnList, Abstract!RemoveAt, RemoveAt
    <2> QED
      BY <2>3, <2>4, <2>5
  <1>7. ASSUME index(i) PROVE CltnInv' /\ Abstract!Index(i) /\ i \in 0 .. Len(Content)
    <2>1. i < num /\ ret' = array[position(i)] /\ UNCHANGED <<class, hash, array, num, free>>
      BY <1>7 DEF index
    <2>2. i \in 0 .. num - 1 /\ ret' = s[i + 1] /\ ret' \in Elements
      BY <2>1, <1>3, <1>4
    <2>3. Content' = Content
      BY <2>1, <1>1 DEF Content, position, rightPosition, Capacity
    <2>4. CltnInv'
      <3>1. (ListOK(s))'
        BY <2>1, <1>2 DEF ListOK
      <3> QED
        BY <3>1, <2>2, <1>1 DEF CltnInv
    <2>5. i < Len(Content) /\ i \in 0 .. Len(Content) /\ ret' = Content[i + 1]
      BY <2>2, <1>3, <1>4
    <2>6. Abstract!Index(i)
      BY <2>3, <2>5, <1>1 DEF Abstract!Index, Abstract!OnList
    <2> QED
      BY <2>4, <2>5, <2>6
  <1>8. ASSUME NEW e \in Elements, insert(i, e)
        PROVE  CltnInv' /\ Abstract!Insert(i, e) /\ i \in 0 .. Len(Content)
    <2>1. /\ Holds(array', Capacity(array'), num', free', InsertAt(s, i + 1, e))
          /\ i \in 0 .. num /\ ret' = e
      BY <1>2, <1>8, ElementsAre, InsertKeeps
    <2>2. Content' = InsertAt(Content, i + 1, e) /\ CltnInv'
      BY <2>1, <1>3, <1>5
    <2>3. i <= Len(Content) /\ i \in 0 .. Len(Content)
      BY <2>1, <1>3, <1>4
    <2>4. Abstract!Insert(i, e)
      BY <2>1, <2>2, <2>3, <1>1 DEF Abstract!Insert, Abstract!OnList, Abstract!InsertAt, InsertAt
    <2> QED
      BY <2>2, <2>3, <2>4
  <1> QED
    BY <1>6, <1>7, <1>8

LEMMA CopyStep ==
  ASSUME CltnInv, copy
  PROVE  CltnInv' /\ UNCHANGED Abstract!cltnVars
PROOF
  <1>1. UNCHANGED <<class, hash, num, ret>>
    BY DEF copy
  <1>2. CASE class = "BtSet"
    <2> DEFINE c == Capacity(array)
    <2>1. array' = SetCopy(array, c) /\ free' = free
      BY <1>2 DEF copy
    <2>2. SetOK(array, num, c) /\ free = 0
      BY <1>2 DEF CltnInv
    <2>3. HashOK /\ 0 \notin Elements
      BY CltnInvHash, ElementsAre
    <2> HIDE DEF c
    <2>4. c \in Nat \ {0} /\ c <= c /\ c \in Nat /\ array \in Array(c) /\ OneEach(array)
      BY <2>2 DEF SetOK, Sound
    <2>5. /\ array' \in Array(c) /\ Sound(array', c) /\ Stored(array') = Stored(array)
          /\ Cardinality(Occupied(array')) = Cardinality(Occupied(array))
      BY <2>1, <2>3, <2>4, CopyKeeps
    <2>6. Capacity(array') = c
      BY <2>4, <2>5, ArrayIs
    <2>7. SetOK(array', num', Capacity(array'))
      BY <2>2, <2>5, <2>6, <1>1 DEF SetOK
    <2>8. (SetOK(array, num, Capacity(array)))'
      BY <2>7, <1>1 DEF SetOK, Array, Sound, OneEach, Chained, Home, Dist, Occupied, Capacity
    <2>9. CltnInv'
      BY <2>1, <2>2, <2>8, <1>1, <1>2 DEF CltnInv
    <2>10. Content = Stored(array) /\ Content' = Stored(array')
      BY <1>1, <1>2 DEF Content
    <2> QED
      BY <2>5, <2>9, <2>10, <1>1 DEF Abstract!cltnVars
  <1>3. CASE class = "BtList"
    <2> DEFINE c == Capacity(array)
    <2>1. array' = ListCopy(array, c) /\ free' = num
      BY <1>3 DEF copy
    <2>2. PICK s : ListOK(s)
      BY <1>3 DEF CltnInv
    <2>3. Holds(array, c, num, free, s)
      BY <2>2 DEF ListOK
    <2> HIDE DEF c
    <2>4. c \in Nat /\ num <= c
      BY <2>3 DEF Holds
    <2>5. Holds(array', c, num', free', s)
      BY <2>1, <2>3, <2>4, <1>1, ElementsAre, CopyHolds
    <2>6. Capacity(array') = c
      BY <2>5, HoldsIs
    <2>7. Placed(array', num', free') = s
      BY <2>5, <2>6, PlacedIs
    <2>8. Content' = Placed(array', num', free')
      BY <1>1, <1>3 DEF Content, Placed, position, rightPosition, Capacity
    <2>9. Content = s
      BY <2>2, <1>3, ContentIs
    <2>10. (ListOK(s))'
      BY <2>5, <2>6 DEF ListOK, Holds, Array, Capacity
    <2>11. CltnInv'
      BY <2>10, <1>1, <1>3 DEF CltnInv
    <2> QED
      BY <2>7, <2>8, <2>9, <2>11, <1>1 DEF Abstract!cltnVars
  <1> QED
    BY <1>2, <1>3 DEF CltnInv

LEMMA CltnStep ==
  ASSUME CltnInv, [BtNext]_btVars
  PROVE  CltnInv' /\ [Abstract!CltnNext]_(Abstract!cltnVars)
PROOF
  <1>1. CASE \E e \in Elements : add(e) \/ filter(e) \/ replace(e) \/ remove(e) \/ find(e)
    <2>1. PICK e \in Elements : add(e) \/ filter(e) \/ replace(e) \/ remove(e) \/ find(e)
      BY <1>1
    <2> QED
      BY <2>1, SetOpStep DEF Abstract!CltnNext
  <1>2. CASE \E i \in 0 .. MaxLen :
               removeAt(i) \/ index(i) \/ \E e \in Elements : insert(i, e)
    <2>1. PICK i \in 0 .. MaxLen :
                 removeAt(i) \/ index(i) \/ \E e \in Elements : insert(i, e)
      BY <1>2
    <2>2. i \in Nat
      BY BtAssumption DEF BtAssumption
    <2>3. class = "BtList" /\ UNCHANGED <<class, hash>>
      BY <2>1 DEF removeAt, index, insert
    <2> QED
      BY <2>1, <2>2, <2>3, ListOpStep DEF Abstract!CltnNext
  <1>3. CASE copy
    BY <1>3, CopyStep
  <1>4. CASE UNCHANGED btVars
    <2>1. UNCHANGED <<class, hash, array, num, free, ret>>
      BY <1>4 DEF btVars
    <2>2. CltnInv'
      BY <2>1 DEF CltnInv, SetOK, ListOK, Holds, Array, Sound, OneEach, Chained, Home, Dist,
                  Occupied, Capacity
    <2>3. Content' = Content
      BY <2>1 DEF Content, Stored, position, rightPosition, Capacity
    <2> QED
      BY <2>1, <2>2, <2>3 DEF Abstract!cltnVars
  <1> QED
    BY <1>1, <1>2, <1>3, <1>4 DEF BtNext

LEMMA CltnInitMaps == BtInit => Abstract!CltnInit
PROOF
  <1> SUFFICES ASSUME BtInit PROVE Abstract!CltnInit
    OBVIOUS
  <1>1. num = 0 /\ free = 0 /\ ret = 0
    BY DEF BtInit
  <1>2. CltnInv
    BY CltnInvInit
  <1>3. CASE class = "BtSet"
    <2>1. PICK k \in Sizes : array = Empty(IF k > 1 THEN k * 2 ELSE 2)
      BY <1>3 DEF BtInit
    <2>2. k \in Nat
      BY BtAssumption DEF BtAssumption
    <2>3. (IF k > 1 THEN k * 2 ELSE 2) \in Nat \ {0}
      BY <2>2
    <2>4. Stored(array) = {}
      BY <2>1, <2>3, EmptyIsSound
    <2> QED
      BY <2>4, <1>1, <1>3 DEF Abstract!CltnInit, Content
  <1>4. CASE class = "BtList"
    <2>1. PICK s : ListOK(s)
      BY <1>2, <1>4 DEF CltnInv
    <2>2. Content = s
      BY <2>1, <1>4, ContentIs
    <2>3. s \in Seq(Elements) /\ Len(s) = 0
      BY <2>1, <1>1, HoldsIs DEF ListOK
    <2>4. s = <<>>
      BY <2>3, EmptySeq
    <2> QED
      BY <2>2, <2>4, <1>1, <1>4 DEF Abstract!CltnInit
  <1> QED
    BY <1>2, <1>3, <1>4 DEF CltnInv

\* Whatever was called in whatever order: the places between the home of an element of a
\* set and its own are taken, two elements never have one key, the number kept is that of
\* the places taken, and at most two thirds of a larger array and one more;
\* a list is a sequence with its gap at free_ (BtSet.cc, BtList.cc).
THEOREM CltnInvariance == BtSpec => []CltnInv
PROOF
  <1>1. BtInit => CltnInv
    BY CltnInvInit
  <1>2. CltnInv /\ [BtNext]_btVars => CltnInv'
    BY CltnStep
  <1> QED
    BY <1>1, <1>2, PTL DEF BtSpec

\* findAt() finds every element of a set where it is, whatever was added, replaced,
\* removed or moved to a larger array before, and there is always room for one more.
THEOREM ProbeChainsHolds == BtSpec => []ProbeChains
PROOF
  <1>1. CltnInv => ProbeChains
    <2> SUFFICES ASSUME CltnInv, class = "BtSet"
                 PROVE  /\ \A p \in DOMAIN array : array[p] # 0 => findAt(array, array[p]) = p
                        /\ num = Cardinality({p \in DOMAIN array : array[p] # 0})
                        /\ \E p \in DOMAIN SetExpanded : SetExpanded[p] = 0
      BY DEF ProbeChains
    <2> DEFINE c == Capacity(array)
               d == Capacity(SetExpanded)
    <2>1. SetOK(array, num, c) /\ HashOK /\ ElementsOK /\ 0 \notin Elements
      BY CltnInvHash, ElementsAre DEF CltnInv
    <2>2. c \in Nat \ {0} /\ array \in Array(c) /\ Sound(array, c)
          /\ num = Cardinality(Occupied(array))
      BY <2>1 DEF SetOK
    <2>3. /\ SetOK(SetExpanded, num, d)
          /\ \E q \in 0 .. d - 1 : SetExpanded[q] = 0
      BY <2>1, ExpandedHasRoom
    <2>4. d \in Nat /\ SetExpanded \in Array(d)
      BY <2>3 DEF SetOK
    <2> HIDE DEF c, d
    <2>5. DOMAIN array = 0 .. c - 1 /\ \A p \in 0 .. c - 1 : array[p] \in Elements \cup {0}
      BY <2>2, ArrayIs
    <2>6. DOMAIN SetExpanded = 0 .. d - 1
      BY <2>4, ArrayIs
    <2>7. ASSUME NEW p \in 0 .. c - 1, array[p] # 0
          PROVE  findAt(array, array[p]) = p
      <3>1. array[p] \in Elements /\ isSame(array[p], array[p])
        BY <2>5, <2>7 DEF isSame
      <3> QED
        BY <3>1, <2>1, <2>2, SearchIsExact
    <2> QED
      BY <2>2, <2>3, <2>5, <2>6, <2>7 DEF Occupied
  <1> QED
    BY <1>1, CltnInvariance, PTL

\* Every operation of a BtSet and of a BtList changes it, and returns, what the one of a
\* set with one element per key and of a sequence does; growing and copying change neither.
THEOREM ImplementsCltnHolds == BtSpec => ImplementsCltn
PROOF
  <1>1. BtInit => Abstract!CltnInit
    BY CltnInitMaps
  <1>2. CltnInv /\ [BtNext]_btVars => [Abstract!CltnNext]_(Abstract!cltnVars)
    BY CltnStep
  <1> QED
    BY <1>1, <1>2, CltnInvariance, PTL DEF BtSpec, ImplementsCltn, Abstract!CltnSpec

\* And it is the operation called, for the element and at the index it was called with:
\* what add, filter, replace, remove, find, insert, removeAt and index do and return.
THEOREM OperationsMatchHolds == BtSpec => OperationsMatch
PROOF
  <1> DEFINE Match ==
        /\ \A e \in Elements : /\ add(e) => Abstract!Add(e)
                               /\ filter(e) => Abstract!Filter(e)
                               /\ replace(e) => Abstract!Replace(e)
                               /\ remove(e) => Abstract!Discard(e)
                               /\ find(e) => Abstract!Find(e)
        /\ \A i \in 0 .. MaxLen :
             /\ removeAt(i) => Abstract!Take(i)
             /\ index(i) => Abstract!Index(i)
             /\ \A e \in Elements : insert(i, e) => Abstract!Insert(i, e)
  <1>1. CltnInv => Match
    <2> SUFFICES ASSUME CltnInv PROVE Match
      OBVIOUS
    <2>1. \A e \in Elements : /\ add(e) => Abstract!Add(e)
                              /\ filter(e) => Abstract!Filter(e)
                              /\ replace(e) => Abstract!Replace(e)
                              /\ remove(e) => Abstract!Discard(e)
                              /\ find(e) => Abstract!Find(e)
      BY SetOpStep
    <2>2. ASSUME NEW i \in 0 .. MaxLen
          PROVE  /\ removeAt(i) => Abstract!Take(i)
                 /\ index(i) => Abstract!Index(i)
                 /\ \A e \in Elements : insert(i, e) => Abstract!Insert(i, e)
      <3>1. i \in Nat
        BY BtAssumption DEF BtAssumption
      <3>2. ASSUME removeAt(i) \/ index(i) \/ \E e \in Elements : insert(i, e)
            PROVE  class = "BtList" /\ UNCHANGED <<class, hash>>
        BY <3>2 DEF removeAt, index, insert
      <3> QED
        BY <3>1, <3>2, ListOpStep
    <2> QED
      BY <2>1, <2>2
  <1>2. CltnInv /\ [BtNext]_btVars => [Match]_btVars
    BY <1>1
  <1> QED
    BY <1>2, CltnInvariance, PTL DEF BtSpec, OperationsMatch
=============================================================================
