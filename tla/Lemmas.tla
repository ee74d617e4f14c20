------------------------------- MODULE Lemmas -------------------------------
(***************************************************************************)
(* What the proofs of several components need: least elements of sets of   *)
(* numbers, and induction by means of them; what taking an element out of  *)
(* a sequence and putting one in front does; and the arithmetic of offsets *)
(* that wrap, that is, what % and \div return for the sums and differences *)
(* that circular-buffer code forms.                                        *)
(***************************************************************************)
EXTENDS Integers, SequenceTheorems, WellFoundedInduction, TLAPS

Less == {p \in Nat \X Nat : p[1] < p[2]}

LEMMA LessIsWellFounded == IsWellFoundedOn(Less, Nat)
  BY NatLessThanWellFounded DEF OpToRel, Less

LEMMA Least ==
    ASSUME NEW S \in SUBSET Nat, S # {}
    PROVE  \E n \in S : \A m \in S : n <= m
  <1>1. PICK x \in S : \A y \in S : <<y, x>> \notin Less
        BY LessIsWellFounded, WFMin
  <1>2. \A y \in S : ~(y < x)
        BY <1>1 DEF Less
  <1> QED BY <1>2

(***************************************************************************)
(* Induction: the set of the numbers that have the property takes the      *)
(* place of the property.                                                  *)
(***************************************************************************)
LEMMA Induct ==
    ASSUME NEW S, 0 \in S, \A n \in Nat : n \in S => n + 1 \in S
    PROVE  Nat \subseteq S
  <1> SUFFICES ASSUME Nat \ S # {} PROVE FALSE
      OBVIOUS
  <1>1. PICK n \in Nat \ S : \A m \in Nat \ S : n <= m
        BY Least
  <1>2. n - 1 \in Nat /\ n - 1 \in S
        BY <1>1
  <1> QED BY <1>1, <1>2

(***************************************************************************)
(* A sequence without its element at position i.                           *)
(***************************************************************************)
LEMMA TakenOut ==
    ASSUME NEW S, NEW s \in Seq(S), NEW i \in 1..Len(s)
    PROVE  LET t == SubSeq(s, 1, i - 1) \o SubSeq(s, i + 1, Len(s))
           IN  /\ t \in Seq(S)
               /\ Len(t) = Len(s) - 1
               /\ \A j \in 1..Len(s) - 1 : t[j] = IF j < i THEN s[j] ELSE s[j + 1]
  <1> DEFINE a == SubSeq(s, 1, i - 1)
             b == SubSeq(s, i + 1, Len(s))
  <1>1. a \in Seq(S) /\ Len(a) = i - 1 /\ \A j \in 1..i - 1 : a[j] = s[j]
        OBVIOUS
  <1>2. b \in Seq(S) /\ Len(b) = Len(s) - i /\ \A j \in 1..Len(s) - i : b[j] = s[i + j]
        OBVIOUS
  <1>0. Len(s) \in Nat /\ i \in Nat /\ i >= 1 /\ i <= Len(s)
        OBVIOUS
  <1> HIDE DEF a, b
  <1>3. a \o b \in Seq(S) /\ Len(a \o b) = Len(s) - 1
    <2>1. a \o b \in Seq(S) /\ Len(a \o b) = Len(a) + Len(b)
          BY <1>1, <1>2, ConcatProperties
    <2> QED BY <1>0, <1>1, <1>2, <2>1
  <1>4. ASSUME NEW j \in 1..Len(s) - 1
        PROVE  (a \o b)[j] = IF j < i THEN s[j] ELSE s[j + 1]
    <2>1. (a \o b)[j] = IF j <= i - 1 THEN a[j] ELSE b[j - (i - 1)]
          BY <1>1, <1>2, ConcatProperties
    <2>0. j \in Nat /\ j >= 1 /\ j <= Len(s) - 1
          BY <1>0
    <2>2. j < i => (a \o b)[j] = s[j]
          BY <1>0, <1>1, <2>0, <2>1
    <2>3. ASSUME j >= i PROVE (a \o b)[j] = s[j + 1]
      <3>1. (a \o b)[j] = b[j - (i - 1)] /\ j - (i - 1) \in 1..Len(s) - i
            BY <1>0, <2>0, <2>1, <2>3
      <3> QED BY <1>2, <2>3, <3>1
    <2>4. j < i \/ j >= i
          BY <1>0, <2>0
    <2>5. CASE j < i
          BY <2>2, <2>5
    <2>6. CASE j >= i
      <3>1. ~(j < i)
            BY <1>0, <2>0, <2>6
      <3> QED BY <2>3, <2>6, <3>1
    <2> QED BY <2>4, <2>5, <2>6
  <1> QED BY <1>3, <1>4 DEF a, b

LEMMA PutInFront ==
    ASSUME NEW S, NEW s \in Seq(S), NEW e \in S
    PROVE  /\ <<e>> \o s \in Seq(S)
           /\ Len(<<e>> \o s) = Len(s) + 1
           /\ \A j \in 1..Len(s) + 1 : (<<e>> \o s)[j] = IF j = 1 THEN e ELSE s[j - 1]
  OBVIOUS

(***************************************************************************)
(* Products.                                                               *)
(***************************************************************************)
LEMMA Products ==
    ASSUME NEW a \in Int, NEW b \in Int, NEW c \in Int
    PROVE  /\ a * b \in Int /\ a * b = b * a
           /\ a * (b + c) = a * b + a * c /\ a * (b - c) = a * b - a * c
           /\ a * (-b) = -(a * b)
           /\ a * (b * c) = (a * b) * c
  OBVIOUS

LEMMA LargerProduct ==
    ASSUME NEW a \in Nat, NEW b \in Int, NEW c \in Int, b <= c
    PROVE  a * b <= a * c
  OBVIOUS

(***************************************************************************)
(* The quotient and the remainder are the only numbers with their property.*)
(***************************************************************************)
LEMMA DivMod ==
    ASSUME NEW n \in Nat \ {0}, NEW q \in Int, NEW r \in 0..n - 1
    PROVE  (q * n + r) % n = r /\ (q * n + r) \div n = q
  OBVIOUS

LEMMA ModBounds ==
    ASSUME NEW n \in Nat \ {0}, NEW a \in Int
    PROVE  /\ a = (a \div n) * n + (a % n)
           /\ a % n \in 0..n - 1
           /\ a \div n \in Int
  OBVIOUS

(***************************************************************************)
(* Wrapping at a multiple of s first does not change the remainder mod s.  *)
(***************************************************************************)
LEMMA ModTwice ==
    ASSUME NEW s \in Nat \ {0}, NEW m \in Nat \ {0}, NEW x \in Int
    PROVE  (x % (m * s)) % s = x % s
  <1> DEFINE w == m * s
             q == x \div w
             r == x % w
             p == r \div s
             d == r % s
  <1>1. w \in Nat \ {0}
        OBVIOUS
  <1> HIDE DEF w
  <1>2. x = q * w + r /\ q \in Int /\ r \in Int
        BY <1>1, ModBounds
  <1> HIDE DEF q, r
  <1>3. r = p * s + d /\ d \in 0..s - 1 /\ p \in Int
        BY <1>2, ModBounds
  <1> HIDE DEF p, d
  <1>4. x = (q * m + p) * s + d /\ q * m + p \in Int
        BY <1>2, <1>3 DEF w
  <1>5. x % s = d
        BY <1>3, <1>4, DivMod
  <1>6. r % s = d
        BY <1>3, DivMod
  <1> QED BY <1>5, <1>6 DEF r, w

(***************************************************************************)
(* Nor does wrapping a term of a sum or of a difference.                   *)
(***************************************************************************)
LEMMA ModSum ==
    ASSUME NEW w \in Nat \ {0}, NEW a \in Int, NEW b \in Int
    PROVE  (a + (b % w)) % w = (a + b) % w /\ (a - (b % w)) % w = (a - b) % w
  <1> DEFINE q == b \div w
             c == b % w
  <1>1. b = q * w + c /\ q \in Int /\ c \in Int
        BY ModBounds
  <1> HIDE DEF q, c
  <1>2. ASSUME NEW x \in Int, NEW y \in Int, NEW z \in Int, x = y + z * w
        PROVE  x % w = y % w
    <2> DEFINE p == y \div w
               d == y % w
    <2>1. y = p * w + d /\ d \in 0..w - 1 /\ p \in Int
          BY ModBounds
    <2> HIDE DEF p, d
    <2>2. x = (p + z) * w + d /\ p + z \in Int
          BY <1>2, <2>1
    <2>3. x % w = d
          BY <2>1, <2>2, DivMod
    <2> QED BY <2>3 DEF d
  <1>3. (a + c) % w = (a + b) % w
    <2> DEFINE x == a + c
               y == a + b
               z == -q
    <2>1. x \in Int /\ y \in Int /\ z \in Int /\ x = y + z * w
          BY <1>1
    <2> HIDE DEF x, y, z
    <2>2. x % w = y % w
          BY <1>2, <2>1
    <2> QED BY <2>2 DEF x, y
  <1>4. (a - c) % w = (a - b) % w
    <2> DEFINE x == a - c
               y == a - b
    <2>1. x \in Int /\ y \in Int /\ x = y + q * w
          BY <1>1
    <2> HIDE DEF x, y
    <2>2. x % w = y % w
          BY <1>1, <1>2, <2>1
    <2> QED BY <2>2 DEF x, y
  <1> QED BY <1>3, <1>4 DEF c

(***************************************************************************)
(* The sums and differences of two places among s, modulo s.               *)
(***************************************************************************)
LEMMA ModPlaces ==
    ASSUME NEW s \in Nat \ {0}, NEW h \in 0..s - 1, NEW t \in 0..s - 1
    PROVE  /\ (h - t) % s = IF h >= t THEN h - t ELSE s - (t - h)
           /\ (t - h - 1) % s = IF h >= t THEN s - 1 - (h - t) ELSE t - h - 1
           /\ (h + (s - t)) % s = IF h >= t THEN h - t ELSE s - (t - h)
           /\ (s - 1 - h + t) % s = IF h >= t THEN s - 1 - (h - t) ELSE t - h - 1
           /\ (h + t) % s = IF h + t < s THEN h + t ELSE h + t - s
  <1>1. CASE h >= t
        BY <1>1
  <1>2. CASE h < t
        BY <1>2
  <1> QED BY <1>1, <1>2

(***************************************************************************)
(* n places after place i, in offsets; the distance from one past place h  *)
(* to place t.                                                             *)
(***************************************************************************)
LEMMA ModOffsets ==
    ASSUME NEW w \in Nat \ {0}, NEW e \in Nat, NEW i \in Nat, NEW n \in Nat
    PROVE  /\ (i * e + ((n * e) % w)) % w = ((i + n) * e) % w
           /\ (n * e - ((i * e + e) % w)) % w = ((n - i - 1) * e) % w
  <1> DEFINE a == i * e
             b == n * e
             c == i * e + e
  <1>1. a \in Int /\ b \in Int /\ c \in Int
        OBVIOUS
  <1>2. a + b = (i + n) * e /\ b - c = (n - i - 1) * e
        OBVIOUS
  <1> HIDE DEF a, b, c
  <1>3. (a + (b % w)) % w = (a + b) % w /\ (b - (c % w)) % w = (b - c) % w
        BY <1>1, ModSum
  <1> QED BY <1>2, <1>3 DEF a, b, c

(***************************************************************************)
(* The distance of two offsets, in items, in a word of m items.            *)
(***************************************************************************)
LEMMA PlaceDistance ==
    ASSUME NEW e \in Nat \ {0}, NEW m \in Nat \ {0}, NEW d \in Int,
           NEW w \in Nat, w = m * e
    PROVE  ((d * e) % w) \div e = d % m
  <1> DEFINE r == d % m
             q == d \div m
  <1>1. d = q * m + r /\ q \in Int /\ r \in 0..m - 1
        BY ModBounds
  <1> HIDE DEF q, r
  <1>2. d * e = q * (m * e) + r * e
        BY <1>1
  <1>3. r * e \in 0..m * e - 1 /\ m * e \in Nat \ {0}
        BY <1>1
  <1>4. (d * e) % (m * e) = r * e
    <2> DEFINE x == d * e
               y == m * e
               z == r * e
    <2>1. x = q * y + z /\ z \in 0..y - 1 /\ y \in Nat \ {0}
          BY <1>2, <1>3
    <2> HIDE DEF x, y, z
    <2>2. x % y = z
          BY <1>1, <2>1, DivMod
    <2> QED BY <2>2 DEF x, y, z
  <1>5. (r * e) \div e = r
        BY <1>1, r * e = r * e + 0, DivMod
  <1> QED BY <1>4, <1>5 DEF r

(***************************************************************************)
(* A recursive function on 0..N: it is there, whatever its step does at    *)
(* each place.                                                             *)
(***************************************************************************)
Steps(S, N) == [1..N -> [S -> S]]

Follows(f, S, N, x, G) ==
    f \in [0..N -> S] /\ f[0] = x /\ \A n \in 1..N : f[n] = G[n][f[n - 1]]

LEMMA Recursion ==
    ASSUME NEW N \in Nat, NEW S, NEW x \in S, NEW G \in Steps(S, N)
    PROVE  \E f : Follows(f, S, N, x, G)
  <1> USE DEF Steps
  <1> DEFINE Is(g, n) == g \in [0..n -> S] /\ g[0] = x /\ \A i \in 1..n : g[i] = G[i][g[i - 1]]
             Some == {n \in Nat : n <= N => \E g : Is(g, n)}
  <1>1. 0 \in Some
    <2> DEFINE g == [i \in 0..0 |-> x]
    <2>1. Is(g, 0)
          OBVIOUS
    <2> HIDE DEF Is
    <2> QED BY <2>1
  <1>2. ASSUME NEW n \in Nat, n \in Some PROVE n + 1 \in Some
    <2> SUFFICES ASSUME n + 1 <= N PROVE \E g : Is(g, n + 1)
        OBVIOUS
    <2>1. PICK g : Is(g, n)
          BY <1>2
    <2> DEFINE d == [i \in 0..n + 1 |-> IF i = n + 1 THEN G[n + 1][g[n]] ELSE g[i]]
    <2>2. Is(d, n + 1)
      <3>1. n \in 0..n /\ 0 \in 0..n /\ 0 # n + 1 /\ n + 1 \in 1..N
            OBVIOUS
      <3>2. g[n] \in S /\ G[n + 1] \in [S -> S]
            BY <2>1, <3>1
      <3>3. d \in [0..n + 1 -> S] /\ d[0] = x
        <4>1. \A i \in 0..n + 1 : i # n + 1 => i \in 0..n
              OBVIOUS
        <4> QED BY <2>1, <3>1, <3>2, <4>1
      <3>4. ASSUME NEW i \in 1..n + 1 PROVE d[i] = G[i][d[i - 1]]
        <4>1. i - 1 \in 0..n /\ i - 1 # n + 1 /\ i \in 0..n + 1 /\ i - 1 \in 0..n + 1
              OBVIOUS
        <4>2. d[i - 1] = g[i - 1]
              BY <4>1
        <4>3. CASE i = n + 1
          <5>1. i - 1 = n
                BY <4>3
          <5> QED BY <4>1, <4>2, <4>3, <5>1
        <4>4. CASE i # n + 1
          <5>1. i \in 1..n
                BY <4>4
          <5>2. d[i] = g[i]
                BY <4>1, <4>4
          <5> HIDE DEF d
          <5> QED BY <2>1, <4>2, <5>1, <5>2
        <4> QED BY <4>3, <4>4
      <3> HIDE DEF d
      <3> QED BY <3>3, <3>4
    <2> HIDE DEF d, Is
    <2> QED BY <2>2
  <1> HIDE DEF Some
  <1>3. N \in Some
        BY <1>1, <1>2, Induct
  <1>4. \E g : Is(g, N)
        BY <1>3 DEF Some
  <1> QED BY <1>4 DEF Follows

(***************************************************************************)
(* A function on the natural numbers may be given by its first value and a *)
(* step.                                                                   *)
(***************************************************************************)
Iterates(f, S, x, F) ==
    f \in [Nat -> S] /\ f[0] = x /\ \A n \in Nat : f[n + 1] = F[f[n]]

LEMMA Iterated ==
    ASSUME NEW S, NEW x \in S, NEW F \in [S -> S]
    PROVE  \E f : Iterates(f, S, x, F)
  <1> DEFINE Goes(g, n) == g \in [0..n -> S] /\ g[0] = x /\ \A i \in 0..n - 1 : g[i + 1] = F[g[i]]
             Some == {n \in Nat : \E g : Goes(g, n)}
             G(n) == CHOOSE g : Goes(g, n)
             f    == [n \in Nat |-> G(n)[n]]
  <1>1. 0 \in Some
    <2> DEFINE g == [i \in 0..0 |-> x]
    <2>1. Goes(g, 0)
          OBVIOUS
    <2> HIDE DEF Goes
    <2> QED BY <2>1
  <1>2. ASSUME NEW n \in Nat, n \in Some PROVE n + 1 \in Some
    <2>1. PICK g : Goes(g, n)
          BY <1>2
    <2> DEFINE d == [i \in 0..n + 1 |-> IF i = n + 1 THEN F[g[n]] ELSE g[i]]
    <2>2. Goes(d, n + 1)
      <3>1. n \in 0..n /\ 0 \in 0..n /\ 0 # n + 1
            OBVIOUS
      <3>2. d \in [0..n + 1 -> S] /\ d[0] = x
            BY <2>1, <3>1
      <3>3. ASSUME NEW i \in 0..(n + 1) - 1 PROVE d[i + 1] = F[d[i]]
        <4>1. i \in 0..n /\ i # n + 1 /\ i \in 0..n + 1 /\ i + 1 \in 0..n + 1
              OBVIOUS
        <4>2. d[i] = g[i]
              BY <4>1
        <4>3. CASE i = n
              BY <4>1, <4>2, <4>3
        <4>4. CASE i # n
          <5>1. i \in 0..n - 1 /\ i + 1 # n + 1
                BY <4>4
          <5>2. d[i + 1] = g[i + 1]
                BY <4>1, <5>1
          <5> HIDE DEF d
          <5> QED BY <2>1, <4>2, <5>1, <5>2
        <4> QED BY <4>3, <4>4
      <3> HIDE DEF d
      <3> QED BY <3>2, <3>3
    <2> HIDE DEF d, Goes
    <2> QED BY <2>2
  <1> HIDE DEF Some
  <1>3. \A n \in Nat : \E g : Goes(g, n)
    <2>1. Nat \subseteq Some
          BY <1>1, <1>2, Induct
    <2> QED BY <2>1 DEF Some
  <1>4. \A n \in Nat : Goes(G(n), n)
    <2> HIDE DEF Goes
    <2> QED BY <1>3
  <1> HIDE DEF G
  <1>5. \A n \in Nat : G(n) \in [0..n -> S] /\ G(n)[0] = x
        BY <1>4
  <1>6. \A n \in Nat : n \in 0..n /\ n + 1 \in Nat /\ n \in 0..n + 1
        OBVIOUS
  <1>7. f \in [Nat -> S] /\ f[0] = x
        BY <1>5, <1>6
  <1>8. ASSUME NEW n \in Nat PROVE f[n + 1] = F[f[n]]
    <2> DEFINE a == G(n)
               b == G(n + 1)
               Same == {i \in Nat : i <= n => a[i] = b[i]}
    <2>1. Goes(a, n) /\ Goes(b, n + 1)
          BY <1>4, <1>6
    <2> HIDE DEF a, b
    <2>2. 0 \in Same
          BY <2>1
    <2>3. ASSUME NEW i \in Nat, i \in Same PROVE i + 1 \in Same
      <3> SUFFICES ASSUME i + 1 <= n PROVE a[i + 1] = b[i + 1]
          OBVIOUS
      <3>1. i \in 0..n - 1 /\ i \in 0..(n + 1) - 1 /\ i <= n
            OBVIOUS
      <3> QED BY <2>1, <2>3, <3>1
    <2> HIDE DEF Same
    <2>4. n \in Same
          BY <2>2, <2>3, Induct
    <2>5. a[n] = b[n]
          BY <2>4 DEF Same
    <2>6. b[n + 1] = F[b[n]]
      <3>1. n \in 0..(n + 1) - 1
            OBVIOUS
      <3> QED BY <2>1, <3>1
    <2>7. f[n + 1] = b[n + 1] /\ f[n] = a[n]
          BY <1>6 DEF a, b
    <2> QED BY <2>5, <2>6, <2>7
  <1> HIDE DEF f
  <1> QED BY <1>7, <1>8 DEF Iterates

(***************************************************************************)
(* A function that is given by recursion is there if what it goes back to  *)
(* is smaller: here to two other arguments of it, which may be one.        *)
(***************************************************************************)
Descends(T, H, Base, L, R) ==
    /\ H \in [T -> Nat] /\ L \in [T -> T] /\ R \in [T -> T]
    /\ \A t \in T : t \notin Base => H[L[t]] < H[t] /\ H[R[t]] < H[t]

Combines(T, S) == [T -> [S -> [S -> S]]]

Recurs(f, T, S, Base, B, L, R, G) ==
    /\ f \in [T -> S]
    /\ \A t \in T : f[t] = IF t \in Base THEN B[t] ELSE G[t][f[L[t]]][f[R[t]]]

LEMMA Measured ==
    ASSUME NEW T, NEW S, NEW Base, NEW H, NEW L, NEW R, NEW B \in [T -> S],
           NEW G \in Combines(T, S), Descends(T, H, Base, L, R)
    PROVE  \E f : Recurs(f, T, S, Base, B, L, R, G)
  <1> DEFINE Value(g, t) == IF t \in Base THEN B[t] ELSE G[t][g[L[t]]][g[R[t]]]
             Better(g)   == [t \in T |-> Value(g, t)]
             F == [g \in [T -> S] |-> Better(g)]
  <1>1. ASSUME NEW g \in [T -> S], NEW t \in T PROVE Value(g, t) \in S
    <2>1. L[t] \in T /\ R[t] \in T
          BY DEF Descends
    <2>2. g[L[t]] \in S /\ g[R[t]] \in S
          BY <2>1
    <2>3. G[t][g[L[t]]][g[R[t]]] \in S
          BY <2>2 DEF Combines
    <2> QED BY <2>3
  <1>2. ASSUME NEW g \in [T -> S], NEW h \in [T -> S], NEW t \in T,
               t \in Base \/ (g[L[t]] = h[L[t]] /\ g[R[t]] = h[R[t]])
        PROVE  Value(g, t) = Value(h, t)
        BY <1>2
  <1> HIDE DEF Value
  <1>3. F \in [[T -> S] -> [T -> S]]
        BY <1>1
  <1>4. PICK a \in [Nat -> [T -> S]] : a[0] = B /\ \A n \in Nat : a[n + 1] = F[a[n]]
    <2> HIDE DEF F
    <2>1. \E a : Iterates(a, [T -> S], B, F)
          BY <1>3, Iterated
    <2> QED BY <2>1 DEF Iterates
  <1>5. ASSUME NEW n \in Nat, NEW t \in T PROVE a[n + 1][t] = Value(a[n], t)
    <2> DEFINE g == a[n]
    <2>1. g \in [T -> S] /\ a[n + 1] = F[g]
          BY <1>4
    <2> HIDE DEF g
    <2>2. F[g] = Better(g)
          BY <2>1
    <2> HIDE DEF F
    <2>3. Better(g)[t] = Value(g, t)
          OBVIOUS
    <2> HIDE DEF Better
    <2> QED BY <2>1, <2>2, <2>3 DEF g
  <1> HIDE DEF F
  <1>6. \A t \in T : H[t] \in Nat /\ L[t] \in T /\ R[t] \in T
                     /\ (t \notin Base => H[L[t]] < H[t] /\ H[R[t]] < H[t])
        BY DEF Descends
  <1> DEFINE Settled == {n \in Nat : \A t \in T : H[t] < n => a[n + 1][t] = a[n][t]}
  <1>7. 0 \in Settled
        BY <1>6
  <1>8. ASSUME NEW n \in Nat, n \in Settled PROVE n + 1 \in Settled
    <2> SUFFICES ASSUME NEW t \in T, H[t] < n + 1
                 PROVE  a[(n + 1) + 1][t] = a[n + 1][t]
        OBVIOUS
    <2>1. a[(n + 1) + 1][t] = Value(a[n + 1], t) /\ a[n + 1][t] = Value(a[n], t)
          BY <1>5
    <2>2. a[n + 1] \in [T -> S] /\ a[n] \in [T -> S]
          BY <1>4
    <2>3. ASSUME t \notin Base
          PROVE  a[n + 1][L[t]] = a[n][L[t]] /\ a[n + 1][R[t]] = a[n][R[t]]
      <3>1. H[L[t]] < n /\ H[R[t]] < n /\ L[t] \in T /\ R[t] \in T
            BY <1>6, <2>3
      <3> QED BY <1>8, <3>1
    <2> QED BY <1>2, <2>1, <2>2, <2>3
  <1> HIDE DEF Settled
  <1>9. Nat \subseteq Settled
        BY <1>7, <1>8, Induct
  <1>10. ASSUME NEW t \in T PROVE \A n \in Nat : H[t] < n => a[n][t] = a[H[t] + 1][t]
    <2> DEFINE Same == {n \in Nat : H[t] < n => a[n][t] = a[H[t] + 1][t]}
    <2>1. 0 \in Same
          BY <1>6
    <2>2. ASSUME NEW n \in Nat, n \in Same PROVE n + 1 \in Same
      <3>1. CASE H[t] < n
        <4>1. a[n + 1][t] = a[n][t]
              BY <1>9, <3>1 DEF Settled
        <4> QED BY <2>2, <3>1, <4>1
      <3>2. CASE ~(H[t] < n)
        <4>0. H[t] \in Nat
              BY <1>6
        <4>1. H[t] < n + 1 => H[t] = n
              BY <3>2, <4>0
        <4> QED BY <4>1
      <3> QED BY <3>1, <3>2
    <2> HIDE DEF Same
    <2>3. Nat \subseteq Same
          BY <2>1, <2>2, Induct
    <2> QED BY <2>3 DEF Same
  <1> DEFINE f == [t \in T |-> a[H[t] + 1][t]]
  <1>11. f \in [T -> S]
    <2>1. \A t \in T : H[t] + 1 \in Nat
          BY <1>6
    <2>2. \A t \in T : a[H[t] + 1] \in [T -> S]
          BY <1>4, <2>1
    <2> QED BY <2>2
  <1>12. ASSUME NEW t \in T PROVE f[t] = Value(f, t)
    <2>1. H[t] \in Nat /\ a[H[t]] \in [T -> S]
          BY <1>4, <1>6
    <2>2. f[t] = Value(a[H[t]], t)
          BY <1>5, <2>1
    <2>3. ASSUME t \notin Base
          PROVE  a[H[t]][L[t]] = f[L[t]] /\ a[H[t]][R[t]] = f[R[t]]
      <3>1. L[t] \in T /\ R[t] \in T /\ H[L[t]] < H[t] /\ H[R[t]] < H[t]
            BY <1>6, <2>3
      <3> QED BY <1>10, <2>1, <3>1
    <2> HIDE DEF f
    <2> QED BY <1>2, <1>11, <2>1, <2>2, <2>3
  <1> HIDE DEF f
  <1> QED BY <1>11, <1>12 DEF Recurs, Value

(***************************************************************************)
(* Recursion and induction on numbers that are divided by d until they are *)
(* 0.                                                                      *)
(***************************************************************************)
LEMMA Halves ==
    ASSUME NEW d \in Nat, d >= 2, NEW n \in Nat
    PROVE  /\ n \div d \in Nat /\ n % d \in 0..d - 1 /\ n = d * (n \div d) + (n % d)
           /\ n # 0 => n \div d < n
  <1> DEFINE q == n \div d
             r == n % d
  <1>1. n = q * d + r /\ r \in 0..d - 1 /\ q \in Int
        BY ModBounds
  <1> HIDE DEF q, r
  <1>2. q \in Nat
    <2>1. CASE q < 0
      <3>1. d * q <= d * (-1)
            BY <1>1, <2>1, LargerProduct
      <3>2. d * q = q * d /\ d * (-1) = -d
            BY <1>1
      <3> HIDE DEF q
      <3>3. q * d <= -d /\ q * d \in Int
            BY <1>1, <3>1, <3>2
      <3> DEFINE p == q * d
      <3> HIDE DEF p
      <3>4. p \in Int /\ p <= -d /\ n = p + r
            BY <1>1, <3>3 DEF p
      <3> QED BY <1>1, <3>4
    <2> QED BY <1>1, <2>1
  <1>3. d * q = q * d /\ q * d \in Int
        BY <1>1
  <1>4. n # 0 => q < n
    <2> SUFFICES ASSUME n # 0, q >= n PROVE FALSE
        BY <1>2
    <2>1. q * 2 <= q * d
          BY <1>2, LargerProduct
    <2> DEFINE p == q * d
    <2>2. p \in Int /\ n = p + r /\ q * 2 <= p
          BY <1>1, <1>3, <2>1
    <2> HIDE DEF p
    <2> QED BY <1>1, <1>2, <2>2
  <1> QED BY <1>1, <1>2, <1>3, <1>4 DEF q, r

LEMMA DivInduct ==
    ASSUME NEW d \in Nat, d >= 2, NEW P, 0 \in P, \A n \in Nat \ {0} : n \div d \in P => n \in P
    PROVE  Nat \subseteq P
  <1> SUFFICES ASSUME Nat \ P # {} PROVE FALSE
      OBVIOUS
  <1>1. PICK n \in Nat \ P : \A m \in Nat \ P : n <= m
        BY Least
  <1>2. n # 0 /\ n \in Nat
        BY <1>1
  <1>3. n \div d \in Nat /\ n \div d < n
        BY <1>2, Halves
  <1> QED BY <1>1, <1>2, <1>3

Divides(f, S, d, x, G) ==
    f \in [Nat -> S] /\ f[0] = x /\ \A n \in Nat \ {0} : f[n] = G[n][f[n \div d]]

LEMMA DivRecursion ==
    ASSUME NEW d \in Nat, d >= 2, NEW S, NEW x \in S, NEW G \in [Nat -> [S -> S]]
    PROVE  \E f : Divides(f, S, d, x, G)
  <1> DEFINE H == [n \in Nat |-> n]
             L == [n \in Nat |-> n \div d]
             B == [n \in Nat |-> x]
             A == [n \in Nat |-> [u \in S |-> [v \in S |-> G[n][u]]]]
  <1>1. Descends(Nat, H, {0}, L, L)
    <2>1. \A n \in Nat : n \div d \in Nat /\ (n # 0 => n \div d < n)
          BY Halves
    <2> QED BY <2>1 DEF Descends
  <1>2. B \in [Nat -> S] /\ B[0] = x
        OBVIOUS
  <1>3. A \in Combines(Nat, S)
        BY DEF Combines
  <1>4. \A n \in Nat : L[n] = n \div d /\ n \div d \in Nat
        BY Halves
  <1>5. \A n \in Nat : \A u, v \in S : A[n][u][v] = G[n][u]
        OBVIOUS
  <1> HIDE DEF H, L, B, A
  <1>6. PICK f : Recurs(f, Nat, S, {0}, B, L, L, A)
        BY <1>1, <1>2, <1>3, Measured
  <1>7. f \in [Nat -> S] /\ f[0] = x
        BY <1>2, <1>6 DEF Recurs
  <1>8. ASSUME NEW n \in Nat \ {0} PROVE f[n] = G[n][f[n \div d]]
    <2>1. f[n] = A[n][f[L[n]]][f[L[n]]]
          BY <1>6 DEF Recurs
    <2> DEFINE v == f[n \div d]
    <2>2. v \in S
          BY <1>4, <1>7
    <2>3. f[n] = A[n][v][v]
          BY <1>4, <2>1
    <2> HIDE DEF v
    <2>4. A[n][v][v] = G[n][v]
          BY <1>5, <2>2
    <2> QED BY <2>3, <2>4 DEF v
  <1> QED BY <1>7, <1>8 DEF Divides

LEMMA HalfInduct ==
    ASSUME NEW P, 0 \in P, \A n \in Nat \ {0} : n \div 2 \in P => n \in P
    PROVE  Nat \subseteq P
  <1> DEFINE d == 2
  <1>1. d \in Nat /\ d >= 2 /\ \A n \in Nat \ {0} : n \div d \in P => n \in P
        OBVIOUS
  <1> HIDE DEF d
  <1> QED BY <1>1, DivInduct

LEMMA Quotient ==
    ASSUME NEW x \in Nat, NEW t \in Nat \ {0}
    PROVE  x \div t \in Nat /\ x \div t <= x
  <1>1. CASE t = 1
    <2>1. x = x * 1 + 0
          OBVIOUS
    <2>2. x \div 1 = x
          OBVIOUS
    <2> QED BY <1>1, <2>2
  <1>2. CASE t # 1
    <2>1. t >= 2
          BY <1>2
    <2>2. x \div t \in Nat /\ (x # 0 => x \div t < x)
          BY <2>1, Halves
    <2>3. CASE x = 0
      <3>1. 0 = 0 * t + 0 /\ 0 \in 0..t - 1
            OBVIOUS
      <3>2. (0 * t + 0) \div t = 0
            BY <3>1, DivMod
      <3> QED BY <2>3, <3>1, <3>2
    <2> QED BY <2>2, <2>3
  <1> QED BY <1>1, <1>2

(***************************************************************************)
(* Numbers with the same rest are a multiple apart.                        *)
(***************************************************************************)
Multiple(x, m) == \E z \in Int : x = z * m

LEMMA SameRest ==
    ASSUME NEW w \in Nat \ {0}, NEW a \in Int, NEW b \in Int
    PROVE  a % w = b % w <=> Multiple(a - b, w)
  <1> DEFINE p == a \div w
             q == b \div w
             r == a % w
             s == b % w
  <1>1. a = p * w + r /\ b = q * w + s /\ r \in 0..w - 1 /\ s \in 0..w - 1 /\ p \in Int /\ q \in Int
        BY ModBounds
  <1> HIDE DEF p, q, r, s
  <1>2. ASSUME r = s PROVE Multiple(a - b, w)
    <2>1. (p - q) * w = p * w - q * w /\ p - q \in Int /\ p * w \in Int /\ q * w \in Int
          BY <1>1
    <2> DEFINE y == p * w
               z == q * w
    <2>2. a = y + r /\ b = z + r /\ y \in Int /\ z \in Int /\ (p - q) * w = y - z
          BY <1>1, <1>2, <2>1
    <2> HIDE DEF y, z
    <2>3. a - b = (p - q) * w
          BY <1>1, <2>2
    <2> QED BY <2>1, <2>3 DEF Multiple
  <1>3. ASSUME Multiple(a - b, w) PROVE r = s
    <2>1. PICK z \in Int : a - b = z * w
          BY <1>3 DEF Multiple
    <2>2. a = (q + z) * w + s
      <3>1. (q + z) * w = q * w + z * w /\ q * w \in Int /\ z * w \in Int
            BY <1>1
      <3> DEFINE y == q * w
                 v == z * w
      <3>2. b = y + s /\ a - b = v /\ y \in Int /\ v \in Int /\ (q + z) * w = y + v
            BY <1>1, <2>1, <3>1
      <3> HIDE DEF y, v
      <3> QED BY <1>1, <3>2
    <2>3. ((q + z) * w + s) % w = s
      <3>1. q + z \in Int
            BY <1>1
      <3> QED BY <1>1, <3>1, DivMod
    <2> QED BY <2>2, <2>3 DEF r
  <1> QED BY <1>2, <1>3 DEF r, s

LEMMA SmallRest ==
    ASSUME NEW w \in Nat \ {0}, NEW a \in 0..w - 1
    PROVE  a % w = a
  <1>1. a = 0 * w + a
        OBVIOUS
  <1> QED BY <1>1, DivMod
=============================================================================
