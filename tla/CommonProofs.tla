---------------------------- MODULE CommonProofs ----------------------------
(***************************************************************************)
(* What the proofs about several programs need: facts about cutting and    *)
(* joining streams, and about work that every step brings nearer its end.  *)
(***************************************************************************)
EXTENDS Cuts, Descent, SequenceTheorems, FiniteSetTheorems, FunctionTheorems,
        TLAPS

(* Nothing goes down for ever: there is no endless sequence of tallies     *)
(* each of which is below the one before it.                               *)
LEMMA DownEnds == IsWellFoundedOn(Down, Tally)
<1>1. IsWellFoundedOn(OpToRel(<, Nat), Nat)
  BY NatLessThanWellFounded
<1> QED BY <1>1, WFLexProductOrdering DEF Down, Tally

LEMMA GoesDown ==
  ASSUME NEW a \in Nat, NEW b \in Nat, NEW c \in Nat,
         NEW d \in Nat, NEW e \in Nat, NEW f \in Nat, Lower(a, b, c, d, e, f)
  PROVE  << <<a, b, c>>, <<d, e, f>> >> \in Down
<1> DEFINE s == <<a, b, c>>
           t == <<d, e, f>>
<1>1. s \in Tally /\ t \in Tally
  BY DEF Tally
<1>2. s[1] = a /\ s[2] = b /\ s[3] = c /\ t[1] = d /\ t[2] = e /\ t[3] = f
  OBVIOUS
<1>3. \A x, y \in Nat : x < y => <<x, y>> \in OpToRel(<, Nat)
  BY DEF OpToRel
<1>4. 1 .. 1 - 1 = {} /\ 1 .. 2 - 1 = {1} /\ 1 .. 3 - 1 = {1, 2}
  OBVIOUS
<1>5. 1 \in 1 .. 3 /\ 2 \in 1 .. 3 /\ 3 \in 1 .. 3
  OBVIOUS
<1> HIDE DEF s, t
<1>6. \E j \in 1 .. 3 : /\ \A i \in 1 .. j - 1 : s[i] = t[i]
                        /\ <<s[j], t[j]>> \in OpToRel(<, Nat)
  <2>1. CASE a < d
    <3>1. <<s[1], t[1]>> \in OpToRel(<, Nat)
      BY <1>2, <1>3, <2>1, Zenon
    <3>2. \A i \in 1 .. 1 - 1 : s[i] = t[i]
      BY <1>4, Zenon
    <3> QED BY <1>5, <3>1, <3>2, Zenon
  <2>2. CASE a = d /\ b < e
    <3>1. <<s[2], t[2]>> \in OpToRel(<, Nat)
      BY <1>2, <1>3, <2>2, Zenon
    <3>2. \A i \in 1 .. 2 - 1 : s[i] = t[i]
      BY <1>2, <1>4, <2>2, Zenon
    <3> QED BY <1>5, <3>1, <3>2, Zenon
  <2>3. CASE a = d /\ b = e /\ c < f
    <3>1. <<s[3], t[3]>> \in OpToRel(<, Nat)
      BY <1>2, <1>3, <2>3, Zenon
    <3>2. \A i \in 1 .. 3 - 1 : s[i] = t[i]
      BY <1>2, <1>4, <2>3, Zenon
    <3> QED BY <1>5, <3>1, <3>2, Zenon
  <2> QED BY <2>1, <2>2, <2>3, Zenon DEF Lower
<1>7. <<s, t>> \in Down
  BY <1>1, <1>6, Zenon DEF Down, Tally, LexProductOrdering
<1> QED BY <1>7, Zenon DEF s, t

(* Of fewer things there are fewer.                                        *)
LEMMA FewerFacts ==
  ASSUME NEW T, IsFiniteSet(T), NEW S, S \subseteq T
  PROVE  /\ IsFiniteSet(S) /\ Cardinality(S) \in Nat /\ Cardinality(T) \in Nat
         /\ Cardinality(S) <= Cardinality(T)
         /\ S # T => Cardinality(S) < Cardinality(T)
<1>1. /\ IsFiniteSet(S) /\ Cardinality(S) <= Cardinality(T)
      /\ Cardinality(S) = Cardinality(T) => S = T
  BY FS_Subset
<1>2. Cardinality(S) \in Nat /\ Cardinality(T) \in Nat
  BY <1>1, FS_CardinalityType
<1> QED BY <1>1, <1>2

(* Ranks of which none rises and one falls are together less.              *)
LEMMA TotalFacts ==
  ASSUME NEW P, IsFiniteSet(P), NEW m \in Nat, NEW f
  PROVE  IsFiniteSet(Under(P, m, f)) /\ Total(P, m, f) \in Nat
<1>1. IsFiniteSet(1 .. m)
  BY FS_Interval
<1>2. IsFiniteSet(P \X (1 .. m))
  BY <1>1, FS_Product
<1>3. Under(P, m, f) \subseteq P \X (1 .. m)
  BY DEF Under
<1> QED BY <1>2, <1>3, FewerFacts DEF Total

LEMMA TotalFalls ==
  ASSUME NEW P, IsFiniteSet(P), NEW m \in Nat,
         NEW f \in [P -> 0 .. m], NEW g \in [P -> 0 .. m],
         \A p \in P : g[p] <= f[p], NEW q \in P, g[q] < f[q]
  PROVE  Total(P, m, g) < Total(P, m, f)
<1>1. ASSUME NEW x \in Under(P, m, g) PROVE x \in Under(P, m, f)
  <2>1. x \in P \X (1 .. m) /\ x[2] <= g[x[1]]
    BY DEF Under
  <2>2. x[1] \in P /\ x[2] \in 1 .. m
    BY ONLY <2>1
  <2>3. g[x[1]] \in 0 .. m /\ f[x[1]] \in 0 .. m /\ g[x[1]] <= f[x[1]]
    BY <2>2
  <2>4. x[2] <= f[x[1]]
    BY ONLY m \in Nat, <2>1, <2>2, <2>3
  <2> QED BY <2>1, <2>4 DEF Under
<1>2. f[q] \in 1 .. m /\ ~(f[q] <= g[q])
  <2>1. f[q] \in 0 .. m /\ g[q] \in 0 .. m /\ g[q] < f[q]
    OBVIOUS
  <2> QED BY ONLY m \in Nat, <2>1
<1>3. <<q, f[q]>> \in P \X (1 .. m)
  BY <1>2
<1>4. <<q, f[q]>> \in Under(P, m, f)
  <2>1. <<q, f[q]>>[2] <= f[<<q, f[q]>>[1]]
    BY <1>2
  <2> QED BY <1>3, <2>1 DEF Under
<1>5. <<q, f[q]>> \notin Under(P, m, g)
  BY <1>2 DEF Under
<1>6. Under(P, m, g) \subseteq Under(P, m, f) /\ Under(P, m, g) # Under(P, m, f)
  BY <1>1, <1>4, <1>5, Zenon
<1>7. IsFiniteSet(Under(P, m, f))
  BY TotalFacts
<1> QED BY <1>6, <1>7, FewerFacts DEF Total

-----------------------------------------------------------------------------
(* Lengths and elements of parts and joins of streams.                     *)
LEMMA PartFacts ==
  ASSUME NEW S, NEW s \in Seq(S), NEW m \in Nat \ {0}, NEW n \in 0 .. Len(s), m <= n + 1
  PROVE  /\ SubSeq(s, m, n) \in Seq(S) /\ Len(SubSeq(s, m, n)) = n - m + 1
         /\ \A i \in 1 .. n - m + 1 : SubSeq(s, m, n)[i] = s[m + i - 1]
<1>1. Len(s) \in Nat /\ \A i \in 1 .. Len(s) : s[i] \in S
  BY LenProperties, ElementOfSeq
<1>2. m \in Int /\ n \in Int /\ \A i \in m .. n : s[i] \in S
  BY <1>1
<1>3. /\ SubSeq(s, m, n) \in Seq(S)
      /\ Len(SubSeq(s, m, n)) = IF m <= n THEN n - m + 1 ELSE 0
      /\ \A i \in 1 .. n - m + 1 : SubSeq(s, m, n)[i] = s[m + i - 1]
  BY <1>2, SubSeqProperties
<1> QED BY <1>1, <1>3

LEMMA FromType ==
  ASSUME NEW S, NEW s \in Seq(S), NEW k \in Nat \ {0}
  PROVE  From(s, k) \in Seq(S)
<1>1. Len(s) \in Nat
  BY LenProperties
<1>2. CASE k <= Len(s)
  BY <1>1, <1>2, PartFacts DEF From
<1>3. CASE ~(k <= Len(s))
  <2>1. k \in Int /\ Len(s) \in Int /\ Len(s) < k
    BY <1>1, <1>3
  <2>2. SubSeq(s, k, Len(s)) = <<>>
    BY <2>1, SubSeqEmpty
  <2> QED BY <2>2 DEF From
<1> QED BY <1>2, <1>3

(* What is read and what is left are the whole.                            *)
LEMMA CutFacts ==
  ASSUME NEW S, NEW s \in Seq(S), NEW k \in 0 .. Len(s)
  PROVE  /\ First(s, k) \in Seq(S) /\ Len(First(s, k)) = k
         /\ From(s, k + 1) \in Seq(S) /\ Len(From(s, k + 1)) = Len(s) - k
         /\ First(s, k) \o From(s, k + 1) = s
<1>1. Len(s) \in Nat
  BY LenProperties
<1>2. /\ First(s, k) \in Seq(S) /\ Len(First(s, k)) = k
      /\ \A i \in 1 .. k : First(s, k)[i] = s[i]
  BY <1>1, PartFacts DEF First
<1>3. /\ From(s, k + 1) \in Seq(S) /\ Len(From(s, k + 1)) = Len(s) - k
      /\ \A i \in 1 .. Len(s) - k : From(s, k + 1)[i] = s[k + i]
  BY <1>1, PartFacts DEF From
<1> DEFINE w == First(s, k) \o From(s, k + 1)
<1>4. /\ w \in Seq(S) /\ Len(w) = Len(First(s, k)) + Len(From(s, k + 1))
      /\ \A i \in 1 .. Len(First(s, k)) + Len(From(s, k + 1)) :
           w[i] = IF i <= Len(First(s, k)) THEN First(s, k)[i]
                                            ELSE From(s, k + 1)[i - Len(First(s, k))]
  BY <1>2, <1>3, ConcatProperties
<1>5. Len(w) = Len(s)
  BY <1>1, <1>2, <1>3, <1>4
<1>6. ASSUME NEW i \in 1 .. Len(w) PROVE w[i] = s[i]
  <2>1. CASE i <= k
    BY <1>1, <1>2, <1>3, <1>4, <2>1
  <2>2. CASE i > k
    <3>1. i - k \in 1 .. Len(s) - k /\ k + (i - k) = i
      BY <1>1, <1>5, <2>2
    <3>2. w[i] = From(s, k + 1)[i - k]
      BY <1>1, <1>2, <1>3, <1>4, <2>2
    <3> QED BY <1>3, <3>1, <3>2
  <2> QED BY <1>1, <1>5, <2>1, <2>2
<1>7. w = s
  BY <1>4, <1>5, <1>6, SeqEqual
<1> QED BY <1>2, <1>3, <1>7

(* The parts of a whole can be cut out again.                              *)
LEMMA JoinFacts ==
  ASSUME NEW S, NEW s \in Seq(S), NEW t \in Seq(S)
  PROVE  /\ s \o t \in Seq(S) /\ Len(s \o t) = Len(s) + Len(t)
         /\ Len(s) \in Nat /\ Len(t) \in Nat
         /\ First(s \o t, Len(s)) = s
         /\ From(s \o t, Len(s) + 1) = t
<1>1. /\ s \o t \in Seq(S) /\ Len(s \o t) = Len(s) + Len(t)
      /\ \A i \in 1 .. Len(s) + Len(t) :
           (s \o t)[i] = IF i <= Len(s) THEN s[i] ELSE t[i - Len(s)]
      /\ Len(s) \in Nat /\ Len(t) \in Nat
  BY ConcatProperties, LenProperties
<1>2. /\ First(s \o t, Len(s)) \in Seq(S) /\ Len(First(s \o t, Len(s))) = Len(s)
      /\ \A i \in 1 .. Len(s) : First(s \o t, Len(s))[i] = (s \o t)[i]
  BY <1>1, PartFacts DEF First
<1>3. First(s \o t, Len(s)) = s
  BY <1>1, <1>2, SeqEqual
<1> DEFINE b == From(s \o t, Len(s) + 1)
<1>4. /\ b \in Seq(S) /\ Len(b) = Len(t)
      /\ \A i \in 1 .. Len(t) : b[i] = (s \o t)[Len(s) + i]
  BY <1>1, PartFacts DEF From
<1>5. ASSUME NEW i \in 1 .. Len(t) PROVE b[i] = t[i]
  <2>1. /\ Len(s) + i \in 1 .. Len(s) + Len(t) /\ ~(Len(s) + i <= Len(s))
        /\ (Len(s) + i) - Len(s) = i
    BY <1>1
  <2> QED BY <1>1, <1>4, <2>1
<1>6. b = t
  BY <1>4, <1>5, SeqEqual
<1> QED BY <1>1, <1>3, <1>6

(* What is read from the front of a whole is the front of its first part.  *)
LEMMA FrontFacts ==
  ASSUME NEW S, NEW s \in Seq(S), NEW t \in Seq(S), NEW k \in 0 .. Len(s)
  PROVE  k \in 0 .. Len(s \o t) /\ First(s \o t, k) = First(s, k)
<1>1. /\ s \o t \in Seq(S) /\ Len(s \o t) = Len(s) + Len(t)
      /\ \A i \in 1 .. Len(s) + Len(t) :
           (s \o t)[i] = IF i <= Len(s) THEN s[i] ELSE t[i - Len(s)]
      /\ Len(s) \in Nat /\ Len(t) \in Nat
  BY ConcatProperties, LenProperties
<1>2. k \in 0 .. Len(s \o t)
  BY <1>1
<1>3. /\ First(s \o t, k) \in Seq(S) /\ Len(First(s \o t, k)) = k
      /\ \A i \in 1 .. k : First(s \o t, k)[i] = (s \o t)[i]
  BY <1>1, <1>2, PartFacts DEF First
<1>4. /\ First(s, k) \in Seq(S) /\ Len(First(s, k)) = k
      /\ \A i \in 1 .. k : First(s, k)[i] = s[i]
  BY <1>1, PartFacts DEF First
<1>5. First(s \o t, k) = First(s, k)
  BY <1>1, <1>3, <1>4, SeqEqual
<1> QED BY <1>2, <1>5

-----------------------------------------------------------------------------
(* Places.                                                                 *)

(* Only one member of a finite set of numbers has k - 1 smaller ones.      *)
LEMMA KthIs ==
  ASSUME NEW P, IsFiniteSet(P), P \subseteq Int, NEW k, NEW p \in P,
         Cardinality({j \in P : j < p}) = k - 1
  PROVE  Kth(P, k) = p
<1> DEFINE below(x) == {j \in P : j < x}
<1>1. \A x \in P : IsFiniteSet(below(x))
  <2> TAKE x \in P
  <2>1. below(x) \in SUBSET P
    OBVIOUS
  <2> QED BY <2>1, FS_Subset
<1>2. ASSUME NEW x \in P, NEW y \in P, x < y PROVE Cardinality(below(x)) # Cardinality(below(y))
  <2>1. \A z \in P : z < x => z < y
    BY <1>2
  <2>2. below(x) \in SUBSET below(y)
    BY <2>1
  <2>3. x \in below(y) /\ x \notin below(x)
    BY <1>2
  <2>4. IsFiniteSet(below(y))
    BY <1>1
  <2> HIDE DEF below
  <2> QED BY <2>2, <2>3, <2>4, FS_Subset
<1>3. \A x \in P : Cardinality(below(x)) = k - 1 => x = p
  <2> SUFFICES ASSUME NEW x \in P, Cardinality(below(x)) = k - 1, x # p PROVE FALSE
    OBVIOUS
  <2>1. x < p \/ p < x
    OBVIOUS
  <2> QED BY <1>2, <2>1
<1> QED BY <1>3 DEF Kth

(* Every number up to their count has such a member, and they rise.        *)
LEMMA KthFacts ==
  ASSUME NEW P, IsFiniteSet(P), P \subseteq Int
  PROVE  /\ Cardinality(P) \in Nat
         /\ \A k \in 1 .. Cardinality(P) : Kth(P, k) \in P
         /\ \A k \in 1 .. Cardinality(P) - 1 : Kth(P, k) < Kth(P, k + 1)
<1> DEFINE below(x) == {j \in P : j < x}
           n == Cardinality(P)
           rank == [x \in P |-> Cardinality(below(x)) + 1]
<1>1. n \in Nat
  BY FS_CardinalityType
<1>2. ASSUME NEW x \in P
      PROVE  /\ IsFiniteSet(below(x)) /\ Cardinality(below(x)) \in Nat
             /\ Cardinality(below(x)) < n
  <2>1. below(x) \in SUBSET P /\ x \in P /\ x \notin below(x)
    OBVIOUS
  <2> HIDE DEF below
  <2>2. /\ IsFiniteSet(below(x)) /\ Cardinality(below(x)) <= n
        /\ Cardinality(below(x)) = n => below(x) = P
    BY <2>1, FS_Subset
  <2>3. Cardinality(below(x)) \in Nat
    BY <2>2, FS_CardinalityType
  <2> QED BY <1>1, <2>1, <2>2, <2>3
<1>3. ASSUME NEW x \in P, NEW y \in P, x <= y
      PROVE  /\ Cardinality(below(x)) <= Cardinality(below(y))
             /\ Cardinality(below(x)) = Cardinality(below(y)) => x = y
  <2>1. \A z \in P : z < x => z < y
    BY <1>3
  <2>2. below(x) \in SUBSET below(y) /\ (x # y => x \in below(y) /\ x \notin below(x))
    <3>1. below(x) \subseteq below(y)
      BY <2>1
    <3>2. x \in Int /\ y \in Int /\ (x # y => x < y) /\ ~(x < x)
      BY <1>3
    <3> QED BY <3>1, <3>2
  <2>3. IsFiniteSet(below(y))
    BY <1>2
  <2> HIDE DEF below
  <2>4. /\ Cardinality(below(x)) <= Cardinality(below(y))
        /\ Cardinality(below(x)) = Cardinality(below(y)) => below(x) = below(y)
    <3>1. below(x) \in SUBSET below(y)
      BY <2>2
    <3> QED BY <2>3, <3>1, FS_Subset, Zenon
  <2> QED BY <2>2, <2>4
<1> HIDE DEF below
<1>4. rank \in [P -> 1 .. n]
  <2>1. \A x \in P : Cardinality(below(x)) + 1 \in 1 .. n
    BY <1>1, <1>2
  <2> HIDE DEF n
  <2> QED BY <2>1
<1>5. ASSUME NEW x \in P, NEW y \in P, rank[x] = rank[y] PROVE x = y
  <2>1. Cardinality(below(x)) = Cardinality(below(y))
    BY <1>2, <1>5
  <2>2. x <= y \/ y <= x
    OBVIOUS
  <2> QED BY <1>3, <2>1, <2>2
<1>6. rank \in Injection(P, 1 .. n)
  <2> HIDE DEF rank
  <2> QED BY <1>4, <1>5 DEF Injection, IsInjective
<1>7. IsFiniteSet(1 .. n) /\ Cardinality(1 .. n) = n
  <2>1. 1 \in Int /\ n \in Int
    BY <1>1
  <2> HIDE DEF n
  <2>2. /\ IsFiniteSet(1 .. n)
        /\ Cardinality(1 .. n) = IF 1 > n THEN 0 ELSE n - 1 + 1
    BY <2>1, FS_Interval, Zenon
  <2>3. n \in Nat
    BY <1>1 DEF n
  <2> QED BY <2>2, <2>3
<1>8. rank \in Surjection(P, 1 .. n)
  <2>1. Cardinality(P) = Cardinality(1 .. n)
    BY <1>7
  <2> HIDE DEF rank, n
  <2> QED BY <1>6, <1>7, <2>1, FS_Injection
<1>9. ASSUME NEW k \in 1 .. n
      PROVE  Kth(P, k) \in P /\ Cardinality(below(Kth(P, k))) = k - 1
  <2>1. PICK p \in P : rank[p] = k
    <3> HIDE DEF rank, n
    <3> QED BY <1>8 DEF Surjection
  <2>2. Cardinality(below(p)) = k - 1
    BY <1>2, <2>1
  <2>3. Kth(P, k) = p
    BY <2>2, KthIs DEF below
  <2> QED BY <2>2, <2>3
<1>10. ASSUME NEW k \in 1 .. n - 1 PROVE Kth(P, k) < Kth(P, k + 1)
  <2>1. k \in 1 .. n /\ k + 1 \in 1 .. n
    BY <1>1
  <2>2. PICK p \in P, q \in P : /\ Kth(P, k) = p /\ Cardinality(below(p)) = k - 1
                               /\ Kth(P, k + 1) = q /\ Cardinality(below(q)) = k
    <3>1. /\ Kth(P, k) \in P /\ Cardinality(below(Kth(P, k))) = k - 1
          /\ Kth(P, k + 1) \in P /\ Cardinality(below(Kth(P, k + 1))) = (k + 1) - 1
      BY <1>9, <2>1
    <3>2. (k + 1) - 1 = k
      BY <2>1
    <3> QED BY <3>1, <3>2
  <2>3. ~(q <= p)
    <3>1. q <= p => k <= k - 1
      BY <1>3, <2>2
    <3> QED BY <2>1, <3>1
  <2>4. p \in Int /\ q \in Int
    OBVIOUS
  <2> QED BY <2>2, <2>3, <2>4
<1> QED BY <1>1, <1>9, <1>10 DEF n

(* f lists the m members of P in order: how many they are and which is the *)
(* k-th.                                                                   *)
Listed(f, m, P) == /\ f \in [1 .. m -> Int] /\ P = {f[k] : k \in 1 .. m}
                   /\ \A i, j \in 1 .. m : i < j => f[i] < f[j]

LEMMA ListedFacts ==
  ASSUME NEW m \in Nat, NEW f, NEW P, Listed(f, m, P)
  PROVE  IsFiniteSet(P) /\ Cardinality(P) = m /\ \A k \in 1 .. m : Kth(P, k) = f[k]
<1> USE DEF Listed
<1> DEFINE upto(n) == {f[i] : i \in 1 .. n}
<1>1. ASSUME NEW n \in 0 .. m PROVE IsFiniteSet(upto(n)) /\ Cardinality(upto(n)) = n
  <2> DEFINE g == [i \in 1 .. n |-> f[i]]
  <2>1. g \in [1 .. n -> upto(n)] /\ \A y \in upto(n) : \E i \in 1 .. n : g[i] = y
    OBVIOUS
  <2>2. \A i, j \in 1 .. n : g[i] = g[j] => i = j
    <3> SUFFICES ASSUME NEW i \in 1 .. n, NEW j \in 1 .. n, f[i] = f[j], i # j PROVE FALSE
      OBVIOUS
    <3>1. i \in 1 .. m /\ j \in 1 .. m /\ (i < j \/ j < i) /\ f[i] \in Int
      OBVIOUS
    <3> QED BY <3>1
  <2>3. g \in Bijection(1 .. n, upto(n))
    <3> HIDE DEF g, upto
    <3> QED BY <2>1, <2>2, Fun_IsBij
  <2>4. ExistsBijection(1 .. n, upto(n))
    BY <2>3 DEF ExistsBijection
  <2> HIDE DEF upto
  <2>5. IsFiniteSet(1 .. n) /\ Cardinality(1 .. n) = n
    <3>1. 1 \in Int /\ n \in Int /\ n \in Nat
      OBVIOUS
    <3>2. IsFiniteSet(1 .. n) /\ Cardinality(1 .. n) = IF 1 > n THEN 0 ELSE n - 1 + 1
      BY <3>1, FS_Interval, Zenon
    <3> QED BY <3>1, <3>2
  <2> QED BY <2>4, <2>5, FS_Bijection
<1>2. P = upto(m) /\ m \in 0 .. m /\ P \subseteq Int
  OBVIOUS
<1>3. IsFiniteSet(P) /\ Cardinality(P) = m
  BY <1>1, <1>2
<1>4. ASSUME NEW k \in 1 .. m PROVE Kth(P, k) = f[k]
  <2>1. {j \in P : j < f[k]} = upto(k - 1)
    <3>1. \A i \in 1 .. m : f[i] < f[k] <=> i \in 1 .. k - 1
      <4> SUFFICES ASSUME NEW i \in 1 .. m PROVE f[i] < f[k] <=> i \in 1 .. k - 1
        OBVIOUS
      <4>1. f[i] \in Int /\ f[k] \in Int /\ (i < k \/ i = k \/ k < i)
        OBVIOUS
      <4> QED BY <4>1
    <3> QED BY <3>1
  <2>2. k - 1 \in 0 .. m
    OBVIOUS
  <2>3. Cardinality({j \in P : j < f[k]}) = k - 1
    <3> HIDE DEF upto
    <3> QED BY <1>1, <2>1, <2>2
  <2>4. f[k] \in P
    OBVIOUS
  <2> QED BY <1>2, <1>3, <2>3, <2>4, KthIs
<1> QED BY <1>3, <1>4

-----------------------------------------------------------------------------
(* Streams of numbered bytes.                                              *)

Typed(s) == {i \in 1 .. Len(s) : s[i] > Junk}

(* Of the bytes somebody typed s holds those from a + 1 to b, in order.    *)
InOrder(s, a, b) ==
  /\ a <= b
  /\ \A i \in Typed(s) : s[i] \in a + 1 .. b
  /\ \A v \in a + 1 .. b : \E i \in Typed(s) : s[i] = v
  /\ \A i, j \in Typed(s) : i < j => s[i] < s[j]

LEMMA InOrderCount ==
  ASSUME NEW s \in Seq(Int), NEW a \in Nat, NEW b \in Nat, InOrder(s, a, b),
         NEW p, NEW v \in a .. b, \A j \in Typed(s) : j < p <=> s[j] <= v
  PROVE  /\ IsFiniteSet({j \in Typed(s) : j < p})
         /\ Cardinality({j \in Typed(s) : j < p}) = v - a
<1> DEFINE below == {j \in Typed(s) : j < p}
           f == [j \in below |-> s[j]]
<1>1. Len(s) \in Nat /\ IsFiniteSet(1 .. Len(s)) /\ below \in SUBSET (1 .. Len(s))
  BY LenProperties, FS_Interval DEF Typed
<1>2. IsFiniteSet(below)
  BY <1>1, FS_Subset
<1>3. \A j \in Typed(s) : j \in Nat /\ s[j] \in Int
  BY <1>1, ElementOfSeq DEF Typed
<1>4. f \in [below -> a + 1 .. v]
  BY <1>3 DEF InOrder
<1>5. \A x, y \in below : f[x] = f[y] => x = y
  <2> SUFFICES ASSUME NEW x \in below, NEW y \in below, s[x] = s[y], x # y PROVE FALSE
    OBVIOUS
  <2>1. x < y \/ y < x
    BY <1>3
  <2>2. s[x] \in Int /\ s[y] \in Int /\ (s[x] < s[y] \/ s[y] < s[x])
    BY <1>3, <2>1 DEF InOrder
  <2> QED BY <2>2
<1>6. ASSUME NEW w \in a + 1 .. v PROVE \E x \in below : f[x] = w
  <2>1. w \in a + 1 .. b /\ w <= v
    OBVIOUS
  <2>2. PICK x \in Typed(s) : s[x] = w
    BY <2>1 DEF InOrder
  <2>3. x \in below
    BY <2>1, <2>2
  <2> QED BY <2>2, <2>3
<1>7. f \in Bijection(below, a + 1 .. v)
  <2> HIDE DEF below, f
  <2> QED BY <1>4, <1>5, <1>6, Fun_IsBij
<1>8. ExistsBijection(below, a + 1 .. v)
  BY <1>7 DEF ExistsBijection
<1>9. Cardinality(a + 1 .. v) = v - a
  <2>1. a + 1 \in Int /\ v \in Int /\ a <= v
    OBVIOUS
  <2>2. Cardinality(a + 1 .. v) = IF a + 1 > v THEN 0 ELSE v - (a + 1) + 1
    BY <2>1, FS_Interval, Zenon
  <2> QED BY <2>1, <2>2
<1> HIDE DEF below, f
<1>10. Cardinality(a + 1 .. v) = Cardinality(below)
  BY <1>2, <1>8, FS_Bijection
<1> QED BY <1>2, <1>9, <1>10 DEF below

(* What is in order is the same once what nobody typed is left out.        *)
LEMMA InOrderClean ==
  ASSUME NEW s \in Seq(Int), NEW a \in Nat, NEW b \in Nat, InOrder(s, a, b)
  PROVE  Clean(s) = [i \in 1 .. b - a |-> a + i]
<1> DEFINE P == Typed(s)
<1>1. Len(s) \in Nat /\ DOMAIN s = 1 .. Len(s)
  BY LenProperties
<1>2. \A j \in P : j \in Nat /\ j < Len(s) + 1 /\ s[j] \in Int /\ s[j] <= b
  BY <1>1, ElementOfSeq DEF Typed, InOrder
<1>3. P = {j \in P : j < Len(s) + 1} /\ b \in a .. b
  BY <1>2 DEF InOrder
<1>4. IsFiniteSet(P) /\ Cardinality(P) = b - a
  <2>1. \A j \in Typed(s) : j < Len(s) + 1 <=> s[j] <= b
    BY <1>2
  <2>2. /\ IsFiniteSet({j \in Typed(s) : j < Len(s) + 1})
        /\ Cardinality({j \in Typed(s) : j < Len(s) + 1}) = b - a
    BY <1>3, <2>1, InOrderCount
  <2> QED BY <1>3, <2>2
<1>5. ASSUME NEW i \in 1 .. b - a PROVE s[Kth(P, i)] = a + i
  <2>1. PICK p \in P : s[p] = a + i
    BY DEF InOrder
  <2>2. ASSUME NEW j \in P PROVE j < p <=> s[j] <= a + i - 1
    <3>1. j < p => s[j] < s[p]
      BY DEF InOrder
    <3>2. p < j => s[p] < s[j]
      BY DEF InOrder
    <3>3. /\ j \in Nat /\ p \in Nat /\ s[j] \in Int /\ s[p] \in Int
          /\ a + i \in Int /\ a + i - 1 = (a + i) - 1
      BY <1>2
    <3>4. s[j] <= a + i - 1 <=> s[j] < s[p]
      BY ONLY <2>1, <3>3
    <3>5. j = p => ~(s[j] < s[p])
      BY ONLY <3>3
    <3> QED BY ONLY <3>1, <3>2, <3>3, <3>4, <3>5
  <2>3. a + i - 1 \in a .. b
    BY DEF InOrder
  <2>4. Cardinality({j \in P : j < p}) = (a + i - 1) - a
    <3> DEFINE v == a + i - 1
    <3>1. v \in a .. b /\ \A j \in P : j < p <=> s[j] <= v
      BY <2>2, <2>3
    <3> HIDE DEF v
    <3>2. Cardinality({j \in P : j < p}) = v - a
      BY <3>1, InOrderCount
    <3> QED BY <3>2 DEF v
  <2>5. P \subseteq Int /\ (a + i - 1) - a = i - 1
    BY <1>2
  <2>6. Kth(P, i) = p
    BY <1>4, <2>4, <2>5, KthIs
  <2> QED BY <2>1, <2>6
<1>6. {i \in DOMAIN s : s[i] > Junk} = P
  BY <1>1 DEF Typed
<1>7. Clean(s) = [k \in 1 .. b - a |-> s[Kth(P, k)]]
  BY <1>4, <1>6 DEF Clean, Picked
<1> HIDE DEF P
<1> QED BY <1>5, <1>7

Rising(s) == \A i, j \in Typed(s) : i < j => s[i] < s[j]

(* What rises does so without what nobody typed.                           *)
LEMMA RisingClean ==
  ASSUME NEW s \in Seq(Int), Rising(s)
  PROVE  \A i \in 1 .. Len(Clean(s)) - 1 : Clean(s)[i] < Clean(s)[i + 1]
<1> DEFINE P == Typed(s)
<1>1. Len(s) \in Nat /\ DOMAIN s = 1 .. Len(s)
  BY LenProperties
<1>2. IsFiniteSet(P) /\ P \subseteq Int
  <2>1. P \in SUBSET (1 .. Len(s)) /\ IsFiniteSet(1 .. Len(s))
    BY <1>1, FS_Interval DEF Typed
  <2> QED BY <1>1, <2>1, FS_Subset
<1>3. {i \in DOMAIN s : s[i] > Junk} = P
  BY <1>1 DEF Typed
<1> DEFINE n == Cardinality(P)
<1>4. /\ n \in Nat /\ \A k \in 1 .. n : Kth(P, k) \in P
      /\ \A k \in 1 .. n - 1 : Kth(P, k) < Kth(P, k + 1)
  BY <1>2, KthFacts
<1>5. Clean(s) = [k \in 1 .. n |-> s[Kth(P, k)]]
  BY <1>3 DEF Clean, Picked
<1> HIDE DEF n, P
<1>6. Len(Clean(s)) = n
  BY <1>4, <1>5
<1>7. ASSUME NEW i \in 1 .. n - 1 PROVE Clean(s)[i] < Clean(s)[i + 1]
  <2>1. i \in 1 .. n /\ i + 1 \in 1 .. n
    BY <1>4
  <2>2. s[Kth(P, i)] < s[Kth(P, i + 1)]
    BY <1>4, <2>1 DEF Rising, P
  <2> QED BY <1>5, <2>1, <2>2
<1> QED BY <1>6, <1>7

LEMMA InOrderNone ==
  ASSUME NEW a \in Nat, NEW n \in Nat
  PROVE  /\ [i \in 1 .. n |-> Junk] \in Seq(Nat) /\ Len([i \in 1 .. n |-> Junk]) = n
         /\ InOrder([i \in 1 .. n |-> Junk], a, a)
<1> DEFINE s == [i \in 1 .. n |-> Junk]
<1>1. s \in Seq(Nat) /\ Len(s) = n
  BY SeqDef, LenProperties DEF Junk
<1>2. Typed(s) = {}
  BY <1>1 DEF Typed, Junk
<1> HIDE DEF s
<1>3. InOrder(s, a, a)
  BY <1>2 DEF InOrder
<1> QED BY <1>1, <1>3 DEF s

LEMMA InOrderEmpty ==
  ASSUME NEW a \in Nat
  PROVE  InOrder(<<>>, a, a)
<1>1. Typed(<<>>) = {}
  BY EmptySeq DEF Typed
<1> QED BY <1>1 DEF InOrder

LEMMA InOrderNil ==
  ASSUME NEW a \in Nat, NEW b \in Nat, InOrder(<<>>, a, b)
  PROVE  a = b
<1>1. Typed(<<>>) = {}
  BY EmptySeq DEF Typed
<1>2. a <= b /\ (a < b => b \in a + 1 .. b)
  BY DEF InOrder
<1> QED BY <1>1, <1>2 DEF InOrder

(* What is typed next.                                                     *)
LEMMA InOrderNext ==
  ASSUME NEW a \in Nat, NEW k \in Nat
  PROVE  /\ [i \in 1 .. k |-> a + i] \in Seq(Nat) /\ Len([i \in 1 .. k |-> a + i]) = k
         /\ InOrder([i \in 1 .. k |-> a + i], a, a + k)
<1> DEFINE s == [i \in 1 .. k |-> a + i]
<1>1. s \in [1 .. k -> Nat]
  OBVIOUS
<1>2. s \in Seq(Nat) /\ Len(s) = k /\ \A i \in 1 .. k : s[i] = a + i
  BY <1>1, SeqDef, LenProperties
<1> HIDE DEF s
<1>3. Typed(s) = 1 .. k
  BY <1>2 DEF Typed, Junk
<1>4. \A v \in a + 1 .. a + k : v - a \in 1 .. k /\ s[v - a] = v
  BY <1>2
<1>5. a <= a + k /\ \A i \in 1 .. k : s[i] \in a + 1 .. a + k
  BY <1>2
<1>6. \A i, j \in 1 .. k : i < j => s[i] < s[j]
  BY <1>2
<1>7. InOrder(s, a, a + k)
  BY <1>3, <1>4, <1>5, <1>6 DEF InOrder
<1> QED BY <1>2, <1>7 DEF s

LEMMA TypedJoin ==
  ASSUME NEW s \in Seq(Int), NEW t \in Seq(Int)
  PROVE  /\ Typed(s \o t) = Typed(s) \cup {Len(s) + i : i \in Typed(t)}
         /\ Len(s) \in Nat /\ Typed(s) \subseteq 1 .. Len(s) /\ Typed(t) \subseteq Nat \ {0}
         /\ \A i \in Typed(s) : (s \o t)[i] = s[i] /\ s[i] \in Int
         /\ \A i \in Typed(t) : (s \o t)[Len(s) + i] = t[i] /\ t[i] \in Int
<1> DEFINE w == s \o t
<1>1. Len(s) \in Nat /\ Len(t) \in Nat
  BY LenProperties
<1>2. w \in Seq(Int) /\ Len(w) = Len(s) + Len(t)
  BY ConcatProperties
<1>3. \A i \in 1 .. Len(s) : w[i] = s[i] /\ s[i] \in Int
  BY <1>1, ConcatProperties, ElementOfSeq
<1>4. ASSUME NEW i \in 1 .. Len(t) PROVE w[Len(s) + i] = t[i] /\ t[i] \in Int
  <2>1. Len(s) + i \in 1 .. Len(s) + Len(t) /\ ~(Len(s) + i <= Len(s)) /\ (Len(s) + i) - Len(s) = i
    BY <1>1
  <2> QED BY <2>1, ConcatProperties, ElementOfSeq
<1> HIDE DEF w
<1>5. ASSUME NEW i \in 1 .. Len(w) PROVE i \in 1 .. Len(s) \/ i - Len(s) \in 1 .. Len(t)
  BY <1>1, <1>2
<1>6. Typed(w) \subseteq Typed(s) \cup {Len(s) + i : i \in Typed(t)}
  <2> SUFFICES ASSUME NEW x \in Typed(w)
               PROVE  x \in Typed(s) \cup {Len(s) + i : i \in Typed(t)}
    OBVIOUS
  <2>1. CASE x \in 1 .. Len(s)
    BY <2>1, <1>3 DEF Typed
  <2>2. CASE x - Len(s) \in 1 .. Len(t)
    <3>1. x \in Int /\ Len(s) + (x - Len(s)) = x
      BY <1>1 DEF Typed
    <3>2. x - Len(s) \in Typed(t)
      BY <1>4, <2>2, <3>1 DEF Typed
    <3> QED BY <3>1, <3>2
  <2> QED BY <1>5, <2>1, <2>2 DEF Typed
<1>7. Typed(s) \cup {Len(s) + i : i \in Typed(t)} \subseteq Typed(w)
  <2>1. ASSUME NEW x \in Typed(s) PROVE x \in Typed(w)
    <3>1. x \in 1 .. Len(s) /\ w[x] = s[x] /\ x \in 1 .. Len(w)
      BY <1>1, <1>2, <1>3 DEF Typed
    <3> QED BY <3>1 DEF Typed
  <2>2. ASSUME NEW i \in Typed(t) PROVE Len(s) + i \in Typed(w)
    <3>1. i \in 1 .. Len(t) /\ Len(s) + i \in 1 .. Len(w)
      BY <1>1, <1>2 DEF Typed
    <3>2. w[Len(s) + i] = t[i]
      BY <3>1, <1>4
    <3> QED BY <3>1, <3>2 DEF Typed
  <2> QED BY <2>1, <2>2
<1>8. Typed(w) = Typed(s) \cup {Len(s) + i : i \in Typed(t)}
  BY <1>6, <1>7
<1> QED BY <1>1, <1>3, <1>4, <1>8 DEF Typed, w

LEMMA InOrderJoin ==
  ASSUME NEW s \in Seq(Int), NEW t \in Seq(Int), NEW a \in Nat, NEW b \in Nat, NEW c \in Nat,
         InOrder(s, a, b), InOrder(t, b, c)
  PROVE  InOrder(s \o t, a, c)
<1> DEFINE w == s \o t
<1>1. /\ Typed(w) = Typed(s) \cup {Len(s) + i : i \in Typed(t)}
      /\ Len(s) \in Nat /\ Typed(s) \subseteq 1 .. Len(s) /\ Typed(t) \subseteq Nat \ {0}
      /\ \A i \in Typed(s) : w[i] = s[i] /\ s[i] \in Int
      /\ \A i \in Typed(t) : w[Len(s) + i] = t[i] /\ t[i] \in Int
  BY TypedJoin
<1> HIDE DEF w
<1>2. a <= c
  BY DEF InOrder
<1>3. \A i \in Typed(w) : w[i] \in a + 1 .. c
  <2>1. ASSUME NEW i \in Typed(s) PROVE w[i] \in a + 1 .. c
    <3>1. w[i] = s[i] /\ s[i] \in a + 1 .. b /\ b <= c
      BY <1>1 DEF InOrder
    <3> QED BY ONLY <3>1
  <2>2. ASSUME NEW i \in Typed(t) PROVE w[Len(s) + i] \in a + 1 .. c
    <3>1. w[Len(s) + i] = t[i] /\ t[i] \in b + 1 .. c /\ a <= b
      BY <1>1 DEF InOrder
    <3> QED BY ONLY <3>1
  <2> QED BY ONLY <1>1, <2>1, <2>2
<1>4. ASSUME NEW v \in a + 1 .. c PROVE \E i \in Typed(w) : w[i] = v
  <2>1. CASE v \in a + 1 .. b
    <3>1. PICK i \in Typed(s) : s[i] = v
      BY <2>1 DEF InOrder
    <3> QED BY <1>1, <3>1
  <2>2. CASE v \in b + 1 .. c
    <3>1. PICK i \in Typed(t) : t[i] = v
      BY <2>2 DEF InOrder
    <3> QED BY <1>1, <3>1
  <2> QED BY <2>1, <2>2
<1>5. ASSUME NEW i \in Typed(w), NEW j \in Typed(w), i < j PROVE w[i] < w[j]
  <2>1. CASE i \in Typed(s) /\ j \in Typed(s)
    BY <1>1, <1>5, <2>1 DEF InOrder
  <2>2. CASE i \in Typed(s) /\ j \notin Typed(s)
    <3>1. PICK y \in Typed(t) : j = Len(s) + y
      BY <1>1, <2>2
    <3>2. w[i] = s[i] /\ w[j] = t[y]
      BY <1>1, <2>2, <3>1
    <3>3. s[i] \in a + 1 .. b /\ t[y] \in b + 1 .. c
      BY <2>2 DEF InOrder
    <3> QED BY <3>2, <3>3
  <2>3. CASE i \notin Typed(s) /\ j \notin Typed(s)
    <3>1. PICK x \in Typed(t) : i = Len(s) + x
      BY <1>1, <2>3
    <3>2. PICK y \in Typed(t) : j = Len(s) + y
      BY <1>1, <2>3
    <3>3. x < y
      BY <1>1, <1>5, <3>1, <3>2
    <3> QED BY <1>1, <3>1, <3>2, <3>3 DEF InOrder
  <2>4. CASE i \notin Typed(s) /\ j \in Typed(s)
    <3>1. PICK x \in Typed(t) : i = Len(s) + x
      BY <1>1, <2>4
    <3> QED BY <1>1, <1>5, <2>4, <3>1
  <2> QED BY <2>1, <2>2, <2>3, <2>4
<1> QED BY <1>2, <1>3, <1>4, <1>5 DEF InOrder, w

LEMMA NatsAreInts == \A s \in Seq(Nat) : s \in Seq(Int)
<1> SUFFICES ASSUME NEW s \in Seq(Nat) PROVE s \in Seq(Int)
  OBVIOUS
<1>1. Nat \subseteq Int
  OBVIOUS
<1> QED BY <1>1, SeqMonotonic

(* A stream in order can be cut anywhere.                                  *)
LEMMA InOrderCut ==
  ASSUME NEW s \in Seq(Int), NEW t \in Seq(Int), NEW a \in Nat, NEW c \in Nat,
         InOrder(s \o t, a, c)
  PROVE  \E b \in Nat : InOrder(s, a, b) /\ InOrder(t, b, c)
<1> DEFINE w == s \o t
<1>1. /\ Typed(w) = Typed(s) \cup {Len(s) + i : i \in Typed(t)}
      /\ Len(s) \in Nat /\ Typed(s) \subseteq 1 .. Len(s) /\ Typed(t) \subseteq Nat \ {0}
      /\ \A i \in Typed(s) : w[i] = s[i] /\ s[i] \in Int
      /\ \A i \in Typed(t) : w[Len(s) + i] = t[i] /\ t[i] \in Int
  BY TypedJoin
<1>2. /\ a <= c
      /\ \A i \in Typed(w) : w[i] \in a + 1 .. c
      /\ \A v \in a + 1 .. c : \E i \in Typed(w) : w[i] = v
      /\ \A i, j \in Typed(w) : i < j => w[i] < w[j]
  BY DEF InOrder
<1> HIDE DEF w
<1> DEFINE Bounds == {x \in a .. c : \A i \in Typed(s) : s[i] <= x}
<1>3. Bounds \subseteq Nat /\ c \in Bounds
  BY <1>1, <1>2
<1>4. PICK b \in Bounds : \A x \in Bounds : ~(x < b)
  <2>1. PICK b \in Bounds : \A x \in Bounds : <<x, b>> \notin OpToRel(<, Nat)
    BY <1>3, WFMin, NatLessThanWellFounded
  <2>2. \A x \in Bounds : <<x, b>> \in Nat \X Nat
    BY <1>3
  <2>3. \A x \in Bounds : ~(x < b)
    BY <2>1, <2>2 DEF OpToRel
  <2> QED BY <2>3
<1>5. b \in a .. c /\ b \in Nat /\ \A i \in Typed(s) : s[i] <= b
  BY <1>3
<1>6. b = a \/ \E i \in Typed(s) : s[i] = b
  <2> SUFFICES ASSUME b # a, \A i \in Typed(s) : s[i] # b PROVE FALSE
    OBVIOUS
  <2>1. b - 1 \in a .. c /\ b - 1 < b
    BY <1>5
  <2>2. \A i \in Typed(s) : s[i] <= b - 1
    BY <1>1, <1>5
  <2> QED BY <1>4, <2>1, <2>2
<1> HIDE DEF Bounds
<1>7. \A i \in Typed(s) : s[i] \in a + 1 .. b
  BY <1>1, <1>2, <1>5
<1>8. \A i \in Typed(t) : t[i] \in b + 1 .. c
  <2> SUFFICES ASSUME NEW i \in Typed(t) PROVE t[i] \in b + 1 .. c
    OBVIOUS
  <2>1. Len(s) + i \in Typed(w) /\ w[Len(s) + i] = t[i] /\ t[i] \in a + 1 .. c
    BY <1>1, <1>2
  <2>2. CASE b = a
    BY <2>1, <2>2
  <2>3. CASE \E j \in Typed(s) : s[j] = b
    <3>1. PICK j \in Typed(s) : s[j] = b
      BY <2>3
    <3>2. j \in Typed(w) /\ j < Len(s) + i /\ w[j] = b
      BY <1>1, <3>1
    <3>3. b < t[i]
      BY <1>2, <2>1, <3>2
    <3> QED BY <1>5, <2>1, <3>3
  <2> QED BY <1>6, <2>2, <2>3
<1>9. \A v \in a + 1 .. b : \E i \in Typed(s) : s[i] = v
  <2> SUFFICES ASSUME NEW v \in a + 1 .. b PROVE \E i \in Typed(s) : s[i] = v
    OBVIOUS
  <2>0. v \in a + 1 .. c
    BY <1>5
  <2>1. PICK i \in Typed(w) : w[i] = v
    BY <1>2, <2>0, Zenon
  <2>2. ASSUME NEW j \in Typed(t), i = Len(s) + j PROVE FALSE
    <3>1. t[j] = v /\ t[j] \in b + 1 .. c
      BY <1>1, <1>8, <2>1, <2>2
    <3> QED BY <1>5, <3>1
  <2> QED BY <1>1, <2>1, <2>2
<1>10. \A v \in b + 1 .. c : \E i \in Typed(t) : t[i] = v
  <2> SUFFICES ASSUME NEW v \in b + 1 .. c PROVE \E i \in Typed(t) : t[i] = v
    OBVIOUS
  <2>0. v \in a + 1 .. c
    BY <1>5
  <2>1. PICK i \in Typed(w) : w[i] = v
    BY <1>2, <2>0, Zenon
  <2>2. ASSUME i \in Typed(s) PROVE FALSE
    <3>1. s[i] = v
      BY <1>1, <2>1, <2>2
    <3>2. v <= b /\ v >= b + 1 /\ b \in Nat
      BY <1>5, <2>2, <3>1
    <3> QED BY ONLY <3>2
  <2>3. PICK j \in Typed(t) : i = Len(s) + j
    BY <1>1, <2>1, <2>2
  <2> QED BY <1>1, <2>1, <2>3
<1>11. \A i, j \in Typed(s) : i < j => s[i] < s[j]
  BY <1>1, <1>2
<1>12. \A i, j \in Typed(t) : i < j => t[i] < t[j]
  <2> SUFFICES ASSUME NEW i \in Typed(t), NEW j \in Typed(t), i < j PROVE t[i] < t[j]
    OBVIOUS
  <2>1. Len(s) + i < Len(s) + j
    BY <1>1
  <2>2. Len(s) + i \in Typed(w) /\ Len(s) + j \in Typed(w)
    BY <1>1
  <2> QED BY <1>1, <1>2, <2>1, <2>2
<1>13. InOrder(s, a, b) /\ InOrder(t, b, c)
  BY <1>5, <1>7, <1>8, <1>9, <1>10, <1>11, <1>12 DEF InOrder
<1> QED BY <1>5, <1>13

(* All that was typed, and a first part of it.                             *)
LEMMA AllTyped ==
  ASSUME NEW m \in Nat, NEW n \in Nat, m <= n
  PROVE  /\ [i \in 1 .. n |-> i] \in Seq(Nat) /\ Len([i \in 1 .. n |-> i]) = n
         /\ First([i \in 1 .. n |-> i], m) = [i \in 1 .. m |-> i]
         /\ [i \in 1 .. m |-> i] \o [i \in 1 .. n - m |-> m + i] = [i \in 1 .. n |-> i]
<1> DEFINE s == [i \in 1 .. n |-> i]
           t == [i \in 1 .. m |-> i]
           u == [i \in 1 .. n - m |-> m + i]
<1>1. /\ s \in Seq(Nat) /\ Len(s) = n /\ \A i \in 1 .. n : s[i] = i
      /\ t \in Seq(Nat) /\ Len(t) = m /\ \A i \in 1 .. m : t[i] = i
  <2>1. s \in [1 .. n -> Nat] /\ t \in [1 .. m -> Nat]
    OBVIOUS
  <2> QED BY <2>1, SeqDef, LenProperties
<1>2. u \in Seq(Nat) /\ Len(u) = n - m /\ \A i \in 1 .. n - m : u[i] = m + i
  <2>1. u \in [1 .. n - m -> Nat] /\ n - m \in Nat
    OBVIOUS
  <2> QED BY <2>1, SeqDef, LenProperties
<1> HIDE DEF s, t, u
<1>3. /\ First(s, m) \in Seq(Nat) /\ Len(First(s, m)) = m
      /\ \A i \in 1 .. m : First(s, m)[i] = s[i]
  <2>1. m \in 0 .. Len(s) /\ 1 \in Nat \ {0} /\ 1 <= m + 1
    BY <1>1
  <2> QED BY <1>1, <2>1, PartFacts DEF First
<1>4. First(s, m) = t
  <2> DEFINE f == First(s, m)
  <2>1. /\ f \in Seq(Nat) /\ t \in Seq(Nat) /\ Len(f) = Len(t)
        /\ \A i \in 1 .. Len(f) : f[i] = t[i]
    BY <1>1, <1>3
  <2> HIDE DEF f
  <2>2. f = t
    BY ONLY <2>1, SeqEqual
  <2> QED BY <2>2 DEF f
<1>5. /\ t \o u \in Seq(Nat) /\ Len(t \o u) = n
      /\ \A i \in 1 .. n : (t \o u)[i] = IF i <= m THEN t[i] ELSE u[i - m]
  <2>1. t \in Seq(Nat) /\ u \in Seq(Nat) /\ Len(t) = m /\ Len(t) + Len(u) = n
    BY <1>1, <1>2
  <2>2. /\ t \o u \in Seq(Nat) /\ Len(t \o u) = Len(t) + Len(u)
        /\ \A i \in 1 .. Len(t) + Len(u) :
             (t \o u)[i] = IF i <= Len(t) THEN t[i] ELSE u[i - Len(t)]
    BY ONLY <2>1, ConcatProperties
  <2> QED BY ONLY <2>1, <2>2
<1>6. \A i \in 1 .. n : (t \o u)[i] = i
  <2> SUFFICES ASSUME NEW i \in 1 .. n PROVE (t \o u)[i] = i
    OBVIOUS
  <2>1. CASE i <= m
    <3>1. (t \o u)[i] = t[i] /\ i \in 1 .. m
      BY <1>5, <2>1
    <3> QED BY ONLY <1>1, <3>1
  <2>2. CASE ~(i <= m)
    <3>1. (t \o u)[i] = u[i - m]
      BY <1>5, <2>2
    <3>2. i - m \in 1 .. n - m /\ m + (i - m) = i
      BY <2>2
    <3> QED BY ONLY <1>2, <3>1, <3>2
  <2> QED BY <2>1, <2>2
<1>7. t \o u = s
  BY <1>1, <1>5, <1>6, SeqEqual
<1> QED BY <1>1, <1>4, <1>7 DEF s, t, u

UpTo(n) == [i \in 1 .. n |-> i]

(* When more is typed, or more of it comes out.                            *)
LEMMA StreamGrows ==
  ASSUME NEW n \in Nat, NEW m \in Nat, NEW a \in Nat, NEW b \in Nat,
         n <= m, a <= b, b <= m, n = m \/ a = b
  PROVE  \/ UpTo(m) = UpTo(n) /\ UpTo(b) = UpTo(a)
         \/ /\ Len(UpTo(n)) <= Len(UpTo(m)) /\ First(UpTo(m), Len(UpTo(n))) = UpTo(n)
            /\ UpTo(m) # UpTo(n) /\ UpTo(b) = UpTo(a)
         \/ /\ \E k \in Len(UpTo(a)) + 1 .. Len(UpTo(n)) : UpTo(b) = First(UpTo(n), k)
            /\ UpTo(m) = UpTo(n)
<1>1. \A x \in Nat : Len(UpTo(x)) = x
  BY AllTyped DEF UpTo
<1>2. \A x, y \in Nat : x <= y => First(UpTo(y), x) = UpTo(x)
  BY AllTyped DEF UpTo
<1>3. CASE n = m
  <2>1. CASE a = b
    BY <1>3, <2>1
  <2>2. CASE a < b
    <3>1. b \in a + 1 .. n
      BY <1>3, <2>2
    <3>2. b \in Len(UpTo(a)) + 1 .. Len(UpTo(n)) /\ UpTo(b) = First(UpTo(n), b)
      BY <1>1, <1>2, <1>3, <3>1
    <3> QED BY <1>3, <3>2
  <2> QED BY <2>1, <2>2
<1>4. CASE n < m /\ a = b
  BY <1>1, <1>2, <1>4
<1> QED BY <1>3, <1>4

-----------------------------------------------------------------------------
(* Reading from a terminal into a buffer.                                  *)

LEMMA LineFacts ==
  ASSUME NEW lines \in Seq(Nat \ {0}), lines # <<>>, NEW max \in Nat \ {0}
  PROVE  /\ LineCut(lines, max) \in 1 .. max
         /\ CutOff(lines, LineCut(lines, max)) \in Seq(Nat \ {0})
<1> DEFINE k == LineCut(lines, max)
<1>1. Head(lines) \in Nat \ {0} /\ Tail(lines) \in Seq(Nat \ {0})
  BY HeadTailProperties
<1>2. k \in 1 .. max /\ k <= Head(lines)
  BY <1>1 DEF LineCut
<1> HIDE DEF k
<1>3. CASE k = Head(lines)
  BY <1>1, <1>2, <1>3 DEF CutOff, k
<1>4. CASE k # Head(lines)
  <2>1. <<Head(lines) - k>> \in Seq(Nat \ {0})
    BY <1>1, <1>2, <1>4
  <2>2. <<Head(lines) - k>> \o Tail(lines) \in Seq(Nat \ {0})
    BY <1>1, <2>1, ConcatProperties
  <2> QED BY <1>2, <1>4, <2>2 DEF CutOff, k
<1> QED BY <1>3, <1>4

(* strlen() finds what was read, and behind it only what nobody typed.     *)
LEMMA TextOfBuffer ==
  ASSUME NEW data \in Seq(Nat), NEW max \in Nat, Len(data) <= max, NEW over \in 0 .. 1,
         NEW memory \in {"any", "zero", "full"}, NEW text \in Texts(data, max, memory, over)
  PROVE  /\ text \in Seq(Nat) /\ Len(text) \in Len(data) .. max + over
         /\ \A a, b \in Nat : InOrder(data, a, b) => InOrder(text, a, b)
         /\ memory = "full" => Len(text) = max + over
<1>1. Len(data) \in Nat
  BY LenProperties
<1>2. PICK n \in Stray(data, max, memory, over) : text = data \o [i \in 1 .. n |-> Junk]
  BY DEF Texts
<1>3. /\ n \in Nat /\ Len(data) + n <= max + over
      /\ memory = "full" => Len(data) + n = max + over
  <2> DEFINE room == max - Len(data)
  <2>1. room \in Nat
    BY <1>1
  <2>2. CASE room = 0 \/ memory = "full"
    <3>1. n = room + over
      BY <1>2, <2>2 DEF Stray
    <3> QED BY <1>1, <2>1, <3>1
  <2>3. CASE room > 0 /\ memory = "zero"
    <3>1. n = 0
      BY <1>2, <2>3 DEF Stray
    <3> QED BY <1>1, <2>1, <2>3, <3>1
  <2>4. CASE room > 0 /\ memory = "any"
    <3>1. n \in 0 .. room - 1 \cup {room + over}
      BY <1>2, <2>4 DEF Stray
    <3> QED BY <1>1, <2>1, <2>4, <3>1
  <2> QED BY <2>1, <2>2, <2>3, <2>4
<1> DEFINE junk == [i \in 1 .. n |-> Junk]
<1>4. junk \in Seq(Nat) /\ Len(junk) = n /\ \A b \in Nat : InOrder(junk, b, b)
  BY <1>3, InOrderNone
<1> HIDE DEF junk
<1>5. data \in Seq(Int) /\ junk \in Seq(Int)
  BY <1>4, SeqMonotonic
<1>6. \A a, b \in Nat : InOrder(data, a, b) => InOrder(data \o junk, a, b)
  BY <1>4, <1>5, InOrderJoin
<1>7. data \o junk \in Seq(Nat) /\ Len(data \o junk) = Len(data) + n
  BY <1>4, ConcatProperties
<1>8. text = data \o junk
  BY <1>2 DEF junk
<1> QED BY <1>1, <1>3, <1>6, <1>7, <1>8
=============================================================================
