---------------------------- MODULE Ascending_proofs ----------------------------
(* What Ascending and Those return, for every finite set of numbers, and facts  *)
(* about sequences: taken apart at the front, cut in two, and joined.           *)
EXTENDS Ascending, SequencesExt, FiniteSetTheorems, TLAPS

(* Ascending lists the elements of a set, each once and smallest first.         *)
LEMMA AscendingLists ==
  ASSUME NEW S \in SUBSET Int, IsFiniteSet(S)
  PROVE  /\ Cardinality(S) \in Nat
         /\ Ascending(S) \in [1 .. Cardinality(S) -> S]
         /\ \A i, j \in 1 .. Cardinality(S) : i < j => Ascending(S)[i] < Ascending(S)[j]
         /\ \A x \in S : \E k \in 1 .. Cardinality(S) : Ascending(S)[k] = x
<1> DEFINE Upto(x) == {y \in S : y <= x}
           N == Cardinality(S)
           place == [x \in S |-> Place(S, x)]
<1>1. N \in Nat
  BY FS_CardinalityType
<1>2. \A x \in S : IsFiniteSet(Upto(x)) /\ Cardinality(Upto(x)) \in Nat /\ Cardinality(Upto(x)) <= N
  BY FS_Subset, FS_CardinalityType
<1>3. \A x, y \in S : x < y => Place(S, x) < Place(S, y)
  <2> SUFFICES ASSUME NEW x \in S, NEW y \in S, x < y
               PROVE  Cardinality(Upto(x)) < Cardinality(Upto(y))
    BY DEF Place
  <2>1. Upto(x) \subseteq Upto(y) /\ y \in Upto(y) /\ y \notin Upto(x)
    <3>1. S \subseteq Int /\ x \in Int /\ y \in Int
      OBVIOUS
    <3>2. \A z \in Int : z <= x => z <= y
      BY <3>1
    <3>3. Upto(x) \subseteq Upto(y)
      BY <3>1, <3>2
    <3>4. y <= y /\ ~ (y <= x)
      BY <3>1
    <3>5. QED
      BY <3>3, <3>4
  <2>2. Cardinality(Upto(x)) <= Cardinality(Upto(y)) /\ Cardinality(Upto(x)) # Cardinality(Upto(y))
    BY <1>2, <2>1, FS_Subset
  <2>3. QED
    BY <1>2, <2>2
<1>4. \A x \in S : Place(S, x) \in 1 .. N
  <2> SUFFICES ASSUME NEW x \in S
               PROVE  Cardinality(Upto(x)) \in 1 .. N
    BY DEF Place
  <2>1. x \in Upto(x)
    OBVIOUS
  <2>2. Cardinality(Upto(x)) # 0
    BY <1>2, <2>1, FS_EmptySet
  <2>3. QED
    BY <1>1, <1>2, <2>2
<1>5. \A x, y \in S : Place(S, x) = Place(S, y) => x = y
  <2> SUFFICES ASSUME NEW x \in S, NEW y \in S, Place(S, x) = Place(S, y), x # y
               PROVE  FALSE
    OBVIOUS
  <2>1. x < y \/ y < x
    OBVIOUS
  <2>2. Place(S, x) \in Int /\ Place(S, y) \in Int
    BY <1>4
  <2>3. QED
    BY <1>3, <2>1, <2>2
<1>6. place \in Injection(S, 1 .. N)
  BY <1>4, <1>5 DEF Injection, IsInjective
<1>7. \A k \in 1 .. N : \E x \in S : Place(S, x) = k
  <2>1. IsFiniteSet(1 .. N) /\ Cardinality(1 .. N) = N
    BY <1>1, FS_Interval
  <2>2. place \in Surjection(S, 1 .. N)
    BY <1>6, <2>1, FS_Injection
  <2>3. \A k \in 1 .. N : \E x \in S : place[x] = k
    BY <2>2 DEF Surjection
  <2>4. QED
    BY <2>3
<1>8. \A k \in 1 .. N : Ascending(S)[k] \in S /\ Place(S, Ascending(S)[k]) = k
  BY <1>7 DEF Ascending
<1>9. Ascending(S) \in [1 .. N -> S]
  BY <1>8 DEF Ascending
<1>10. ASSUME NEW i \in 1 .. N, NEW j \in 1 .. N, i < j
       PROVE  Ascending(S)[i] < Ascending(S)[j]
  <2> DEFINE x == Ascending(S)[i]
             y == Ascending(S)[j]
  <2>1. x \in S /\ y \in S /\ Place(S, x) = i /\ Place(S, y) = j
    BY <1>8
  <2> HIDE DEF x, y
  <2>2. x # y /\ ~ (y < x)
    BY <1>3, <1>10, <2>1
  <2>3. x < y
    BY <2>1, <2>2
  <2>4. QED
    BY <2>3 DEF x, y
<1>11. \A x \in S : \E k \in 1 .. N : Ascending(S)[k] = x
  <2> SUFFICES ASSUME NEW x \in S
               PROVE  Ascending(S)[Place(S, x)] = x
    BY <1>4
  <2>1. Place(S, x) \in 1 .. N
    BY <1>4
  <2>2. QED
    BY <1>5, <1>8, <2>1
<1>12. QED
  BY <1>1, <1>9, <1>10, <1>11

(* ... as a sequence.                                                            *)
LEMMA AscendingSeq ==
  ASSUME NEW S \in SUBSET Int, IsFiniteSet(S)
  PROVE  /\ Ascending(S) \in Seq(S) /\ Len(Ascending(S)) = Cardinality(S)
         /\ DOMAIN Ascending(S) = 1 .. Cardinality(S)
         /\ Ascending(S) = <<>> <=> S = {}
<1>1. Ascending(S) \in [1 .. Cardinality(S) -> S] /\ Cardinality(S) \in Nat
  BY AscendingLists
<1>2. Ascending(S) \in Seq(S) /\ Len(Ascending(S)) = Cardinality(S) /\ DOMAIN Ascending(S) = 1 .. Cardinality(S)
  BY <1>1
<1>3. S = {} <=> Cardinality(S) = 0
  BY FS_EmptySet
<1>4. QED
  BY <1>1, <1>2, <1>3

(* So a finite set of numbers has a smallest and a greatest element.            *)
LEMMA Extremes ==
  ASSUME NEW S \in SUBSET Int, IsFiniteSet(S), S # {}
  PROVE  /\ Min(S) \in S /\ \A x \in S : Min(S) <= x
         /\ Max(S) \in S /\ \A x \in S : x <= Max(S)
<1> DEFINE N == Cardinality(S)
           at == Ascending(S)
<1>1. /\ N \in Nat /\ at \in [1 .. N -> S]
      /\ \A i, j \in 1 .. N : i < j => at[i] < at[j]
      /\ \A x \in S : \E k \in 1 .. N : at[k] = x
  BY AscendingLists
<1>2. 1 \in 1 .. N /\ N \in 1 .. N
  <2>1. PICK x \in S : TRUE
    OBVIOUS
  <2>2. \E k \in 1 .. N : at[k] = x
    BY <1>1
  <2>3. QED
    BY <1>1, <2>2
<1> HIDE DEF N, at
<1>3. at[1] \in S /\ \A x \in S : at[1] <= x
  <2>1. ASSUME NEW x \in S PROVE at[1] <= x
    <3>1. PICK k \in 1 .. N : at[k] = x
      BY <1>1
    <3>2. CASE k = 1
      BY <1>1, <1>2, <3>1, <3>2
    <3>3. CASE k # 1
      <4>1. 1 < k
        BY <1>1, <3>3
      <4>2. at[1] < at[k] /\ at[1] \in Int /\ at[k] \in Int
        BY <1>1, <1>2, <4>1
      <4>3. QED
        BY <3>1, <4>2
    <3>4. QED
      BY <3>2, <3>3
  <2>2. QED
    BY <1>1, <1>2, <2>1
<1>4. at[N] \in S /\ \A x \in S : x <= at[N]
  <2>1. ASSUME NEW x \in S PROVE x <= at[N]
    <3>1. PICK k \in 1 .. N : at[k] = x
      BY <1>1
    <3>2. CASE k = N
      BY <1>1, <1>2, <3>1, <3>2
    <3>3. CASE k # N
      <4>1. k < N
        BY <1>1, <3>3
      <4>2. at[k] < at[N] /\ at[N] \in Int /\ at[k] \in Int
        BY <1>1, <1>2, <4>1
      <4>3. QED
        BY <3>1, <4>2
    <3>4. QED
      BY <3>2, <3>3
  <2>2. QED
    BY <1>1, <1>2, <2>1
<1>5. Min(S) \in S /\ \A x \in S : Min(S) <= x
  BY <1>3 DEF Min
<1>6. Max(S) \in S /\ \A x \in S : Max(S) >= x
  <2>1. \A x \in S : at[N] >= x
    BY <1>4
  <2>2. QED
    BY <1>4, <2>1 DEF Max
<1>7. QED
  BY <1>5, <1>6

LEMMA MaxWith ==
  ASSUME NEW x \in Int, NEW S \in SUBSET Int, IsFiniteSet(S)
  PROVE  Max({x} \cup S) \in {x} \cup S /\ \A y \in {x} \cup S : y <= Max({x} \cup S)
<1>1. IsFiniteSet(S \cup {x}) /\ S \cup {x} = {x} \cup S
  BY FS_AddElement
<1>2. QED
  BY <1>1, Extremes

LEMMA MaxOfTwo ==
  ASSUME NEW a \in Int, NEW b \in Int
  PROVE  Max({a, b}) = IF a <= b THEN b ELSE a
<1> DEFINE m == IF a <= b THEN b ELSE a
<1>1. m \in {a, b} /\ \A y \in {a, b} : m >= y
  OBVIOUS
<1>2. Max({a, b}) \in {a, b} /\ \A y \in {a, b} : Max({a, b}) >= y
  BY <1>1 DEF Max
<1>3. QED
  BY <1>1, <1>2

LEMMA MinOfTwo ==
  ASSUME NEW a \in Int, NEW b \in Int
  PROVE  Min({a, b}) = IF a <= b THEN a ELSE b
<1> DEFINE m == IF a <= b THEN a ELSE b
<1>1. m \in {a, b} /\ \A y \in {a, b} : m =< y
  OBVIOUS
<1>2. Min({a, b}) \in {a, b} /\ \A y \in {a, b} : Min({a, b}) =< y
  BY <1>1 DEF Min
<1>3. QED
  BY <1>1, <1>2

LEMMA MaxOfThree ==
  ASSUME NEW a \in Int, NEW b \in Int, NEW c \in Int
  PROVE  /\ Max({a, b, c}) \in {a, b, c}
         /\ a <= Max({a, b, c}) /\ b <= Max({a, b, c}) /\ c <= Max({a, b, c})
<1> DEFINE ab == IF a <= b THEN b ELSE a
           m == IF ab <= c THEN c ELSE ab
<1>1. m \in {a, b, c} /\ \A y \in {a, b, c} : m >= y
  OBVIOUS
<1>2. Max({a, b, c}) \in {a, b, c} /\ \A y \in {a, b, c} : Max({a, b, c}) >= y
  BY <1>1 DEF Max
<1>3. QED
  BY <1>2

(* Those are the elements at the given places, in their order.                  *)
LEMMA ThoseKept ==
  ASSUME NEW T, NEW s \in Seq(T), NEW S \in SUBSET DOMAIN s
  PROVE  /\ Those(s, S) \in Seq(T)
         /\ \A k \in DOMAIN Those(s, S) : \E i \in S : Those(s, S)[k] = s[i]
         /\ \A i \in S : \E k \in DOMAIN Those(s, S) : Those(s, S)[k] = s[i]
         /\ Those(s, S) = <<>> <=> S = {}
<1> DEFINE at == Ascending(S)
           N == Cardinality(S)
<1>1. DOMAIN s = 1 .. Len(s) /\ Len(s) \in Nat /\ \A i \in DOMAIN s : s[i] \in T
  OBVIOUS
<1>2. S \in SUBSET Int /\ IsFiniteSet(S)
  <2>1. IsFiniteSet(1 .. Len(s))
    BY <1>1, FS_Interval
  <2>2. S \subseteq 1 .. Len(s)
    BY <1>1
  <2>3. QED
    BY <2>1, <2>2, FS_Subset
<1>3. N \in Nat /\ at \in [1 .. N -> S] /\ \A x \in S : \E k \in 1 .. N : at[k] = x
  BY <1>2, AscendingLists
<1>4. S = {} <=> N = 0
  BY <1>2, FS_EmptySet
<1> HIDE DEF at, N
<1>5. Those(s, S) = [k \in 1 .. N |-> s[at[k]]]
  BY DEF Those, at, N
<1>6. Those(s, S) \in Seq(T)
  BY <1>1, <1>3, <1>5
<1>7. DOMAIN Those(s, S) = 1 .. N /\ Len(Those(s, S)) = N
  BY <1>3, <1>5
<1>8. /\ \A k \in DOMAIN Those(s, S) : \E i \in S : Those(s, S)[k] = s[i]
      /\ \A i \in S : \E k \in DOMAIN Those(s, S) : Those(s, S)[k] = s[i]
  <2>1. \A k \in 1 .. N : at[k] \in S /\ Those(s, S)[k] = s[at[k]]
    BY <1>3, <1>5
  <2>2. ASSUME NEW i \in S PROVE \E k \in 1 .. N : Those(s, S)[k] = s[i]
    BY <1>3, <2>1
  <2>3. QED
    BY <1>7, <2>1, <2>2
<1>9. Those(s, S) = <<>> <=> N = 0
  BY <1>3, <1>6, <1>7
<1>10. QED
  BY <1>4, <1>6, <1>8, <1>9

(* They keep their order.                                                        *)
LEMMA ThoseInOrder ==
  ASSUME NEW T, NEW s \in Seq(T), NEW S \in SUBSET DOMAIN s
  PROVE  \A k \in DOMAIN Those(s, S) : \E i \in S :
           /\ Those(s, S)[k] = s[i]
           /\ \A j \in S : j < i => \E m \in 1 .. (k - 1) : m \in DOMAIN Those(s, S) /\ Those(s, S)[m] = s[j]
<1> DEFINE at == Ascending(S)
           N == Cardinality(S)
<1>1. S \in SUBSET Int /\ IsFiniteSet(S)
  <2>1. DOMAIN s = 1 .. Len(s) /\ Len(s) \in Nat
    OBVIOUS
  <2>2. IsFiniteSet(1 .. Len(s))
    BY <2>1, FS_Interval
  <2>3. QED
    BY <2>1, <2>2, FS_Subset
<1>2. /\ N \in Nat /\ at \in [1 .. N -> S]
      /\ \A i, j \in 1 .. N : i < j => at[i] < at[j]
      /\ \A x \in S : \E k \in 1 .. N : at[k] = x
  BY <1>1, AscendingLists
<1> HIDE DEF at, N
<1>3. Those(s, S) = [k \in 1 .. N |-> s[at[k]]]
  BY DEF Those, at, N
<1>4. ASSUME NEW k \in 1 .. N, NEW j \in S, j < at[k]
      PROVE  \E m \in 1 .. (k - 1) : m \in 1 .. N /\ at[m] = j
  <2>1. PICK m \in 1 .. N : at[m] = j
    BY <1>2
  <2>2. ~ (k <= m)
    BY <1>1, <1>2, <1>4, <2>1
  <2>3. QED
    BY <1>2, <2>1, <2>2
<1>5. ASSUME NEW k \in 1 .. N
      PROVE  /\ at[k] \in S /\ Those(s, S)[k] = s[at[k]]
             /\ \A j \in S : j < at[k] => \E m \in 1 .. (k - 1) : m \in 1 .. N /\ Those(s, S)[m] = s[j]
  BY <1>2, <1>3, <1>4
<1>6. DOMAIN Those(s, S) = 1 .. N
  BY <1>3
<1>7. QED
  BY <1>5, <1>6

-------------------------------------------------------------------------------
(* Sequences. *)
LEMMA FrontOf ==
  ASSUME NEW T, NEW s \in Seq(T), s # <<>>
  PROVE  /\ Head(s) \in T /\ Head(s) \in ToSet(s) /\ Tail(s) \in Seq(T)
         /\ ToSet(s) = {Head(s)} \cup ToSet(Tail(s))
         /\ Tail(s) = <<>> => ToSet(s) = {Head(s)}
         /\ \A i \in DOMAIN Tail(s) : i + 1 \in DOMAIN s /\ i + 1 > 1 /\ Tail(s)[i] = s[i + 1]
<1>1. /\ Len(s) \in Nat /\ DOMAIN s = 1 .. Len(s) /\ Len(s) # 0
      /\ \A i \in 1 .. Len(s) : s[i] \in T
      /\ Head(s) = s[1] /\ Tail(s) \in Seq(T) /\ Len(Tail(s)) = Len(s) - 1
      /\ DOMAIN Tail(s) = 1 .. (Len(s) - 1)
      /\ \A i \in 1 .. (Len(s) - 1) : Tail(s)[i] = s[i + 1]
  OBVIOUS
<1>2. \A i \in 1 .. (Len(s) - 1) : i + 1 \in 1 .. Len(s) /\ i + 1 > 1
  BY <1>1
<1>3. 1 \in DOMAIN s
  BY <1>1
<1>4. ToSet(s) = {Head(s)} \cup ToSet(Tail(s))
  <2>1. ASSUME NEW i \in DOMAIN s PROVE s[i] = Head(s) \/ s[i] \in ToSet(Tail(s))
    <3>1. CASE i = 1
      BY <1>1, <3>1
    <3>2. CASE i # 1
      <4>1. i - 1 \in 1 .. (Len(s) - 1) /\ (i - 1) + 1 = i
        BY <1>1, <3>2
      <4>2. Tail(s)[i - 1] = s[i]
        BY <1>1, <4>1
      <4>3. QED
        BY <1>1, <4>1, <4>2 DEF ToSet
    <3>3. QED
      BY <3>1, <3>2
  <2>2. ToSet(Tail(s)) \subseteq ToSet(s)
    BY <1>1, <1>2 DEF ToSet
  <2>3. Head(s) \in ToSet(s)
    BY <1>1, <1>3 DEF ToSet
  <2>4. QED
    BY <2>1, <2>2, <2>3 DEF ToSet
<1>5. Tail(s) = <<>> => ToSet(Tail(s)) = {}
  BY DEF ToSet
<1>6. QED
  BY <1>1, <1>2, <1>3, <1>4, <1>5 DEF ToSet

LEMMA CutAt ==
  ASSUME NEW T, NEW s \in Seq(T), NEW n \in 1 .. Len(s)
  PROVE  /\ SubSeq(s, 1, n) \in Seq(T) /\ SubSeq(s, n + 1, Len(s)) \in Seq(T)
         /\ DOMAIN SubSeq(s, 1, n) = 1 .. n
         /\ \A i \in 1 .. n : i \in DOMAIN s /\ SubSeq(s, 1, n)[i] = s[i]
         /\ DOMAIN SubSeq(s, n + 1, Len(s)) = 1 .. (Len(s) - n)
         /\ \A i \in 1 .. (Len(s) - n) : i + n \in DOMAIN s /\ SubSeq(s, n + 1, Len(s))[i] = s[i + n]
<1>1. Len(s) \in Nat /\ DOMAIN s = 1 .. Len(s) /\ \A i \in 1 .. Len(s) : s[i] \in T
  OBVIOUS
<1>2. n \in Nat /\ n >= 1 /\ n <= Len(s) /\ n + 1 \in Nat /\ Len(s) - n \in Nat
  BY <1>1
<1>3. \A i \in 1 .. n : i \in 1 .. Len(s)
  BY <1>1, <1>2
<1>4. \A i \in 1 .. (Len(s) - n) : i + n \in 1 .. Len(s)
  BY <1>1, <1>2
<1>5. SubSeq(s, 1, n) = [i \in 1 .. n |-> s[i]]
  BY <1>1, <1>2
<1>6. SubSeq(s, n + 1, Len(s)) = [i \in 1 .. (Len(s) - n) |-> s[i + n]]
  BY <1>1, <1>2
<1>7. SubSeq(s, 1, n) \in Seq(T)
  BY <1>1, <1>2, <1>3, <1>5
<1>8. SubSeq(s, n + 1, Len(s)) \in Seq(T)
  BY <1>1, <1>2, <1>4, <1>6
<1>9. QED
  BY <1>1, <1>3, <1>4, <1>5, <1>6, <1>7, <1>8

LEMMA JoinOf ==
  ASSUME NEW T, NEW s \in Seq(T), NEW r \in Seq(T)
  PROVE  /\ s \o r \in Seq(T)
         /\ DOMAIN (s \o r) = 1 .. (Len(s) + Len(r)) /\ Len(s) \in Nat /\ Len(r) \in Nat
         /\ \A i \in 1 .. Len(s) : (s \o r)[i] = s[i]
         /\ \A i \in 1 .. Len(r) : (s \o r)[Len(s) + i] = r[i]
         /\ ToSet(s \o r) = ToSet(s) \cup ToSet(r)
         /\ r = <<>> => s \o r = s
<1>1. /\ Len(s) \in Nat /\ DOMAIN s = 1 .. Len(s) /\ Len(r) \in Nat /\ DOMAIN r = 1 .. Len(r)
      /\ s \o r \in Seq(T) /\ DOMAIN (s \o r) = 1 .. (Len(s) + Len(r))
  OBVIOUS
<1>2. \A i \in 1 .. Len(s) : (s \o r)[i] = s[i] /\ i \in DOMAIN (s \o r)
  BY <1>1
<1>3. \A i \in 1 .. Len(r) : (s \o r)[Len(s) + i] = r[i] /\ Len(s) + i \in DOMAIN (s \o r)
  BY <1>1
<1>4. ASSUME NEW i \in DOMAIN (s \o r)
      PROVE  (i \in 1 .. Len(s)) \/ \E j \in 1 .. Len(r) : i = Len(s) + j
  <2>1. i \in 1 .. Len(s) \/ i - Len(s) \in 1 .. Len(r)
    BY <1>1
  <2>2. i = Len(s) + (i - Len(s))
    BY <1>1
  <2>3. QED
    BY <2>1, <2>2
<1>5. ToSet(s \o r) = ToSet(s) \cup ToSet(r)
  <2>1. ToSet(s) \subseteq ToSet(s \o r) /\ ToSet(r) \subseteq ToSet(s \o r)
    BY <1>1, <1>2, <1>3 DEF ToSet
  <2>2. ASSUME NEW i \in DOMAIN (s \o r) PROVE (s \o r)[i] \in ToSet(s) \cup ToSet(r)
    <3>1. CASE i \in 1 .. Len(s)
      BY <1>1, <1>2, <3>1 DEF ToSet
    <3>2. CASE \E j \in 1 .. Len(r) : i = Len(s) + j
      BY <1>1, <1>3, <3>2 DEF ToSet
    <3>3. QED
      BY <1>4, <3>1, <3>2
  <2>3. QED
    BY <2>1, <2>2 DEF ToSet
<1>6. r = <<>> => s \o r = s
  OBVIOUS
<1>7. QED
  BY <1>1, <1>2, <1>3, <1>5, <1>6

================================================================================
