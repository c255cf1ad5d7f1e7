--------------------------- MODULE PathMapProofs ----------------------------
(***************************************************************************)
(* The paths of the new root mean what the options order, whatever their   *)
(* strings, number and order.  A string is taken apart where a slash is:   *)
(* the names of two strings joined by a slash are those of the first and   *)
(* then those of the second, and what the code keeps of a target is a      *)
(* prefix of a path exactly if the target's names are one of the path's.   *)
(***************************************************************************)
EXTENDS PathMapProps, FiniteSetTheorems, WellFoundedInduction, SequenceTheorems, TLAPS

\* A nonempty set of numbers has a smallest element.
LEMMA LeastExists ==
    ASSUME NEW S, S \subseteq Nat, S # {}
    PROVE  \E x \in S : \A y \in S : x =< y
<1>1. PICK x \in S : \A y \in S : ~(<<y, x>> \in OpToRel(<, Nat))
  BY NatLessThanWellFounded, WFMin
<1>2. \A y \in S : x =< y
  <2> TAKE y \in S
  <2>1. ~(y < x)
    BY <1>1 DEF OpToRel
  <2> QED
    BY <2>1
<1> QED
  BY <1>2

\* If it is bounded, Max is its largest, and the only number that is.
LEMMA MaxFacts ==
    ASSUME NEW S, S \subseteq Nat, S # {}, NEW b \in Nat, \A x \in S : x =< b
    PROVE  /\ Max(S) \in S
           /\ \A x \in S : x =< Max(S)
           /\ \A m \in S : (\A x \in S : x =< m) => m = Max(S)
<1> DEFINE D == {b - x : x \in S}
<1>1. D \subseteq Nat /\ D # {}
  <2>1. \A x \in S : b - x \in Nat
    OBVIOUS
  <2> QED
    BY <2>1, Zenon
<1>2. PICK d \in D : \A e \in D : d =< e
  BY <1>1, LeastExists
<1>3. PICK m \in S : d = b - m
  BY <1>2
<1>4. \A x \in S : m >= x
  <2> TAKE x \in S
  <2>1. b - x \in D
    OBVIOUS
  <2>2. d =< b - x
    BY <1>2, <2>1
  <2> QED
    BY <1>3, <2>2
<1>5. Max(S) \in S /\ \A x \in S : Max(S) >= x
  BY <1>4 DEF Max
<1>6. Max(S) \in Nat /\ \A x \in S : x =< Max(S)
  BY <1>5
<1>7. ASSUME NEW n \in S, \A x \in S : x =< n
      PROVE  n = Max(S)
  BY <1>5, <1>6, <1>7
<1> QED
  BY <1>5, <1>6, <1>7, Zenon

-----------------------------------------------------------------------------
(* The elements of a finite set of numbers in order. *)

UpTo(S, i) == {j \in S : j =< i}

\* Every element has its number, and every number its element.
LEMMA NthFacts ==
    ASSUME NEW S, S \subseteq Nat, IsFiniteSet(S)
    PROVE  /\ Cardinality(S) \in Nat
           /\ \A n \in 1 .. Cardinality(S) :
                  Nth(S, n) \in S /\ Cardinality(UpTo(S, Nth(S, n))) = n
           /\ \A i \in S : /\ Cardinality(UpTo(S, i)) \in 1 .. Cardinality(S)
                           /\ Nth(S, Cardinality(UpTo(S, i))) = i
           /\ \A i, j \in S : i < j => Cardinality(UpTo(S, i)) < Cardinality(UpTo(S, j))
<1> DEFINE rank == [i \in S |-> Cardinality(UpTo(S, i))]
           N == Cardinality(S)
<1>1. N \in Nat
  BY FS_CardinalityType
<1>2. ASSUME NEW i \in S
      PROVE  IsFiniteSet(UpTo(S, i)) /\ rank[i] \in 1 .. N
  <2>1. UpTo(S, i) \in SUBSET S /\ {i} \in SUBSET UpTo(S, i)
    BY DEF UpTo
  <2>2. IsFiniteSet(UpTo(S, i)) /\ Cardinality(UpTo(S, i)) =< N
    BY <2>1, FS_Subset
  <2>3. Cardinality({i}) =< Cardinality(UpTo(S, i)) /\ Cardinality({i}) = 1
    BY <2>1, <2>2, FS_Subset, FS_Singleton
  <2>4. Cardinality(UpTo(S, i)) \in Nat
    BY <2>2, FS_CardinalityType
  <2> QED
    BY <1>1, <2>2, <2>3, <2>4
<1>3. ASSUME NEW i \in S, NEW j \in S, i < j
      PROVE  rank[i] < rank[j]
  <2>1. UpTo(S, i) \in SUBSET UpTo(S, j) /\ j \in UpTo(S, j) /\ j \notin UpTo(S, i)
    <3>1. i \in Nat /\ j \in Nat
      BY <1>3
    <3>2. \A x \in S : x =< i => x =< j
      BY <1>3, <3>1
    <3>3. j =< j /\ ~(j =< i)
      BY <1>3, <3>1
    <3> QED
      BY <3>2, <3>3, Zenon DEF UpTo
  <2>2. /\ Cardinality(UpTo(S, i)) =< Cardinality(UpTo(S, j))
        /\ Cardinality(UpTo(S, i)) # Cardinality(UpTo(S, j))
    BY <1>2, <2>1, FS_Subset
  <2> QED
    BY <1>2, <2>2
<1>4. rank \in [S -> 1 .. N]
  BY <1>2
<1>5. rank \in Injection(S, 1 .. N)
  <2>1. ASSUME NEW i \in S, NEW j \in S, rank[i] = rank[j]
        PROVE  i = j
    <3>1. ~(i < j) /\ ~(j < i)
      BY <1>2, <1>3, <2>1
    <3> QED
      BY <3>1
  <2> QED
    BY <1>4, <2>1 DEF Injection, IsInjective
<1>6. IsFiniteSet(1 .. N) /\ Cardinality(1 .. N) = N
  BY <1>1, FS_Interval
<1>7. rank \in Surjection(S, 1 .. N)
  BY <1>5, <1>6, FS_Injection
<1>8. \A n \in 1 .. N : \E i \in S : rank[i] = n
  BY <1>7 DEF Surjection
<1>9. \A n \in 1 .. N : Nth(S, n) \in S /\ rank[Nth(S, n)] = n
  BY <1>8 DEF Nth, UpTo
<1>10. \A i \in S : Nth(S, rank[i]) = i
  BY <1>2, <1>5, <1>9 DEF Injection, IsInjective
<1> QED
  BY <1>1, <1>2, <1>3, <1>9, <1>10

\* An element with a number is the only one with it.
LEMMA NthIs ==
    ASSUME NEW S, S \subseteq Nat, IsFiniteSet(S), NEW i \in S, NEW n, Cardinality(UpTo(S, i)) = n
    PROVE  Nth(S, n) = i
  BY NthFacts

\* S holds the elements of A, and then those of B moved behind them by d.
IsThen(S, A, B, d) ==
    /\ A \subseteq Nat /\ IsFiniteSet(A) /\ \A i \in A : i =< d
    /\ B \subseteq Nat /\ IsFiniteSet(B) /\ \A j \in B : 0 < j
    /\ d \in Nat
    /\ \A x : x \in S <=> x \in A \/ \E j \in B : x = j + d

\* The elements of the first come first, in their order.
LEMMA NthOfUnion ==
    ASSUME NEW S, NEW A, NEW B, NEW d, IsThen(S, A, B, d)
    PROVE  /\ S \subseteq Nat /\ IsFiniteSet(S)
           /\ Cardinality(S) = Cardinality(A) + Cardinality(B)
           /\ \A n \in 1 .. Cardinality(A) : Nth(S, n) = Nth(A, n)
           /\ \A n \in 1 .. Cardinality(B) : Nth(S, Cardinality(A) + n) = Nth(B, n) + d
<1> USE DEF IsThen
<1> DEFINE Move(X) == {j + d : j \in X}
<1>1. ASSUME NEW X \in SUBSET B
      PROVE  IsFiniteSet(Move(X)) /\ Cardinality(Move(X)) = Cardinality(X)
  <2> DEFINE f == [j \in X |-> j + d]
  <2>1. IsFiniteSet(X)
    BY <1>1, FS_Subset
  <2>2. f \in Bijection(X, Move(X))
    BY <1>1 DEF Bijection, Injection, Surjection, IsInjective
  <2>3. ExistsBijection(X, Move(X))
    BY <2>2 DEF ExistsBijection
  <2> QED
    BY <2>1, <2>3, FS_Bijection
<1>2. ASSUME NEW Y \in SUBSET A, NEW X \in SUBSET B
      PROVE  /\ IsFiniteSet(Y \cup Move(X))
             /\ Cardinality(Y \cup Move(X)) = Cardinality(Y) + Cardinality(X)
             /\ Cardinality(Y) \in Nat /\ Cardinality(X) \in Nat
  <2>1. IsFiniteSet(Y) /\ IsFiniteSet(X)
    BY <1>2, FS_Subset
  <2>2. IsFiniteSet(Move(X)) /\ Cardinality(Move(X)) = Cardinality(X)
    BY <1>1, <1>2
  <2>3. Y \cap Move(X) = {}
    BY <1>2
  <2>4. Cardinality(Y) \in Nat /\ Cardinality(X) \in Nat
    BY <2>1, FS_CardinalityType
  <2>5. Cardinality(Y \cap Move(X)) = 0
    BY <2>3, FS_EmptySet
  <2> HIDE DEF Move
  <2>6. /\ IsFiniteSet(Y \cup Move(X))
        /\ Cardinality(Y \cup Move(X)) =
             Cardinality(Y) + Cardinality(Move(X)) - Cardinality(Y \cap Move(X))
    BY <2>1, <2>2, FS_Union
  <2> QED
    BY <2>2, <2>4, <2>5, <2>6
<1>3. /\ S \subseteq Nat /\ IsFiniteSet(S)
      /\ Cardinality(S) = Cardinality(A) + Cardinality(B)
  <2>1. \A j \in B : j + d \in Nat
    OBVIOUS
  <2>2. S \subseteq Nat
    BY <2>1
  <2>3. S = A \cup Move(B) /\ A \in SUBSET A /\ B \in SUBSET B
    BY Zenon
  <2> HIDE DEF Move
  <2> QED
    BY <1>2, <2>2, <2>3
<1>4. /\ \A j \in B, k \in A : ~(j + d =< k)
      /\ \A i \in A, k \in B : i =< k + d
      /\ \A j, k \in B : j + d =< k + d <=> j =< k
  <2>1. /\ \A i \in A : i \in Nat /\ i =< d
        /\ \A j \in B : j \in Nat /\ 0 < j
    OBVIOUS
  <2> QED
    BY <2>1
<1>5. ASSUME NEW n \in 1 .. Cardinality(A)
      PROVE  Nth(S, n) = Nth(A, n)
  <2>1. Nth(A, n) \in A /\ Cardinality(UpTo(A, Nth(A, n))) = n
    BY <1>5, NthFacts
  <2>2. UpTo(S, Nth(A, n)) = UpTo(A, Nth(A, n))
    <3>1. \A j \in B : ~(j + d =< Nth(A, n))
      BY <1>4, <2>1, Zenon
    <3>2. ASSUME NEW x \in UpTo(S, Nth(A, n))
          PROVE  x \in UpTo(A, Nth(A, n))
      <4>1. x =< Nth(A, n) /\ (x \in A \/ \E j \in B : x = j + d)
        BY <3>2, Zenon DEF UpTo
      <4> QED
        BY <3>1, <4>1, Zenon DEF UpTo
    <3>3. ASSUME NEW x \in UpTo(A, Nth(A, n))
          PROVE  x \in UpTo(S, Nth(A, n))
      BY <3>3, Zenon DEF UpTo
    <3> QED
      BY <3>2, <3>3, Zenon
  <2>3. Nth(A, n) \in S
    BY <2>1
  <2> HIDE DEF IsThen
  <2> QED
    BY <1>3, <2>1, <2>2, <2>3, NthIs
<1>6. ASSUME NEW n \in 1 .. Cardinality(B)
      PROVE  Nth(S, Cardinality(A) + n) = Nth(B, n) + d
  <2>1. Nth(B, n) \in B /\ Cardinality(UpTo(B, Nth(B, n))) = n
    BY <1>6, NthFacts
  <2>2. UpTo(S, Nth(B, n) + d) = A \cup Move(UpTo(B, Nth(B, n)))
    <3>1. \A i \in A : i =< Nth(B, n) + d
      BY <1>4, <2>1, Zenon
    <3>2. \A j \in B : j + d =< Nth(B, n) + d <=> j =< Nth(B, n)
      BY <1>4, <2>1, Zenon
    <3>3. ASSUME NEW x \in UpTo(S, Nth(B, n) + d)
          PROVE  x \in A \cup Move(UpTo(B, Nth(B, n)))
      <4>1. x =< Nth(B, n) + d /\ (x \in A \/ \E j \in B : x = j + d)
        BY <3>3, Zenon DEF UpTo
      <4> QED
        BY <3>2, <4>1, Zenon DEF UpTo
    <3>4. ASSUME NEW x \in A \cup Move(UpTo(B, Nth(B, n)))
          PROVE  x \in UpTo(S, Nth(B, n) + d)
      <4>1. x \in A \/ \E j \in UpTo(B, Nth(B, n)) : x = j + d
        BY <3>4, Zenon
      <4> QED
        BY <3>1, <3>2, <4>1, Zenon DEF UpTo
    <3> QED
      BY <3>3, <3>4, Zenon
  <2>3. UpTo(B, Nth(B, n)) \in SUBSET B /\ A \in SUBSET A
    BY DEF UpTo
  <2>4. Cardinality(UpTo(S, Nth(B, n) + d)) = Cardinality(A) + n
    BY <1>2, <2>1, <2>2, <2>3
  <2>5. Nth(B, n) + d \in S
    BY <2>1
  <2> HIDE DEF IsThen
  <2> QED
    BY <1>3, <2>4, <2>5, NthIs
<1> QED
  BY <1>3, <1>5, <1>6

-----------------------------------------------------------------------------
(* The names in a string. *)

Text == Seq(Chars)

\* The place of a name: from a start to before the next slash or the end.
IsNameIn(s, i, e) ==
    /\ e \in i .. Len(s)
    /\ \A k \in i .. e : s[k] # "/"
    /\ e = Len(s) \/ s[e + 1] = "/"

\* A name starts at a place of the string.
LEMMA StartsFacts ==
    ASSUME NEW s \in Text
    PROVE  /\ Starts(s) \subseteq Nat /\ IsFiniteSet(Starts(s))
           /\ \A i \in Starts(s) : i \in 1 .. Len(s) /\ s[i] # "/" /\ (i = 1 \/ s[i - 1] = "/")
           /\ Cardinality(Starts(s)) \in Nat
<1>1. Len(s) \in Nat /\ DOMAIN s = 1 .. Len(s)
  BY DEF Text
<1>2. \A i \in Starts(s) : i \in 1 .. Len(s) /\ s[i] # "/" /\ (i = 1 \/ s[i - 1] = "/")
  BY <1>1 DEF Starts
<1>3. Starts(s) \subseteq Nat /\ \A i \in Starts(s) : i =< Len(s)
  BY <1>1, <1>2
<1>4. IsFiniteSet(Starts(s))
  BY <1>1, <1>3, FS_BoundedSetOfNaturals
<1> QED
  BY <1>2, <1>3, <1>4, FS_CardinalityType

\* There is one such end, and NameAt goes up to it.
LEMMA NameEnds ==
    ASSUME NEW s \in Text, NEW i \in 1 .. Len(s), s[i] # "/"
    PROVE  /\ \E e \in i .. Len(s) : IsNameIn(s, i, e)
           /\ \A e \in i .. Len(s) : IsNameIn(s, i, e) => NameAt(s, i) = SubSeq(s, i, e)
<1> DEFINE E == {j \in i .. Len(s) : \A k \in i .. j : s[k] # "/"}
<1>1. Len(s) \in Nat
  BY DEF Text
<1>2. E \subseteq Nat /\ i \in E /\ \A x \in E : x =< Len(s)
  <2>1. \A j \in i .. Len(s) : j \in Nat /\ j =< Len(s)
    BY <1>1
  <2>2. i \in i .. Len(s) /\ \A k \in i .. i : s[k] # "/"
    BY <1>1
  <2> QED
    BY <2>1, <2>2, Zenon
<1>3. /\ Max(E) \in E /\ \A x \in E : x =< Max(E)
      /\ \A m \in E : (\A x \in E : x =< m) => m = Max(E)
  <2> HIDE DEF E
  <2>1. E # {}
    BY <1>2
  <2> QED
    BY <1>1, <1>2, <2>1, MaxFacts
<1>4. Max(E) \in i .. Len(s) /\ \A k \in i .. Max(E) : s[k] # "/"
  BY <1>3, Zenon
<1>5. IsNameIn(s, i, Max(E))
  <2>1. SUFFICES ASSUME Max(E) # Len(s), s[Max(E) + 1] # "/"
                 PROVE  FALSE
    BY <1>4 DEF IsNameIn
  <2>2. Max(E) + 1 \in i .. Len(s)
    BY <1>1, <1>4, <2>1
  <2>3. \A k \in i .. Max(E) + 1 : s[k] # "/"
    <3> TAKE k \in i .. Max(E) + 1
    <3>1. k \in i .. Max(E) \/ k = Max(E) + 1
      BY <1>4
    <3> QED
      BY <1>4, <2>1, <3>1
  <2>4. Max(E) + 1 \in E
    BY <2>2, <2>3
  <2>5. Max(E) + 1 =< Max(E)
    BY <1>3, <2>4, Zenon
  <2> QED
    BY <1>4, <2>5
<1>6. ASSUME NEW e \in i .. Len(s), IsNameIn(s, i, e)
      PROVE  e = Max(E)
  <2>1. e \in E
    BY <1>6 DEF IsNameIn
  <2>2. ASSUME NEW x \in E
        PROVE  x =< e
    <3>1. x \in i .. Len(s) /\ \A k \in i .. x : s[k] # "/"
      BY <2>2
    <3>2. CASE e = Len(s)
      BY <1>1, <3>1, <3>2
    <3>3. CASE s[e + 1] = "/"
      <4>1. e + 1 \notin i .. x
        BY <3>1, <3>3
      <4> QED
        BY <1>1, <3>1, <4>1
    <3> QED
      BY <1>6, <3>2, <3>3 DEF IsNameIn
  <2> QED
    BY <1>3, <2>1, <2>2, Zenon
<1>7. NameAt(s, i) = SubSeq(s, i, Max(E))
  BY DEF NameAt
<1> HIDE DEF E
<1> QED
  BY <1>4, <1>5, <1>6, <1>7

\* The name at a start is the same in another string that has the same characters there.
LEMMA NameMoves ==
    ASSUME NEW s \in Text, NEW t \in Text, NEW i \in 1 .. Len(s), s[i] # "/", NEW d \in Int,
           NEW e \in i .. Len(s), IsNameIn(s, i, e),
           i + d >= 1, e + d =< Len(t), \A k \in i .. e : t[k + d] = s[k],
           e + d = Len(t) \/ t[e + d + 1] = "/"
    PROVE  NameAt(t, i + d) = NameAt(s, i)
<1>1. Len(s) \in Nat /\ Len(t) \in Nat
  BY DEF Text
<1>2. i + d \in 1 .. Len(t) /\ e + d \in i + d .. Len(t)
  BY <1>1
<1>3. \A k \in i + d .. e + d : t[k] = s[k - d] /\ t[k] # "/"
  <2> TAKE k \in i + d .. e + d
  <2>1. k - d \in i .. e /\ (k - d) + d = k
    BY <1>1
  <2> QED
    BY <2>1 DEF IsNameIn
<1>4. t[i + d] # "/"
  BY <1>2, <1>3
<1>5. IsNameIn(t, i + d, e + d)
  BY <1>2, <1>3 DEF IsNameIn
<1>6. NameAt(t, i + d) = SubSeq(t, i + d, e + d) /\ NameAt(s, i) = SubSeq(s, i, e)
  BY <1>2, <1>4, <1>5, NameEnds
<1>7. SubSeq(t, i + d, e + d) = SubSeq(s, i, e)
  <2>1. /\ \A k \in i + d .. e + d : t[k] \in Chars
        /\ \A k \in i .. e : s[k] \in Chars
    BY <1>1, <1>2 DEF Text
  <2>2. /\ SubSeq(t, i + d, e + d) \in Seq(Chars) /\ SubSeq(s, i, e) \in Seq(Chars)
        /\ Len(SubSeq(t, i + d, e + d)) = e - i + 1 /\ Len(SubSeq(s, i, e)) = e - i + 1
        /\ \A k \in 1 .. e - i + 1 : SubSeq(t, i + d, e + d)[k] = t[i + d + k - 1]
        /\ \A k \in 1 .. e - i + 1 : SubSeq(s, i, e)[k] = s[i + k - 1]
    BY <1>1, <1>2, <2>1, SubSeqProperties
  <2>3. ASSUME NEW k \in 1 .. e - i + 1
        PROVE  SubSeq(t, i + d, e + d)[k] = SubSeq(s, i, e)[k]
    <3>1. i + k - 1 \in i .. e /\ i + d + k - 1 = (i + k - 1) + d
      BY <1>1
    <3> QED
      BY <2>2, <3>1
  <2> QED
    BY <2>2, <2>3, SeqEqual
<1> QED
  BY <1>6, <1>7

\* The names of a string are sequences of characters.
LEMMA ComponentsFacts ==
    ASSUME NEW s \in Text
    PROVE  /\ Components(s) \in Seq(Seq(Chars))
           /\ Len(Components(s)) = Cardinality(Starts(s))
           /\ \A n \in 1 .. Cardinality(Starts(s)) :
                  /\ Nth(Starts(s), n) \in Starts(s)
                  /\ Components(s)[n] = NameAt(s, Nth(Starts(s), n))
<1> DEFINE N == Cardinality(Starts(s))
<1>1. /\ Starts(s) \subseteq Nat /\ IsFiniteSet(Starts(s)) /\ N \in Nat
      /\ \A i \in Starts(s) : i \in 1 .. Len(s) /\ s[i] # "/"
      /\ Len(s) \in Nat
  BY StartsFacts DEF Text
<1>2. ASSUME NEW n \in 1 .. N
      PROVE  Nth(Starts(s), n) \in Starts(s) /\ NameAt(s, Nth(Starts(s), n)) \in Seq(Chars)
  <2>1. Nth(Starts(s), n) \in Starts(s)
    BY <1>1, NthFacts
  <2> DEFINE i == Nth(Starts(s), n)
  <2>2. i \in 1 .. Len(s) /\ s[i] # "/"
    BY <1>1, <2>1
  <2>3. PICK e \in i .. Len(s) : NameAt(s, i) = SubSeq(s, i, e)
    BY <2>2, NameEnds
  <2>4. \A k \in i .. e : s[k] \in Chars
    BY <1>1, <2>2, <2>3 DEF Text
  <2>5. SubSeq(s, i, e) \in Seq(Chars)
    BY <1>1, <2>2, <2>3, <2>4, SubSeqProperties
  <2> QED
    BY <2>1, <2>3, <2>5
<1>3. Components(s) = [n \in 1 .. N |-> NameAt(s, Nth(Starts(s), n))]
  BY DEF Components
<1> HIDE DEF N
<1>4. Components(s) \in [1 .. N -> Seq(Chars)]
  BY <1>2, <1>3
<1>5. Components(s) \in Seq(Seq(Chars)) /\ Len(Components(s)) = N
  BY <1>1, <1>4
<1> QED
  BY <1>2, <1>3, <1>5 DEF N

\* Two strings joined by a slash, by characters.
Joined2(a, b) == a \o <<"/">> \o b

\* c is two sequences put together, element by element.
IsConcat(S, c, s, t) ==
    /\ c \in Seq(S) /\ Len(c) = Len(s) + Len(t)
    /\ \A i \in 1 .. Len(s) + Len(t) : c[i] = IF i <= Len(s) THEN s[i] ELSE t[i - Len(s)]

LEMMA ConcatFacts ==
    ASSUME NEW S, NEW s \in Seq(S), NEW t \in Seq(S)
    PROVE  IsConcat(S, s \o t, s, t)
  BY ConcatProperties DEF IsConcat

\* The characters of two strings that are joined.
LEMMA JoinFacts ==
    ASSUME NEW a \in Text, NEW b \in Text
    PROVE  /\ Joined2(a, b) \in Text /\ Len(Joined2(a, b)) = Len(a) + 1 + Len(b)
           /\ Len(a) \in Nat /\ Len(b) \in Nat
           /\ \A k \in 1 .. Len(a) : Joined2(a, b)[k] = a[k]
           /\ Joined2(a, b)[Len(a) + 1] = "/"
           /\ \A k \in 1 .. Len(b) : Joined2(a, b)[k + (Len(a) + 1)] = b[k]
<1> DEFINE l == a \o <<"/">>
<1>1. <<"/">> \in Seq(Chars) /\ Len(<<"/">>) = 1 /\ <<"/">>[1] = "/" /\ Len(a) \in Nat /\ Len(b) \in Nat
  BY PathMapAssumption DEF Text
<1>2. a \in Seq(Chars) /\ b \in Seq(Chars)
  BY DEF Text
<1>3. /\ l \in Seq(Chars) /\ Len(l) = Len(a) + 1
      /\ \A i \in 1 .. Len(a) + 1 : l[i] = IF i <= Len(a) THEN a[i] ELSE <<"/">>[i - Len(a)]
  BY <1>2, <1>1, ConcatProperties
<1> DEFINE c == l \o b
<1>4. Joined2(a, b) = c
  BY DEF Joined2
<1> HIDE DEF l
<1>5. /\ c \in Seq(Chars) /\ Len(c) = Len(l) + Len(b)
      /\ \A i \in 1 .. Len(l) + Len(b) : c[i] = IF i <= Len(l) THEN l[i] ELSE b[i - Len(l)]
  <2>1. IsConcat(Chars, c, l, b)
    BY <1>2, <1>3, ConcatFacts, Zenon
  <2> QED
    BY <2>1, Zenon DEF IsConcat
<1> HIDE DEF c
<1>6. \A k \in 1 .. Len(a) : c[k] = a[k]
  BY <1>1, <1>3, <1>5
<1>7. c[Len(a) + 1] = "/"
  BY <1>1, <1>3, <1>5
<1>8. \A k \in 1 .. Len(b) : c[k + (Len(a) + 1)] = b[k]
  <2> TAKE k \in 1 .. Len(b)
  <2>1. /\ k + (Len(a) + 1) \in 1 .. Len(l) + Len(b) /\ ~(k + (Len(a) + 1) <= Len(l))
        /\ k + (Len(a) + 1) - Len(l) = k
    BY <1>1, <1>3
  <2> QED
    BY <1>5, <2>1
<1> QED
  BY <1>1, <1>3, <1>4, <1>5, <1>6, <1>7, <1>8 DEF Text

\* The starts of the names.
LEMMA StartsOfJoined ==
    ASSUME NEW a \in Text, NEW b \in Text
    PROVE  \A x : x \in Starts(Joined2(a, b)) <=> x \in Starts(a) \/ \E j \in Starts(b) : x = j + (Len(a) + 1)
<1> DEFINE d == Len(a) + 1
           c == Joined2(a, b)
<1>1. /\ c \in Text /\ Len(c) = d + Len(b) /\ Len(a) \in Nat /\ Len(b) \in Nat
      /\ \A k \in 1 .. Len(a) : c[k] = a[k]
      /\ c[d] = "/"
      /\ \A k \in 1 .. Len(b) : c[k + d] = b[k]
  BY JoinFacts
<1> HIDE DEF c
<1>2. DOMAIN a = 1 .. Len(a) /\ DOMAIN b = 1 .. Len(b) /\ DOMAIN c = 1 .. Len(c)
  BY <1>1 DEF Text
<1>3. ASSUME NEW i \in 1 .. Len(a)
      PROVE  i \in Starts(c) <=> i \in Starts(a)
  <2>1. i \in 1 .. Len(c) /\ c[i] = a[i]
    BY <1>1
  <2>2. i # 1 => c[i - 1] = a[i - 1]
    BY <1>1
  <2> QED
    BY <1>2, <2>1, <2>2 DEF Starts
<1>4. ASSUME NEW j \in 1 .. Len(b)
      PROVE  j + d \in Starts(c) <=> j \in Starts(b)
  <2>1. j + d \in 1 .. Len(c) /\ c[j + d] = b[j] /\ j + d # 1
    BY <1>1
  <2>2. j = 1 => c[j + d - 1] = "/"
    BY <1>1
  <2>3. j # 1 => c[j + d - 1] = b[j - 1]
    <3> HAVE j # 1
    <3>1. j - 1 \in 1 .. Len(b) /\ (j - 1) + d = j + d - 1
      BY <1>1
    <3> QED
      BY <1>1, <3>1
  <2> QED
    BY <1>2, <2>1, <2>2, <2>3 DEF Starts
<1>5. d \notin Starts(c)
  BY <1>1 DEF Starts
<1>6. ASSUME NEW i \in 1 .. Len(c)
      PROVE  i \in 1 .. Len(a) \/ i = d \/ \E j \in 1 .. Len(b) : i = j + d
  <2>1. CASE i > d
    <3>1. i - d \in 1 .. Len(b) /\ i = (i - d) + d
      BY <1>1, <2>1
    <3> QED
      BY <3>1
  <2> QED
    BY <1>1, <2>1
<1>7. Starts(a) \subseteq 1 .. Len(a) /\ Starts(b) \subseteq 1 .. Len(b) /\ Starts(c) \subseteq 1 .. Len(c)
  BY <1>2 DEF Starts
<1> HIDE DEF d
<1>8. \A i \in Starts(c) : i \in Starts(a) \/ \E j \in Starts(b) : i = j + d
  BY <1>3, <1>4, <1>5, <1>6, <1>7
<1>9. \A i \in Starts(a) : i \in Starts(c)
  BY <1>3, <1>7
<1>10. \A j \in Starts(b) : j + d \in Starts(c)
  BY <1>4, <1>7
<1> QED
  BY <1>8, <1>9, <1>10, Zenon DEF d, c

\* The names of two strings joined by a slash are those of the first, then those of the second.
LEMMA ComponentsOfJoined ==
    ASSUME NEW a \in Text, NEW b \in Text
    PROVE  Components(Joined2(a, b)) = Components(a) \o Components(b)
<1> DEFINE c == Joined2(a, b)
           d == Len(a) + 1
           A == Starts(a)
           B == Starts(b)
           C == Starts(c)
<1>1. /\ c \in Text /\ Len(c) = d + Len(b) /\ Len(a) \in Nat /\ Len(b) \in Nat
      /\ \A k \in 1 .. Len(a) : c[k] = a[k]
      /\ c[d] = "/"
      /\ \A k \in 1 .. Len(b) : c[k + d] = b[k]
  BY JoinFacts
<1>2. /\ A \subseteq Nat /\ IsFiniteSet(A) /\ \A i \in A : i \in 1 .. Len(a) /\ a[i] # "/"
      /\ B \subseteq Nat /\ IsFiniteSet(B) /\ \A i \in B : i \in 1 .. Len(b) /\ b[i] # "/"
      /\ Cardinality(A) \in Nat /\ Cardinality(B) \in Nat
  BY StartsFacts
<1>3. \A x : x \in C <=> x \in A \/ \E j \in B : x = j + d
  BY StartsOfJoined
<1>4. d \in Nat /\ (\A i \in A : i =< d) /\ (\A j \in B : 0 < j)
  BY <1>1, <1>2
<1>5. /\ Components(a) \in Seq(Seq(Chars)) /\ Len(Components(a)) = Cardinality(A)
      /\ \A n \in 1 .. Cardinality(A) : Nth(A, n) \in A /\ Components(a)[n] = NameAt(a, Nth(A, n))
  BY ComponentsFacts
<1>6. /\ Components(b) \in Seq(Seq(Chars)) /\ Len(Components(b)) = Cardinality(B)
      /\ \A n \in 1 .. Cardinality(B) : Nth(B, n) \in B /\ Components(b)[n] = NameAt(b, Nth(B, n))
  BY ComponentsFacts
<1>7. /\ Components(c) \in Seq(Seq(Chars)) /\ Len(Components(c)) = Cardinality(C)
      /\ \A n \in 1 .. Cardinality(C) : Nth(C, n) \in C /\ Components(c)[n] = NameAt(c, Nth(C, n))
  BY <1>1, ComponentsFacts
<1> HIDE DEF A, B, C, c, d
<1>8. /\ Cardinality(C) = Cardinality(A) + Cardinality(B)
      /\ \A n \in 1 .. Cardinality(A) : Nth(C, n) = Nth(A, n)
      /\ \A n \in 1 .. Cardinality(B) : Nth(C, Cardinality(A) + n) = Nth(B, n) + d
  <2>1. IsThen(C, A, B, d)
    BY <1>2, <1>3, <1>4, Zenon DEF IsThen
  <2> QED
    BY <2>1, NthOfUnion
<1>9. ASSUME NEW i \in A
      PROVE  NameAt(c, i) = NameAt(a, i)
  <2>1. i \in 1 .. Len(a) /\ a[i] # "/"
    BY <1>2
  <2>2. PICK e \in i .. Len(a) : IsNameIn(a, i, e)
    BY <2>1, NameEnds
  <2>3. /\ i + 0 >= 1 /\ e + 0 =< Len(c) /\ i + 0 = i /\ e + 0 = e
        /\ \A k \in i .. e : c[k + 0] = a[k]
    BY <1>1, <2>1, <2>2 DEF d
  <2>4. e + 0 = Len(c) \/ c[e + 0 + 1] = "/"
    <3>1. CASE e = Len(a)
      BY <1>1, <3>1 DEF d
    <3>2. CASE e # Len(a) /\ a[e + 1] = "/"
      <4>1. e + 1 \in 1 .. Len(a) /\ e + 0 + 1 = e + 1
        BY <1>1, <2>1, <2>2, <3>2
      <4> QED
        BY <1>1, <3>2, <4>1
    <3> QED
      BY <2>2, <3>1, <3>2 DEF IsNameIn
  <2>5. NameAt(c, i + 0) = NameAt(a, i)
    BY <1>1, <2>1, <2>2, <2>3, <2>4, 0 \in Int, NameMoves, Zenon
  <2> QED
    BY <2>3, <2>5, Zenon
<1>10. ASSUME NEW i \in B
       PROVE  NameAt(c, i + d) = NameAt(b, i)
  <2>1. i \in 1 .. Len(b) /\ b[i] # "/"
    BY <1>2
  <2>2. PICK e \in i .. Len(b) : IsNameIn(b, i, e)
    BY <2>1, NameEnds
  <2>3. /\ i + d >= 1 /\ e + d =< Len(c)
        /\ \A k \in i .. e : c[k + d] = b[k]
    BY <1>1, <1>4, <2>1, <2>2
  <2>4. e + d = Len(c) \/ c[e + d + 1] = "/"
    <3>1. CASE e = Len(b)
      BY <1>1, <1>4, <3>1
    <3>2. CASE e # Len(b) /\ b[e + 1] = "/"
      <4>1. e + 1 \in 1 .. Len(b) /\ e + d + 1 = (e + 1) + d
        BY <1>1, <1>4, <2>1, <2>2, <3>2
      <4> QED
        BY <1>1, <3>2, <4>1
    <3> QED
      BY <2>2, <3>1, <3>2 DEF IsNameIn
  <2>5. d \in Int
    BY <1>4
  <2> QED
    BY <1>1, <2>1, <2>2, <2>3, <2>4, <2>5, NameMoves, Zenon
<1>11. /\ Components(a) \o Components(b) \in Seq(Seq(Chars))
       /\ Len(Components(a) \o Components(b)) = Len(Components(a)) + Len(Components(b))
       /\ \A n \in 1 .. Len(Components(a)) + Len(Components(b)) : (Components(a) \o Components(b))[n] =
              IF n <= Len(Components(a)) THEN Components(a)[n] ELSE Components(b)[n - Len(Components(a))]
  <2>1. IsConcat(Seq(Chars), Components(a) \o Components(b), Components(a), Components(b))
    BY <1>5, <1>6, ConcatFacts, Zenon
  <2> QED
    BY <2>1, Zenon DEF IsConcat
<1>12. /\ Components(a) \o Components(b) \in Seq(Seq(Chars))
       /\ Len(Components(a) \o Components(b)) = Cardinality(C)
       /\ \A n \in 1 .. Cardinality(C) : (Components(a) \o Components(b))[n] =
              IF n <= Cardinality(A) THEN Components(a)[n] ELSE Components(b)[n - Cardinality(A)]
  BY <1>5, <1>6, <1>8, <1>11, Zenon
<1>13. ASSUME NEW n \in 1 .. Cardinality(C)
       PROVE  Components(c)[n] = (Components(a) \o Components(b))[n]
  <2>1. CASE n <= Cardinality(A)
    <3>1. n \in 1 .. Cardinality(A)
      BY <1>2, <1>8, <2>1
    <3> QED
      BY <1>5, <1>7, <1>8, <1>9, <1>12, <2>1, <3>1
  <2>2. CASE ~(n <= Cardinality(A))
    <3> DEFINE m == n - Cardinality(A)
    <3>1. m \in 1 .. Cardinality(B) /\ Cardinality(A) + m = n
      BY <1>2, <1>8, <2>2
    <3>2. NameAt(c, Nth(C, n)) = NameAt(b, Nth(B, m))
      BY <1>6, <1>8, <1>10, <3>1
    <3> QED
      BY <1>6, <1>7, <1>12, <2>2, <3>1, <3>2
  <2> QED
    BY <2>1, <2>2
<1>14. Components(c) = Components(a) \o Components(b)
  BY <1>7, <1>12, <1>13, SeqEqual
<1> QED
  BY <1>14 DEF c

-----------------------------------------------------------------------------
(* What is left of a string without the slashes at its end. *)

Body(s) == SubSeq(s, 1, Max({0} \cup {i \in DOMAIN s : s[i] # "/"}))

\* It ends in no slash, and only slashes are cut off (removeTrailingSlashes, local.cc:14-20).
LEMMA BodyFacts ==
    ASSUME NEW s \in Text
    PROVE  /\ Body(s) \in Text
           /\ Len(Body(s)) \in Nat /\ Len(s) \in Nat /\ Len(Body(s)) =< Len(s)
           /\ \A i \in 1 .. Len(Body(s)) : Body(s)[i] = s[i]
           /\ \A i \in 1 .. Len(s) : i > Len(Body(s)) => s[i] = "/"
           /\ Body(s) # <<>> => Body(s)[Len(Body(s))] # "/"
           /\ removeTrailingSlashes(s) = IF Last(s) = "/" THEN Append(Body(s), "/") ELSE Body(s)
<1> DEFINE E == {0} \cup {i \in DOMAIN s : s[i] # "/"}
           k == Max(E)
<1>1. Len(s) \in Nat /\ DOMAIN s = 1 .. Len(s) /\ \A i \in 1 .. Len(s) : s[i] \in Chars
  BY DEF Text
<1>2. E \subseteq Nat /\ 0 \in E /\ \A x \in E : x =< Len(s)
  BY <1>1
<1>3. k \in E /\ \A x \in E : x =< k
  <2> HIDE DEF E
  <2>1. E # {}
    BY <1>2
  <2> QED
    BY <1>1, <1>2, <2>1, MaxFacts
<1>4. /\ k \in 0 .. Len(s)
      /\ k # 0 => s[k] # "/"
      /\ \A i \in 1 .. Len(s) : s[i] # "/" => i =< k
  <2>1. k \in Nat /\ k =< Len(s) /\ (k # 0 => s[k] # "/")
    BY <1>2, <1>3
  <2>2. ASSUME NEW i \in 1 .. Len(s), s[i] # "/"
        PROVE  i =< k
    <3>1. i \in E
      BY <1>1, <2>2
    <3> QED
      BY <1>3, <3>1, Zenon
  <2> QED
    BY <1>1, <2>1, <2>2
<1>5. Body(s) = SubSeq(s, 1, k)
  BY DEF Body
<1> HIDE DEF k, E
<1>6. \A i \in 1 .. k : s[i] \in Chars
  BY <1>1, <1>4
<1>7. /\ Body(s) \in Seq(Chars) /\ Len(Body(s)) = k
      /\ \A i \in 1 .. k : Body(s)[i] = s[i]
  BY <1>1, <1>4, <1>5, <1>6, SubSeqProperties
<1>8. \A i \in 1 .. Len(s) : i > k => s[i] = "/"
  BY <1>1, <1>4
<1>9. Body(s) # <<>> => Body(s)[k] # "/"
  BY <1>1, <1>4, <1>7
<1>10. removeTrailingSlashes(s) = IF Last(s) = "/" THEN Append(Body(s), "/") ELSE Body(s)
  BY Zenon DEF removeTrailingSlashes, Body
<1> QED
  BY <1>1, <1>4, <1>7, <1>8, <1>9, <1>10 DEF Text

\* Strings with names at the same places have the same names.
LEMMA SameComponents ==
    ASSUME NEW s \in Text, NEW t \in Text, Starts(s) = Starts(t),
           \A i \in Starts(s) : NameAt(s, i) = NameAt(t, i)
    PROVE  Components(s) = Components(t)
<1>1. \A n \in 1 .. Cardinality(Starts(s)) : Nth(Starts(s), n) \in Starts(s)
  BY StartsFacts, NthFacts
<1> QED
  BY <1>1, Zenon DEF Components

\* The slashes at the end belong to no name.
LEMMA ComponentsOfBody ==
    ASSUME NEW s \in Text
    PROVE  Components(Body(s)) = Components(s)
<1> DEFINE b == Body(s)
<1>1. /\ b \in Text /\ Len(b) \in Nat /\ Len(s) \in Nat /\ Len(b) =< Len(s)
      /\ \A i \in 1 .. Len(b) : b[i] = s[i]
      /\ \A i \in 1 .. Len(s) : i > Len(b) => s[i] = "/"
  BY BodyFacts
<1>2. DOMAIN b = 1 .. Len(b) /\ DOMAIN s = 1 .. Len(s)
  BY <1>1 DEF Text
<1> HIDE DEF b
<1>3. Starts(b) = Starts(s)
  <2>1. Starts(s) \subseteq 1 .. Len(b)
    BY <1>1, <1>2 DEF Starts
  <2>2. Starts(b) \subseteq 1 .. Len(b)
    BY <1>2 DEF Starts
  <2>3. ASSUME NEW i \in 1 .. Len(b)
        PROVE  i \in Starts(b) <=> i \in Starts(s)
    <3>1. i \in 1 .. Len(s) /\ b[i] = s[i]
      BY <1>1
    <3>2. i # 1 => i - 1 \in 1 .. Len(b)
      BY <1>1
    <3>3. i # 1 => b[i - 1] = s[i - 1]
      BY <1>1, <3>2
    <3> QED
      BY <1>2, <3>1, <3>3 DEF Starts
  <2> QED
    BY <2>1, <2>2, <2>3
<1>4. ASSUME NEW i \in Starts(b)
      PROVE  NameAt(b, i) = NameAt(s, i)
  <2>1. i \in 1 .. Len(b) /\ b[i] # "/"
    BY <1>1, StartsFacts
  <2>2. PICK e \in i .. Len(b) : IsNameIn(b, i, e)
    BY <1>1, <2>1, NameEnds
  <2>3. /\ i + 0 >= 1 /\ e + 0 =< Len(s) /\ i + 0 = i /\ e + 0 = e
        /\ \A k \in i .. e : s[k + 0] = b[k]
    BY <1>1, <2>1, <2>2
  <2>4. e + 0 = Len(s) \/ s[e + 0 + 1] = "/"
    <3>1. e + 0 + 1 = e + 1
      BY <2>1, <2>2
    <3>2. CASE e = Len(b)
      BY <1>1, <3>1, <3>2
    <3>3. CASE e # Len(b) /\ b[e + 1] = "/"
      <4>1. e + 1 \in 1 .. Len(b)
        BY <1>1, <2>1, <2>2, <3>3
      <4> QED
        BY <1>1, <3>1, <3>3, <4>1
    <3> QED
      BY <2>2, <3>2, <3>3 DEF IsNameIn
  <2>5. s \in Text /\ 0 \in Int
    OBVIOUS
  <2>6. NameAt(s, i + 0) = NameAt(b, i)
    BY <1>1, <2>1, <2>2, <2>3, <2>4, <2>5, NameMoves, Zenon
  <2> QED
    BY <2>3, <2>6, Zenon
<1>5. Components(b) = Components(s)
  BY <1>1, <1>3, <1>4, SameComponents
<1> QED
  BY <1>5 DEF b

-----------------------------------------------------------------------------
(* Strings with one slash before every name and none at the end. *)

Clean(b) ==
    /\ b \in Text
    /\ b # <<>> => b[1] = "/" /\ b[Len(b)] # "/"
    /\ \A i \in 2 .. Len(b) : b[i] = "/" => b[i - 1] # "/"

\* Where their names are.
StartOf(a, n) == Nth(Starts(a), n)

EndOf(a, n) == StartOf(a, n) + Len(Components(a)[n]) - 1

\* The names of a clean string follow each other with one slash between, from its second
\* character to its last.
LEMMA CleanNames ==
    ASSUME NEW a, Clean(a)
    PROVE  /\ Len(Components(a)) \in Nat
           /\ a = <<>> <=> Len(Components(a)) = 0
           /\ \A n \in 1 .. Len(Components(a)) :
                  /\ StartOf(a, n) \in Starts(a) /\ IsNameIn(a, StartOf(a, n), EndOf(a, n))
                  /\ StartOf(a, n) \in 1 .. Len(a) /\ EndOf(a, n) \in StartOf(a, n) .. Len(a)
                  /\ Components(a)[n] = SubSeq(a, StartOf(a, n), EndOf(a, n))
           /\ Len(Components(a)) > 0 => StartOf(a, 1) = 2
           /\ \A n \in 1 .. Len(Components(a)) - 1 : StartOf(a, n + 1) = EndOf(a, n) + 2
           /\ Len(Components(a)) > 0 => EndOf(a, Len(Components(a))) = Len(a)
<1> DEFINE N == Len(Components(a))
           start == [n \in 1 .. N |-> StartOf(a, n)]
           end == [n \in 1 .. N |-> start[n] + Len(Components(a)[n]) - 1]
<1>1. \A n \in 1 .. N : start[n] = Nth(Starts(a), n) /\ start[n] = StartOf(a, n) /\ end[n] = EndOf(a, n)
  BY DEF StartOf, EndOf
<1>2. \A n \in 1 .. N : end[n] = start[n] + Len(Components(a)[n]) - 1
  OBVIOUS
<1> DEFINE A == Starts(a)
<1>3. /\ a \in Text /\ Len(a) \in Nat /\ DOMAIN a = 1 .. Len(a)
      /\ a # <<>> => Len(a) > 0 /\ a[1] = "/" /\ a[Len(a)] # "/"
      /\ \A i \in 2 .. Len(a) : a[i] = "/" => a[i - 1] # "/"
  BY DEF Clean, Text
<1>4. /\ A \subseteq Nat /\ IsFiniteSet(A) /\ Cardinality(A) \in Nat
      /\ \A i \in A : i \in 1 .. Len(a) /\ a[i] # "/" /\ (i = 1 \/ a[i - 1] = "/")
  BY <1>3, StartsFacts
<1>5. /\ N = Cardinality(A) /\ N \in Nat
      /\ \A n \in 1 .. N : start[n] \in A /\ Components(a)[n] = NameAt(a, start[n])
  BY <1>3, <1>4, <1>1, ComponentsFacts
<1> HIDE DEF N, start, end
<1>6. ASSUME NEW i \in 1 .. Len(a)
      PROVE  i \in A <=> a[i] # "/" /\ (i = 1 \/ a[i - 1] = "/")
  BY <1>3 DEF Starts
<1> HIDE DEF A
<1>7. ASSUME NEW n \in 1 .. N
      PROVE  /\ IsNameIn(a, start[n], end[n]) /\ end[n] \in start[n] .. Len(a)
             /\ start[n] \in 1 .. Len(a) /\ Components(a)[n] = SubSeq(a, start[n], end[n])
             /\ Cardinality(UpTo(A, start[n])) = n
  <2>1. start[n] \in A /\ start[n] \in 1 .. Len(a) /\ a[start[n]] # "/"
    BY <1>4, <1>5
  <2>2. PICK e \in start[n] .. Len(a) : IsNameIn(a, start[n], e) /\ NameAt(a, start[n]) = SubSeq(a, start[n], e)
    BY <1>3, <2>1, NameEnds
  <2>3. \A k \in start[n] .. e : a[k] \in Chars
    BY <1>3, <2>1, <2>2 DEF Text
  <2>4. Len(SubSeq(a, start[n], e)) = e - start[n] + 1
    BY <1>3, <2>1, <2>2, <2>3, SubSeqProperties
  <2>5. end[n] = start[n] + (e - start[n] + 1) - 1
    BY <1>5, <1>2, <2>2, <2>4
  <2>6. end[n] = e
    BY <1>3, <2>1, <2>2, <2>5
  <2>7. Cardinality(UpTo(A, start[n])) = n
    BY <1>4, <1>5, <1>1, NthFacts DEF A
  <2> QED
    BY <1>5, <2>1, <2>2, <2>6, <2>7
<1>8. ASSUME a # <<>>
      PROVE  2 \in A /\ Nth(A, 1) = 2 /\ N > 0 /\ start[1] = 2
  <2>1. Len(a) >= 2 /\ a[2] # "/"
    <3>1. Len(a) # 1
      BY <1>3, <1>8
    <3>2. 2 \in 2 .. Len(a)
      BY <1>3, <1>8, <3>1
    <3>3. a[2] = "/" => a[2 - 1] # "/"
      BY <1>3, <3>2
    <3> QED
      BY <1>3, <1>8, <3>2, <3>3
  <2>2. 2 \in A /\ 1 \notin A /\ 0 \notin A
    BY <1>3, <1>4, <1>6, <1>8, <2>1
  <2>3. UpTo(A, 2) = {2}
    <3>1. \A j \in A : j =< 2 <=> j = 2
      BY <1>4, <2>2
    <3> QED
      BY <2>2, <3>1 DEF UpTo
  <2>4. Cardinality(UpTo(A, 2)) = 1
    BY <2>3, FS_Singleton
  <2>5. Nth(A, 1) = 2
    BY <1>4, <2>2, <2>4, NthIs
  <2>6. 1 \in 1 .. N
    <3>1. Cardinality(UpTo(A, 2)) \in 1 .. Cardinality(A)
      BY <1>4, <2>2, NthFacts
    <3> QED
      BY <1>5, <2>4, <3>1
  <2> QED
    BY <1>5, <1>1, <2>2, <2>5, <2>6 DEF A
<1>9. a = <<>> => N = 0
  <2> SUFFICES ASSUME a = <<>>, N > 0
               PROVE  FALSE
    BY <1>5
  <2> QED
    BY <1>5, <1>7
<1>10. ASSUME NEW n \in 1 .. N
       PROVE  \A j \in A : j > start[n] /\ j =< end[n] => FALSE
  <2> SUFFICES ASSUME NEW j \in A, j > start[n], j =< end[n]
               PROVE  FALSE
    OBVIOUS
  <2>1. j - 1 \in start[n] .. end[n] /\ j # 1 /\ a[j - 1] = "/"
    BY <1>3, <1>4, <1>7
  <2> QED
    BY <1>7, <2>1 DEF IsNameIn
<1>11. ASSUME NEW n \in 1 .. N, end[n] = Len(a)
       PROVE  n = N
  <2>1. \A j \in A : j =< start[n]
    BY <1>3, <1>4, <1>7, <1>10, <1>11
  <2>2. UpTo(A, start[n]) = A
    BY <2>1 DEF UpTo
  <2> QED
    BY <1>5, <1>7, <2>2
<1>12. ASSUME NEW n \in 1 .. N, end[n] # Len(a)
       PROVE  n < N /\ start[n + 1] = end[n] + 2
  <2>1. a # <<>>
    BY <1>5, <1>9
  <2>2. /\ end[n] + 1 \in 1 .. Len(a) /\ a[end[n] + 1] = "/"
        /\ start[n] \in Nat /\ end[n] \in Nat /\ start[n] =< end[n]
    BY <1>3, <1>7, <1>12 DEF IsNameIn
  <2>3. end[n] + 1 # Len(a)
    BY <1>3, <2>1, <2>2
  <2>4. end[n] + 2 \in 2 .. Len(a) /\ (end[n] + 2) - 1 = end[n] + 1
    BY <1>3, <2>2, <2>3
  <2>5. a[end[n] + 2] # "/"
    BY <1>3, <2>2, <2>4
  <2>6. end[n] + 2 \in A
    BY <1>6, <2>2, <2>4, <2>5
  <2>7. end[n] + 1 \notin A
    BY <1>4, <2>2
  <2>8. \A j \in A : j =< end[n] + 2 <=> j =< start[n] \/ j = end[n] + 2
    <3> TAKE j \in A
    <3>1. j \in Nat /\ j # end[n] + 1
      BY <1>4, <2>7
    <3>2. ~(j > start[n] /\ j =< end[n])
      BY <1>10
    <3> QED
      BY <2>2, <3>1, <3>2
  <2>9. UpTo(A, end[n] + 2) = UpTo(A, start[n]) \cup {end[n] + 2}
    BY <2>6, <2>8, Zenon DEF UpTo
  <2>10. end[n] + 2 \notin UpTo(A, start[n])
    BY <2>2 DEF UpTo
  <2>11. IsFiniteSet(UpTo(A, start[n]))
    <3>1. UpTo(A, start[n]) \in SUBSET A
      BY DEF UpTo
    <3> QED
      BY <1>4, <3>1, FS_Subset
  <2>12. Cardinality(UpTo(A, end[n] + 2)) = n + 1
    <3>1. Cardinality(UpTo(A, end[n] + 2)) = Cardinality(UpTo(A, start[n])) + 1
      BY <2>9, <2>10, <2>11, FS_AddElement
    <3> QED
      BY <1>7, <3>1
  <2>13. n + 1 \in 1 .. N
    <3>1. Cardinality(UpTo(A, end[n] + 2)) \in 1 .. Cardinality(A)
      BY <1>4, <2>6, NthFacts
    <3> QED
      BY <1>5, <2>12, <3>1
  <2>14. Nth(A, n + 1) = end[n] + 2
    BY <1>4, <2>6, <2>12, NthIs
  <2> QED
    BY <1>5, <1>1, <2>13, <2>14 DEF A
<1>13. N > 0 => end[N] = Len(a)
  BY <1>5, <1>12
<1>14. ASSUME NEW n \in 1 .. N - 1
       PROVE  start[n + 1] = end[n] + 2
  <2>1. n \in 1 .. N /\ n # N
    BY <1>5
  <2> QED
    BY <1>11, <1>12, <2>1
<1>15. a = <<>> <=> N = 0
  BY <1>5, <1>8, <1>9
<1>16. N > 0 => start[1] = 2
  BY <1>8, <1>15
<1>17. \A n \in 1 .. N : start[n] \in Starts(a)
  BY <1>5 DEF A
<1>18. N > 0 => 1 \in 1 .. N /\ N \in 1 .. N
  BY <1>5
<1>19. /\ N > 0 => StartOf(a, 1) = 2
       /\ \A n \in 1 .. N - 1 : StartOf(a, n + 1) = EndOf(a, n) + 2
       /\ N > 0 => EndOf(a, N) = Len(a)
  <2>1. \A n \in 1 .. N - 1 : n \in 1 .. N /\ n + 1 \in 1 .. N
    BY <1>5
  <2> QED
    BY <1>1, <1>13, <1>14, <1>16, <1>18, <2>1, Zenon
<1>20. \A n \in 1 .. N : /\ StartOf(a, n) \in Starts(a) /\ IsNameIn(a, StartOf(a, n), EndOf(a, n))
                         /\ StartOf(a, n) \in 1 .. Len(a) /\ EndOf(a, n) \in StartOf(a, n) .. Len(a)
                         /\ Components(a)[n] = SubSeq(a, StartOf(a, n), EndOf(a, n))
  BY <1>7, <1>1, <1>17, Zenon
<1> QED
  BY <1>5, <1>15, <1>19, <1>20, Zenon DEF N

\* If the names of one are the first of those of the other, so are the characters, and
\* the other's next character is a slash.
LEMMA NamesGivePrefix ==
    ASSUME NEW a, Clean(a), NEW b, Clean(b), IsPrefix(Components(a), Components(b))
    PROVE  /\ Len(a) \in Nat /\ Len(b) \in Nat /\ Len(a) =< Len(b)
           /\ \A i \in 1 .. Len(a) : b[i] = a[i]
           /\ Len(a) # Len(b) => b[Len(a) + 1] = "/"
<1> DEFINE N == Len(Components(a))
           M == Len(Components(b))
<1>1. /\ a \in Text /\ b \in Text /\ Len(a) \in Nat /\ Len(b) \in Nat
      /\ a # <<>> => a[1] = "/" /\ a[Len(a)] # "/"
      /\ b # <<>> => b[1] = "/" /\ b[Len(b)] # "/"
      /\ a = <<>> <=> Len(a) = 0
      /\ b = <<>> <=> Len(b) = 0
      /\ \A i \in 2 .. Len(a) : a[i] = "/" => a[i - 1] # "/"
  BY DEF Clean, Text
<1>2. /\ N \in Nat
      /\ a = <<>> <=> N = 0
      /\ \A n \in 1 .. N :
             /\ StartOf(a, n) \in Starts(a) /\ IsNameIn(a, StartOf(a, n), EndOf(a, n))
             /\ StartOf(a, n) \in 1 .. Len(a) /\ EndOf(a, n) \in StartOf(a, n) .. Len(a)
             /\ Components(a)[n] = SubSeq(a, StartOf(a, n), EndOf(a, n))
      /\ N > 0 => StartOf(a, 1) = 2
      /\ \A n \in 1 .. N - 1 : StartOf(a, n + 1) = EndOf(a, n) + 2
      /\ N > 0 => EndOf(a, N) = Len(a)
  BY CleanNames, Zenon
<1>3. /\ M \in Nat
      /\ b = <<>> <=> M = 0
      /\ \A n \in 1 .. M :
             /\ StartOf(b, n) \in Starts(b) /\ IsNameIn(b, StartOf(b, n), EndOf(b, n))
             /\ StartOf(b, n) \in 1 .. Len(b) /\ EndOf(b, n) \in StartOf(b, n) .. Len(b)
             /\ Components(b)[n] = SubSeq(b, StartOf(b, n), EndOf(b, n))
      /\ M > 0 => StartOf(b, 1) = 2
      /\ \A n \in 1 .. M - 1 : StartOf(b, n + 1) = EndOf(b, n) + 2
      /\ M > 0 => EndOf(b, M) = Len(b)
  BY CleanNames, Zenon
<1>4. N =< M /\ \A n \in 1 .. N : Components(b)[n] = Components(a)[n]
  <2>1. /\ Components(a) \in Seq(Seq(Chars)) /\ Components(b) \in Seq(Seq(Chars))
    BY <1>1, ComponentsFacts
  <2>2. N =< M /\ SubSeq(Components(a), 1, N) = SubSeq(Components(b), 1, N)
    BY DEF IsPrefix
  <2>3. \A n \in 1 .. N : SubSeq(Components(a), 1, N)[n] = Components(a)[n]
    BY <1>2, <2>1
  <2>4. \A n \in 1 .. N : SubSeq(Components(b), 1, N)[n] = Components(b)[n]
    BY <1>2, <1>3, <2>1, <2>2
  <2> QED
    BY <2>2, <2>3, <2>4
<1> HIDE DEF N, M
<1>5. \A n \in 1 .. N : n \in 1 .. M
  BY <1>2, <1>3, <1>4
<1>6. ASSUME NEW n \in 1 .. N, StartOf(a, n) = StartOf(b, n)
      PROVE  EndOf(a, n) = EndOf(b, n)
  BY <1>4, <1>6 DEF EndOf
<1>7. \A n \in 1 .. N : StartOf(a, n) = StartOf(b, n)
  <2> DEFINE W == {n \in 1 .. N : StartOf(a, n) # StartOf(b, n)}
  <2> SUFFICES ASSUME W # {}
               PROVE  FALSE
    OBVIOUS
  <2>1. W \subseteq Nat
    BY <1>2
  <2>2. PICK n \in W : \A x \in W : n =< x
    BY <2>1, LeastExists
  <2>3. n \in 1 .. N /\ StartOf(a, n) # StartOf(b, n)
    BY <2>2
  <2>4. n # 1
    BY <1>2, <1>3, <1>4, <2>3
  <2>5. n - 1 \in 1 .. N - 1 /\ n - 1 \in 1 .. M - 1 /\ n - 1 \in 1 .. N /\ (n - 1) + 1 = n
    BY <1>2, <1>3, <1>4, <2>3, <2>4
  <2>6. n - 1 \notin W
    BY <1>2, <2>2, <2>3
  <2>7. StartOf(a, n - 1) = StartOf(b, n - 1)
    BY <2>5, <2>6
  <2>8. EndOf(a, n - 1) = EndOf(b, n - 1)
    BY <1>6, <2>5, <2>7
  <2>9. StartOf(a, (n - 1) + 1) = EndOf(a, n - 1) + 2 /\ StartOf(b, (n - 1) + 1) = EndOf(b, n - 1) + 2
    BY <1>2, <1>3, <2>5, Zenon
  <2> QED
    BY <2>3, <2>5, <2>8, <2>9
<1>8. \A n \in 1 .. N : EndOf(a, n) = EndOf(b, n)
  BY <1>6, <1>7
<1>9. CASE a = <<>>
  BY <1>1, <1>9
<1>10. ASSUME NEW n \in 1 .. N
       PROVE  /\ StartOf(a, n) \in Nat /\ EndOf(a, n) \in Nat /\ StartOf(a, n) =< EndOf(a, n)
              /\ EndOf(a, n) =< Len(a) /\ EndOf(a, n) =< Len(b) /\ StartOf(a, n) >= 1
  <2>1. StartOf(a, n) \in 1 .. Len(a) /\ EndOf(a, n) \in StartOf(a, n) .. Len(a)
    BY <1>2, Zenon
  <2>2. EndOf(b, n) \in StartOf(b, n) .. Len(b) /\ StartOf(b, n) \in 1 .. Len(b)
    BY <1>3, <1>5, Zenon
  <2>3. EndOf(a, n) = EndOf(b, n)
    BY <1>8, Zenon
  <2> QED
    BY <1>1, <2>1, <2>2, <2>3
<1>11. CASE a # <<>>
  <2>1. N > 0 /\ N \in 1 .. N /\ 1 \in 1 .. N
    BY <1>2, <1>11
  <2>2. EndOf(b, N) = Len(a) /\ EndOf(b, N) \in Nat /\ EndOf(b, N) =< Len(b)
    <3>1. EndOf(a, N) = Len(a) /\ EndOf(b, N) = EndOf(a, N)
      BY <1>2, <1>8, <2>1
    <3> QED
      BY <1>10, <2>1, <3>1
  <2>3. Len(a) # Len(b) => b[Len(a) + 1] = "/"
    BY <1>3, <1>5, <2>1, <2>2 DEF IsNameIn
  <2>4. b # <<>> /\ b[1] = a[1]
    <3>1. Len(b) > 0
      BY <1>10, <1>1, <2>1
    <3> QED
      BY <1>1, <1>11, <3>1
  <2>5. ASSUME NEW i \in 2 .. Len(a)
        PROVE  b[i] = a[i]
    <3> DEFINE S == {n \in 1 .. N : StartOf(a, n) =< i}
               n == Max(S)
    <3>1. S \subseteq Nat /\ 1 \in S /\ \A x \in S : x =< N
      BY <1>2, <2>1
    <3>2. n \in S /\ \A x \in S : x =< n
      <4> HIDE DEF S
      <4>1. S # {}
        BY <3>1
      <4> QED
        BY <1>2, <3>1, <4>1, MaxFacts
    <3>3. n \in 1 .. N /\ StartOf(a, n) =< i
      BY <3>2
    <3>4. n # N => StartOf(a, n + 1) > i
      <4> SUFFICES ASSUME n # N, ~(StartOf(a, n + 1) > i)
                   PROVE  FALSE
        OBVIOUS
      <4> HIDE DEF n
      <4>1. n + 1 \in 1 .. N /\ StartOf(a, n + 1) \in Nat
        BY <1>2, <3>3
      <4>2. n + 1 \in S
        BY <4>1
      <4>3. n + 1 =< n
        BY <3>2, <4>2
      <4> QED
        BY <3>3, <4>3
    <3> HIDE DEF n, S
    <3>5. /\ StartOf(a, n) \in Nat /\ EndOf(a, n) \in Nat /\ StartOf(a, n) =< EndOf(a, n)
          /\ EndOf(a, n) =< Len(a) /\ EndOf(a, n) =< Len(b) /\ StartOf(a, n) >= 1
      BY <1>10, <3>3
    <3>6. CASE i =< EndOf(a, n)
      <4>1. SubSeq(b, StartOf(a, n), EndOf(a, n)) = SubSeq(a, StartOf(a, n), EndOf(a, n))
        BY <1>2, <1>3, <1>4, <1>5, <1>7, <1>8, <3>3
      <4>2. /\ \A k \in StartOf(a, n) .. EndOf(a, n) : a[k] \in Chars
            /\ \A k \in StartOf(a, n) .. EndOf(a, n) : b[k] \in Chars
        BY <1>1, <3>5 DEF Text
      <4> DEFINE k == i - StartOf(a, n) + 1
      <4>3. k \in 1 .. EndOf(a, n) - StartOf(a, n) + 1 /\ StartOf(a, n) + k - 1 = i
        BY <3>3, <3>5, <3>6
      <4>4. /\ SubSeq(a, StartOf(a, n), EndOf(a, n))[k] = a[StartOf(a, n) + k - 1]
            /\ SubSeq(b, StartOf(a, n), EndOf(a, n))[k] = b[StartOf(a, n) + k - 1]
        <5> HIDE DEF k
        <5> QED
          BY <3>5, <4>2, <4>3, SubSeqProperties
      <4> QED
        BY <4>1, <4>3, <4>4
    <3>7. CASE i > EndOf(a, n)
      <4>1. n # N
        BY <1>1, <1>2, <2>1, <3>5, <3>7
      <4>2. n \in 1 .. N - 1 /\ n + 1 \in 1 .. N
        BY <1>2, <3>3, <4>1
      <4>3. StartOf(a, n + 1) = EndOf(a, n) + 2
        BY <1>2, <4>2
      <4>4. i = EndOf(a, n) + 1 /\ i + 1 = StartOf(a, n + 1)
        BY <3>4, <3>5, <3>7, <4>1, <4>3
      <4>5. i + 1 \in Starts(a) /\ i + 1 \in Starts(b)
        BY <1>2, <1>3, <1>5, <1>7, <4>2, <4>4
      <4>6. i + 1 # 1 /\ (i + 1) - 1 = i
        OBVIOUS
      <4> QED
        BY <4>5, <4>6 DEF Starts
    <3> QED
      BY <3>5, <3>6, <3>7
  <2> QED
    BY <1>1, <2>2, <2>3, <2>4, <2>5
<1> QED
  BY <1>9, <1>11

-----------------------------------------------------------------------------
(* A target and a path. *)

\* A prefix has the same first characters.
LEMMA PrefixByCharacters ==
    ASSUME NEW S, NEW x \in Seq(S), NEW p \in Seq(S)
    PROVE  IsPrefix(x, p) <=> Len(x) =< Len(p) /\ \A i \in 1 .. Len(x) : p[i] = x[i]
<1>1. Len(x) \in Nat /\ Len(p) \in Nat
  OBVIOUS
<1>2. SUFFICES ASSUME Len(x) =< Len(p)
               PROVE  SubSeq(x, 1, Len(x)) = SubSeq(p, 1, Len(x)) <=> \A i \in 1 .. Len(x) : p[i] = x[i]
  BY DEF IsPrefix
<1>3. /\ \A i \in 1 .. Len(x) : x[i] \in S
      /\ \A i \in 1 .. Len(x) : p[i] \in S
  BY <1>1, <1>2
<1>4. /\ SubSeq(x, 1, Len(x)) \in Seq(S) /\ Len(SubSeq(x, 1, Len(x))) = Len(x)
      /\ \A i \in 1 .. Len(x) : SubSeq(x, 1, Len(x))[i] = x[i]
  BY <1>1, <1>3
<1>5. /\ SubSeq(p, 1, Len(x)) \in Seq(S) /\ Len(SubSeq(p, 1, Len(x))) = Len(x)
      /\ \A i \in 1 .. Len(x) : SubSeq(p, 1, Len(x))[i] = p[i]
  BY <1>1, <1>2, <1>3
<1>6. ASSUME \A i \in 1 .. Len(x) : p[i] = x[i]
      PROVE  SubSeq(x, 1, Len(x)) = SubSeq(p, 1, Len(x))
  <2>1. \A i \in 1 .. Len(x) : SubSeq(x, 1, Len(x))[i] = SubSeq(p, 1, Len(x))[i]
    BY <1>4, <1>5, <1>6
  <2> QED
    BY <1>4, <1>5, <2>1, SeqEqual
<1> QED
  BY <1>4, <1>5, <1>6

\* b is a, a slash and something more.
Below(b, a) == \E r \in Text : r # <<>> /\ b = Joined2(a, r)

\* The same by characters.
LEMMA BelowByCharacters ==
    ASSUME NEW a \in Text, NEW b \in Text
    PROVE  /\ Below(b, a) <=> /\ Len(a) + 1 < Len(b)
                              /\ \A i \in 1 .. Len(a) : b[i] = a[i]
                              /\ b[Len(a) + 1] = "/"
           /\ Len(a) + 1 =< Len(b) /\ (\A i \in 1 .. Len(a) : b[i] = a[i]) /\ b[Len(a) + 1] = "/" =>
                  b = Joined2(a, SubSeq(b, Len(a) + 2, Len(b)))
<1>1. Len(a) \in Nat /\ Len(b) \in Nat
  BY DEF Text
<1>2. ASSUME Below(b, a)
      PROVE  /\ Len(a) + 1 < Len(b)
             /\ \A i \in 1 .. Len(a) : b[i] = a[i]
             /\ b[Len(a) + 1] = "/"
  <2>1. PICK r \in Text : r # <<>> /\ b = Joined2(a, r)
    BY <1>2 DEF Below
  <2>2. Len(r) > 0
    BY <2>1 DEF Text
  <2>3. /\ Len(Joined2(a, r)) = Len(a) + 1 + Len(r) /\ Len(r) \in Nat
        /\ \A k \in 1 .. Len(a) : Joined2(a, r)[k] = a[k]
        /\ Joined2(a, r)[Len(a) + 1] = "/"
    BY JoinFacts
  <2> QED
    BY <1>1, <2>1, <2>2, <2>3
<1>3. ASSUME Len(a) + 1 =< Len(b), \A i \in 1 .. Len(a) : b[i] = a[i], b[Len(a) + 1] = "/"
      PROVE  b = Joined2(a, SubSeq(b, Len(a) + 2, Len(b))) /\ SubSeq(b, Len(a) + 2, Len(b)) \in Text
             /\ Len(SubSeq(b, Len(a) + 2, Len(b))) = Len(b) - Len(a) - 1
  <2> DEFINE r == SubSeq(b, Len(a) + 2, Len(b))
             m == Len(a) + 2
  <2>1. \A i \in m .. Len(b) : b[i] \in Chars
    BY <1>1 DEF Text
  <2>2. m \in Int /\ Len(b) \in Int
    BY <1>1
  <2>3. /\ SubSeq(b, m, Len(b)) \in Seq(Chars)
        /\ Len(SubSeq(b, m, Len(b))) = IF m <= Len(b) THEN Len(b) - m + 1 ELSE 0
        /\ \A i \in 1 .. Len(b) - m + 1 : SubSeq(b, m, Len(b))[i] = b[m + i - 1]
    <3> HIDE DEF m
    <3> QED
      BY <2>1, <2>2, SubSeqProperties
  <2>4. /\ r \in Text /\ Len(r) = Len(b) - Len(a) - 1
        /\ \A i \in 1 .. Len(r) : r[i] = b[Len(a) + 1 + i]
    BY <1>1, <1>3, <2>3 DEF Text
  <2> HIDE DEF r
  <2>5. /\ Joined2(a, r) \in Text /\ Len(Joined2(a, r)) = Len(a) + 1 + Len(r)
        /\ \A k \in 1 .. Len(a) : Joined2(a, r)[k] = a[k]
        /\ Joined2(a, r)[Len(a) + 1] = "/"
        /\ \A k \in 1 .. Len(r) : Joined2(a, r)[k + (Len(a) + 1)] = r[k]
    BY <2>4, JoinFacts
  <2>6. ASSUME NEW i \in 1 .. Len(b)
        PROVE  b[i] = Joined2(a, r)[i]
    <3>1. CASE i =< Len(a) + 1
      BY <1>1, <1>3, <2>5, <3>1
    <3>2. CASE i > Len(a) + 1
      <4>1. /\ i - (Len(a) + 1) \in 1 .. Len(r)
            /\ (i - (Len(a) + 1)) + (Len(a) + 1) = i
            /\ Len(a) + 1 + (i - (Len(a) + 1)) = i
        BY <1>1, <2>4, <3>2
      <4> QED
        BY <2>4, <2>5, <4>1
    <3> QED
      BY <1>1, <3>1, <3>2
  <2>7. Len(b) = Len(Joined2(a, r))
    BY <1>1, <2>4, <2>5
  <2>8. b = Joined2(a, r)
    BY <2>5, <2>6, <2>7, SeqEqual DEF Text
  <2> QED
    BY <2>4, <2>8 DEF r
<1>4. ASSUME Len(a) + 1 < Len(b), \A i \in 1 .. Len(a) : b[i] = a[i], b[Len(a) + 1] = "/"
      PROVE  Below(b, a)
  <2>1. Len(a) + 1 =< Len(b)
    BY <1>1, <1>4
  <2>2. /\ b = Joined2(a, SubSeq(b, Len(a) + 2, Len(b))) /\ SubSeq(b, Len(a) + 2, Len(b)) \in Text
        /\ Len(SubSeq(b, Len(a) + 2, Len(b))) = Len(b) - Len(a) - 1
    BY <1>3, <1>4, <2>1
  <2> DEFINE r == SubSeq(b, Len(a) + 2, Len(b))
  <2>3. r # <<>>
    <3>1. Len(r) > 0
      BY <1>1, <1>4, <2>2
    <3> HIDE DEF r
    <3> QED
      BY <3>1
  <2> QED
    BY <2>2, <2>3 DEF Below
<1> QED
  BY <1>2, <1>3, <1>4

\* The names of a clean string are the first of another's exactly if it is this string or
\* one below it; that has more names.
LEMMA PrefixOfNames ==
    ASSUME NEW a, Clean(a), NEW b, Clean(b)
    PROVE  /\ IsPrefix(Components(a), Components(b)) <=> b = a \/ Below(b, a)
           /\ Below(b, a) => Len(Components(a)) < Len(Components(b))
<1>1. /\ a \in Text /\ b \in Text /\ Len(a) \in Nat /\ Len(b) \in Nat
      /\ b # <<>> => b[1] = "/" /\ b[Len(b)] # "/"
      /\ \A i \in 2 .. Len(b) : b[i] = "/" => b[i - 1] # "/"
  BY DEF Clean, Text
<1>2. /\ Components(a) \in Seq(Seq(Chars)) /\ Components(b) \in Seq(Seq(Chars))
      /\ Len(Components(a)) \in Nat /\ Len(Components(b)) \in Nat
  BY <1>1, ComponentsFacts
<1>3. ASSUME IsPrefix(Components(a), Components(b))
      PROVE  b = a \/ Below(b, a)
  <2>1. /\ Len(a) =< Len(b)
        /\ \A i \in 1 .. Len(a) : b[i] = a[i]
        /\ Len(a) # Len(b) => b[Len(a) + 1] = "/"
    BY <1>3, NamesGivePrefix
  <2>2. CASE Len(a) = Len(b)
    BY <1>1, <2>1, <2>2, SeqEqual DEF Text
  <2>3. CASE Len(a) # Len(b)
    <3>1. b # <<>> /\ Len(a) + 1 # Len(b)
      BY <1>1, <2>1, <2>3
    <3>2. Len(a) + 1 < Len(b)
      BY <1>1, <2>1, <2>3, <3>1
    <3> QED
      BY <1>1, <2>1, <2>3, <3>2, BelowByCharacters
  <2> QED
    BY <2>2, <2>3
<1>4. ASSUME Below(b, a)
      PROVE  IsPrefix(Components(a), Components(b)) /\ Len(Components(a)) < Len(Components(b))
  <2>1. PICK r \in Text : r # <<>> /\ b = Joined2(a, r)
    BY <1>4 DEF Below
  <2>2. Components(b) = Components(a) \o Components(r)
    BY <1>1, <2>1, ComponentsOfJoined
  <2>3. Components(r) \in Seq(Seq(Chars)) /\ Len(Components(r)) = Cardinality(Starts(r))
    BY ComponentsFacts
  <2>4. 1 \in Starts(r)
    <3>1. /\ Len(r) > 0 /\ DOMAIN r = 1 .. Len(r) /\ Len(r) \in Nat
      BY <2>1 DEF Text
    <3>2. Len(b) = Len(a) + 1 + Len(r) /\ b[Len(a) + 1] = "/" /\ b[1 + (Len(a) + 1)] = r[1]
      <4>1. /\ Len(Joined2(a, r)) = Len(a) + 1 + Len(r)
            /\ Joined2(a, r)[Len(a) + 1] = "/"
            /\ \A k \in 1 .. Len(r) : Joined2(a, r)[k + (Len(a) + 1)] = r[k]
        BY <1>1, JoinFacts
      <4>2. 1 \in 1 .. Len(r)
        BY <3>1
      <4> QED
        BY <2>1, <4>1, <4>2, Zenon
    <3>3. Len(a) + 2 \in 2 .. Len(b) /\ (Len(a) + 2) - 1 = Len(a) + 1 /\ 1 + (Len(a) + 1) = Len(a) + 2
      BY <1>1, <3>1, <3>2
    <3>4. r[1] # "/"
      BY <1>1, <3>2, <3>3
    <3> QED
      BY <3>1, <3>4 DEF Starts
  <2>5. Cardinality(Starts(r)) > 0
    <3>1. IsFiniteSet(Starts(r)) /\ Cardinality(Starts(r)) \in Nat
      BY StartsFacts
    <3>2. Cardinality(Starts(r)) # 0
      BY <2>4, <3>1, FS_EmptySet
    <3> QED
      BY <3>1, <3>2
  <2>6. /\ Components(a) \o Components(r) \in Seq(Seq(Chars))
        /\ Len(Components(a) \o Components(r)) = Len(Components(a)) + Len(Components(r))
        /\ \A i \in 1 .. Len(Components(a)) + Len(Components(r)) : (Components(a) \o Components(r))[i] =
               IF i <= Len(Components(a)) THEN Components(a)[i] ELSE Components(r)[i - Len(Components(a))]
    <3>1. IsConcat(Seq(Chars), Components(a) \o Components(r), Components(a), Components(r))
      BY <1>2, <2>3, ConcatFacts, Zenon
    <3> QED
      BY <3>1, Zenon DEF IsConcat
  <2>7. Len(Components(a)) < Len(Components(b))
    BY <1>2, <2>2, <2>3, <2>5, <2>6
  <2>8. ASSUME NEW i \in 1 .. Len(Components(a))
        PROVE  Components(b)[i] = Components(a)[i]
    <3>1. i \in 1 .. Len(Components(a)) + Len(Components(r)) /\ i <= Len(Components(a))
      BY <1>2, <2>2, <2>6, <2>7
    <3> QED
      BY <2>2, <2>6, <3>1
  <2>9. Len(Components(a)) =< Len(Components(b))
    BY <1>2, <2>7
  <2> QED
    BY <1>2, <2>7, <2>8, <2>9, PrefixByCharacters
<1>5. ASSUME b = a
      PROVE  IsPrefix(Components(a), Components(b))
  BY <1>2, <1>5, PrefixByCharacters
<1> QED
  BY <1>3, <1>4, <1>5

IsTarget(s) == s \in Text /\ Absolute(s) /\ ~Doubled(s)

\* What is left of a target is clean.
LEMMA TargetFacts ==
    ASSUME NEW s, IsTarget(s)
    PROVE  /\ Clean(Body(s)) /\ Len(Body(s)) \in Nat
           /\ Body(s) = <<>> => Last(s) = "/"
           /\ Components(Body(s)) = Components(s)
           /\ Components(s) = <<>> <=> Body(s) = <<>>
           /\ Len(Components(s)) \in Nat
<1> DEFINE b == Body(s)
<1>1. /\ s \in Text /\ Len(s) \in Nat /\ DOMAIN s = 1 .. Len(s) /\ Len(s) > 0 /\ s[1] = "/"
  BY DEF IsTarget, Absolute, Text
<1>2. /\ b \in Text
      /\ Len(b) \in Nat /\ Len(b) =< Len(s)
      /\ \A i \in 1 .. Len(b) : b[i] = s[i]
      /\ \A i \in 1 .. Len(s) : i > Len(b) => s[i] = "/"
      /\ b # <<>> => b[Len(b)] # "/"
  BY <1>1, BodyFacts
<1> HIDE DEF b
<1>3. b # <<>> <=> Len(b) > 0
  BY <1>2 DEF Text
<1>4. b # <<>> => b[1] = "/"
  BY <1>1, <1>2, <1>3
<1>5. ASSUME NEW i \in 2 .. Len(b), b[i] = "/"
      PROVE  b[i - 1] # "/"
  <2> SUFFICES ASSUME b[i - 1] = "/"
               PROVE  FALSE
    OBVIOUS
  <2>1. /\ i \in DOMAIN s /\ i > 1 /\ s[i] = "/" /\ s[i - 1] = "/"
        /\ Len(b) \in i .. Len(s) /\ s[Len(b)] # "/"
    BY <1>1, <1>2, <1>3, <1>5
  <2> QED
    BY <2>1 DEF IsTarget, Doubled
<1>6. Clean(b)
  BY <1>2, <1>4, <1>5 DEF Clean
<1>7. b = <<>> => Last(s) = "/"
  BY <1>1, <1>2, <1>3 DEF Last
<1>8. Components(b) = Components(s)
  BY <1>1, ComponentsOfBody DEF b
<1>9. Components(s) = <<>> <=> b = <<>>
  <2>1. Components(b) \in Seq(Seq(Chars))
    BY <1>2, ComponentsFacts
  <2>2. b = <<>> <=> Len(Components(b)) = 0
    BY <1>6, CleanNames
  <2> QED
    BY <1>8, <2>1, <2>2
<1>10. Len(Components(s)) \in Nat
  BY <1>6, <1>8, CleanNames
<1> QED
  BY <1>2, <1>6, <1>7, <1>8, <1>9, <1>10 DEF b

\* A path of FUSE is clean, but for the root.
LEMMA PathFacts ==
    ASSUME NEW p \in FusePaths
    PROVE  /\ p \in Text /\ Len(p) \in Nat /\ Len(p) > 0 /\ p[1] = "/" /\ Absolute(p)
           /\ Clean(Body(p)) /\ Components(Body(p)) = Components(p)
           /\ IF Len(p) = 1 THEN Body(p) = <<>> /\ Last(p) = "/" ELSE Body(p) = p /\ Last(p) # "/"
<1>1. p \in Text /\ Len(p) \in Nat /\ Len(p) > 0 /\ p[1] = "/" /\ DOMAIN p = 1 .. Len(p)
  BY PathMapAssumption DEF Text
<1>2. \A i \in 2 .. Len(p) : p[i] = "/" => p[i - 1] # "/"
  BY PathMapAssumption
<1>3. ~Doubled(p) /\ Absolute(p)
  BY <1>1, <1>2 DEF Doubled, Absolute
<1>4. IsTarget(p)
  BY <1>1, <1>3 DEF IsTarget
<1>5. Clean(Body(p)) /\ Components(Body(p)) = Components(p)
  BY <1>4, TargetFacts
<1>6. /\ Body(p) \in Text /\ Len(Body(p)) \in Nat /\ Len(Body(p)) =< Len(p)
      /\ \A i \in 1 .. Len(Body(p)) : Body(p)[i] = p[i]
      /\ \A i \in 1 .. Len(p) : i > Len(Body(p)) => p[i] = "/"
      /\ Body(p) # <<>> => Body(p)[Len(Body(p))] # "/"
  BY <1>1, BodyFacts
<1>7. CASE Len(p) = 1
  <2>1. Last(p) = "/"
    BY <1>1, <1>7 DEF Last
  <2>2. Len(Body(p)) = 0
    <3>1. CASE Len(Body(p)) = 1
      <4>1. Body(p) # <<>>
        BY <3>1
      <4> QED
        BY <1>1, <1>6, <3>1, <4>1
    <3>2. Len(Body(p)) = 0 \/ Len(Body(p)) = 1
      <4>1. Len(Body(p)) \in Nat /\ Len(Body(p)) =< Len(p)
        BY <1>6, Zenon
      <4>2. Len(Body(p)) =< 1
        BY <1>7, <4>1, Zenon
      <4>3. \A n \in Nat : n =< 1 => n = 0 \/ n = 1
        OBVIOUS
      <4> QED
        BY <4>1, <4>2, <4>3, Zenon
    <3> QED
      BY <3>1, <3>2
  <2>3. Body(p) = <<>>
    BY <1>6, <2>2 DEF Text
  <2> QED
    BY <1>1, <1>3, <1>5, <1>7, <2>1, <2>3
<1>8. CASE Len(p) # 1
  <2>1. p # <<"/">>
    BY <1>8
  <2>2. Last(p) # "/"
    BY <2>1, PathMapAssumption
  <2>3. Len(Body(p)) = Len(p)
    <3>1. p[Len(p)] # "/"
      BY <2>2 DEF Last
    <3>2. ~(Len(p) > Len(Body(p)))
      BY <1>1, <1>6, <3>1
    <3> QED
      BY <1>1, <1>6, <3>2
  <2>4. Body(p) = p
    BY <1>1, <1>6, <2>3, SeqEqual DEF Text
  <2> QED
    BY <1>1, <1>3, <1>5, <1>8, <2>2, <2>4
<1> QED
  BY <1>7, <1>8

\* What the code keeps of a target.
LEMMA KeptFacts ==
    ASSUME NEW s, s \in Text, Absolute(s)
    PROVE  /\ removeTrailingSlashes(s) \in Text
           /\ Len(removeTrailingSlashes(s)) = Len(Body(s)) + IF Last(s) = "/" THEN 1 ELSE 0
           /\ Len(removeTrailingSlashes(s)) > 0
           /\ removeTrailingSlashes(s)[1] = "/"
           /\ Last(removeTrailingSlashes(s)) = "/" <=> Last(s) = "/"
           /\ \A i \in 1 .. Len(Body(s)) : removeTrailingSlashes(s)[i] = Body(s)[i]
<1> DEFINE b == Body(s)
           t == removeTrailingSlashes(s)
<1>1. /\ s \in Text /\ Len(s) \in Nat /\ DOMAIN s = 1 .. Len(s) /\ Len(s) > 0 /\ s[1] = "/"
  BY DEF Absolute, Text
<1>2. /\ b \in Text
      /\ Len(b) \in Nat /\ Len(b) =< Len(s)
      /\ \A i \in 1 .. Len(b) : b[i] = s[i]
      /\ \A i \in 1 .. Len(s) : i > Len(b) => s[i] = "/"
      /\ b # <<>> => b[Len(b)] # "/"
      /\ t = IF Last(s) = "/" THEN Append(b, "/") ELSE b
  BY <1>1, BodyFacts
<1> HIDE DEF b, t
<1>3. "/" \in Chars
  BY PathMapAssumption
<1>4. CASE Last(s) = "/"
  <2>1. /\ t = Append(b, "/")
    BY <1>2, <1>4
  <2>2. /\ Append(b, "/") \in Seq(Chars) /\ Len(Append(b, "/")) = Len(b) + 1
        /\ \A i \in 1 .. Len(b) : Append(b, "/")[i] = b[i]
        /\ Append(b, "/")[Len(b) + 1] = "/"
    BY <1>2, <1>3, AppendProperties DEF Text
  <2>3. t[1] = "/"
    <3>1. CASE Len(b) = 0
      BY <2>1, <2>2, <3>1
    <3>2. CASE Len(b) # 0
      BY <1>1, <1>2, <2>1, <2>2, <3>2
    <3> QED
      BY <3>1, <3>2
  <2>4. Last(t) = "/"
    BY <1>2, <2>1, <2>2 DEF Last
  <2> QED
    BY <1>2, <1>4, <2>1, <2>2, <2>3, <2>4 DEF Text, b, t
<1>5. CASE Last(s) # "/"
  <2>1. t = b
    BY <1>2, <1>5
  <2>2. Len(b) > 0
    BY <1>1, <1>2, <1>5 DEF Last
  <2>3. t[1] = "/" /\ Last(t) # "/"
    BY <1>1, <1>2, <2>1, <2>2 DEF Last, Text
  <2> QED
    BY <1>2, <1>5, <2>1, <2>2, <2>3 DEF b, t
<1> QED
  BY <1>4, <1>5

\* Which paths the code finds under a target (isPathPrefixOf, local.cc:44-48).
LEMMA Fits ==
    ASSUME NEW s, IsTarget(s), NEW p \in FusePaths
    PROVE  isPathPrefixOf(removeTrailingSlashes(s), p) <=>
               \/ Last(s) = "/" /\ Body(s) = <<>>
               \/ Below(p, Body(s))
               \/ Last(s) # "/" /\ p = Body(s)
<1> DEFINE b == Body(s)
           t == removeTrailingSlashes(s)
<1>1. /\ b \in Text /\ Len(b) \in Nat /\ Len(p) \in Nat /\ Len(p) > 0 /\ p \in Text /\ p[1] = "/"
      /\ b # <<>> => b[Len(b)] # "/"
      /\ t = IF Last(s) = "/" THEN Append(b, "/") ELSE b
      /\ t \in Text
      /\ Last(t) = "/" <=> Last(s) = "/"
      /\ Len(p) = 1 \/ p[Len(p)] # "/"
      /\ s \in Text
      /\ b = <<>> <=> Len(b) = 0
      /\ b = <<>> => Last(s) = "/"
  BY PathFacts, BodyFacts, KeptFacts, TargetFacts DEF IsTarget, Last, Text
<1> HIDE DEF b, t
<1>2. "/" \in Chars
  BY PathMapAssumption
<1>3. /\ Append(b, "/") \in Seq(Chars) /\ Len(Append(b, "/")) = Len(b) + 1
      /\ \A i \in 1 .. Len(b) : Append(b, "/")[i] = b[i]
      /\ Append(b, "/")[Len(b) + 1] = "/"
      /\ Append(b, "/") = b \o <<"/">>
  BY <1>1, <1>2, AppendProperties, AppendIsConcat DEF Text
<1>4. IsPrefix(b \o <<"/">>, p) <=>
          /\ Len(b) + 1 =< Len(p)
          /\ \A i \in 1 .. Len(b) : p[i] = b[i]
          /\ p[Len(b) + 1] = "/"
  <2>1. IsPrefix(Append(b, "/"), p) <=>
            Len(b) + 1 =< Len(p) /\ \A i \in 1 .. Len(b) + 1 : p[i] = Append(b, "/")[i]
    <3> DEFINE x == Append(b, "/")
    <3>1. x \in Seq(Chars) /\ p \in Seq(Chars)
      BY <1>1, <1>3 DEF Text
    <3>2. IsPrefix(x, p) <=> Len(x) =< Len(p) /\ \A i \in 1 .. Len(x) : p[i] = x[i]
      <4> HIDE DEF x
      <4> QED
        BY <3>1, PrefixByCharacters
    <3> QED
      BY <1>3, <3>2, Zenon
  <2>2. ASSUME Len(b) + 1 =< Len(p)
        PROVE  (\A i \in 1 .. Len(b) + 1 : p[i] = Append(b, "/")[i]) <=>
                   (\A i \in 1 .. Len(b) : p[i] = b[i]) /\ p[Len(b) + 1] = "/"
    <3>1. ASSUME \A i \in 1 .. Len(b) : p[i] = b[i], p[Len(b) + 1] = "/", NEW i \in 1 .. Len(b) + 1
          PROVE  p[i] = Append(b, "/")[i]
      <4>1. i \in 1 .. Len(b) \/ i = Len(b) + 1
        BY <1>1
      <4> QED
        BY <1>3, <3>1, <4>1
    <3>2. ASSUME \A i \in 1 .. Len(b) + 1 : p[i] = Append(b, "/")[i]
          PROVE  (\A i \in 1 .. Len(b) : p[i] = b[i]) /\ p[Len(b) + 1] = "/"
      BY <1>1, <1>3, <3>2
    <3> QED
      BY <3>1, <3>2
  <2> QED
    BY <1>3, <2>1, <2>2
<1>5. IsPrefix(b \o <<"/">>, p) <=> b = <<>> \/ Below(p, b)
  <2>1. Below(p, b) <=> /\ Len(b) + 1 < Len(p)
                        /\ \A i \in 1 .. Len(b) : p[i] = b[i]
                        /\ p[Len(b) + 1] = "/"
    BY <1>1, BelowByCharacters
  <2>2. CASE b = <<>>
    BY <1>1, <1>4, <2>2
  <2>3. CASE b # <<>>
    <3>1. ASSUME Len(b) + 1 =< Len(p), p[Len(b) + 1] = "/"
          PROVE  Len(b) + 1 < Len(p)
      BY <1>1, <2>3, <3>1
    <3> QED
      BY <1>1, <1>4, <2>1, <2>3, <3>1
  <2> QED
    BY <2>2, <2>3
<1>6. CASE Last(s) = "/"
  BY <1>1, <1>3, <1>5, <1>6 DEF isPathPrefixOf, b, t
<1>7. CASE Last(s) # "/"
  BY <1>1, <1>5, <1>7 DEF isPathPrefixOf, b, t
<1> QED
  BY <1>6, <1>7

\* Which targets cover a path.
LEMMA Covers ==
    ASSUME NEW s, IsTarget(s), NEW p \in FusePaths
    PROVE  IsPrefix(Components(s), Components(p)) <=> Body(s) = <<>> \/ p = Body(s) \/ Below(p, Body(s))
<1> DEFINE a == Body(s)
           b == Body(p)
<1>1. Clean(a) /\ Clean(b) /\ Components(a) = Components(s) /\ Components(b) = Components(p)
  BY TargetFacts, PathFacts
<1>2. IsPrefix(Components(s), Components(p)) <=> b = a \/ Below(b, a)
  <2> HIDE DEF a, b
  <2>1. IsPrefix(Components(a), Components(b)) <=> b = a \/ Below(b, a)
    BY <1>1, PrefixOfNames
  <2> QED
    BY <1>1, <2>1
<1>3. /\ a \in Text /\ Len(a) \in Nat /\ (a = <<>> <=> Len(a) = 0) /\ (a # <<>> => a[1] = "/" /\ a[Len(a)] # "/")
      /\ p \in Text /\ Len(p) \in Nat /\ Len(p) > 0 /\ p[1] = "/" /\ b \in Text
      /\ IF Len(p) = 1 THEN b = <<>> /\ Last(p) = "/" ELSE b = p /\ Last(p) # "/"
  <2>1. Clean(a) /\ Clean(b)
    BY <1>1
  <2> HIDE DEF a
  <2> QED
    BY <2>1, PathFacts DEF Clean, Text
<1> HIDE DEF a, b
<1>4. /\ Below(b, a) <=> /\ Len(a) + 1 < Len(b)
                         /\ \A i \in 1 .. Len(a) : b[i] = a[i]
                         /\ b[Len(a) + 1] = "/"
      /\ Below(p, a) <=> /\ Len(a) + 1 < Len(p)
                         /\ \A i \in 1 .. Len(a) : p[i] = a[i]
                         /\ p[Len(a) + 1] = "/"
  BY <1>3, BelowByCharacters
<1>5. CASE Len(p) = 1
  <2>1. b = <<>> /\ Len(b) = 0
    BY <1>3, <1>5
  <2>2. ~Below(b, a) /\ ~Below(p, a)
    BY <1>3, <1>4, <1>5, <2>1
  <2>3. p # a
    BY <1>3, <1>5
  <2> QED
    BY <1>2, <2>1, <2>2, <2>3 DEF a
<1>6. CASE Len(p) # 1
  <2>1. b = p
    BY <1>3, <1>6
  <2>2. a = <<>> => Below(p, a)
    BY <1>3, <1>4, <1>6
  <2> QED
    BY <1>2, <2>1, <2>2 DEF a
<1> QED
  BY <1>5, <1>6

\* Of two targets that cover a path the longer one has more names.
LEMMA Depths ==
    ASSUME NEW s, IsTarget(s), NEW t, IsTarget(t), NEW p \in FusePaths,
           IsPrefix(Components(s), Components(p)), IsPrefix(Components(t), Components(p))
    PROVE  /\ Len(Body(s)) = Len(Body(t)) => Body(s) = Body(t)
           /\ Len(Body(s)) < Len(Body(t)) =>
                  Len(Body(s)) + 1 < Len(Body(t)) /\ Len(Components(s)) < Len(Components(t))
<1> DEFINE a == Body(s)
           b == Body(t)
<1>1. Clean(a) /\ Clean(b) /\ Components(a) = Components(s) /\ Components(b) = Components(t)
  BY TargetFacts
<1>2. (a = <<>> \/ p = a \/ Below(p, a)) /\ (b = <<>> \/ p = b \/ Below(p, b))
  BY Covers
<1> HIDE DEF a, b
<1>3. /\ a \in Text /\ Len(a) \in Nat /\ (a = <<>> <=> Len(a) = 0) /\ (a # <<>> => a[1] = "/" /\ a[Len(a)] # "/")
      /\ b \in Text /\ Len(b) \in Nat /\ (b = <<>> <=> Len(b) = 0) /\ (b # <<>> => b[1] = "/" /\ b[Len(b)] # "/")
      /\ p \in Text /\ Len(p) \in Nat /\ Len(p) > 0 /\ p[1] = "/"
  BY <1>1, PathFacts DEF Clean, Text
<1>4. /\ Below(p, a) <=> /\ Len(a) + 1 < Len(p)
                         /\ \A i \in 1 .. Len(a) : p[i] = a[i]
                         /\ p[Len(a) + 1] = "/"
      /\ Below(p, b) <=> /\ Len(b) + 1 < Len(p)
                         /\ \A i \in 1 .. Len(b) : p[i] = b[i]
                         /\ p[Len(b) + 1] = "/"
      /\ Below(b, a) <=> /\ Len(a) + 1 < Len(b)
                         /\ \A i \in 1 .. Len(a) : b[i] = a[i]
                         /\ b[Len(a) + 1] = "/"
  BY <1>3, BelowByCharacters
<1>5. /\ \A i \in 1 .. Len(a) : p[i] = a[i]
      /\ \A i \in 1 .. Len(b) : p[i] = b[i]
      /\ Len(a) < Len(p) => p[Len(a) + 1] = "/"
      /\ Len(b) =< Len(p)
  BY <1>2, <1>3, <1>4
<1>6. Len(a) = Len(b) => a = b
  <2> SUFFICES ASSUME Len(a) = Len(b)
               PROVE  a = b
    OBVIOUS
  <2>1. \A i \in 1 .. Len(a) : a[i] = b[i]
    BY <1>5
  <2> QED
    BY <1>3, <2>1, SeqEqual DEF Text
<1>7. ASSUME Len(a) < Len(b)
      PROVE  Below(b, a)
  <2>1. \A i \in 1 .. Len(a) : b[i] = a[i]
    <3> TAKE i \in 1 .. Len(a)
    <3>1. i \in 1 .. Len(b)
      BY <1>3, <1>7
    <3> QED
      BY <1>5, <3>1
  <2>2. Len(a) + 1 \in 1 .. Len(b) /\ Len(a) < Len(p)
    BY <1>3, <1>5, <1>7
  <2>3. b[Len(a) + 1] = "/"
    BY <1>5, <2>2
  <2>4. Len(a) + 1 # Len(b)
    BY <1>3, <2>2, <2>3
  <2> QED
    BY <1>3, <1>4, <2>1, <2>2, <2>3, <2>4
<1>8. ASSUME Len(a) < Len(b)
      PROVE  Len(a) + 1 < Len(b) /\ Len(Components(s)) < Len(Components(t))
  BY <1>1, <1>4, <1>7, <1>8, PrefixOfNames
<1> QED
  BY <1>6, <1>8 DEF a, b

-----------------------------------------------------------------------------
(* The list of the program. *)

Binding == [inside : Text, outside : Text]

PathProp == [attrType : {"Mapped", "Emulated"}, inside : Text, outside : Text]

\* An argument of -M gives two absolute paths or nothing (parseBind, main.cc:89-100).
LEMMA ParseFacts ==
    ASSUME NEW s \in Text, parseBind(s) # <<>>
    PROVE  parseBind(s) \in Binding /\ Absolute(parseBind(s).inside) /\ Absolute(parseBind(s).outside)
<1> DEFINE colons == {i \in DOMAIN s : s[i] = ":"}
           pos == CHOOSE i \in colons : \A j \in colons : i =< j
           bind == [outside |-> SubSeq(s, 1, pos - 1), inside |-> SubSeq(s, pos + 1, Len(s))]
<1>1. colons # {} /\ Absolute(bind.outside) /\ Absolute(bind.inside) /\ parseBind(s) = bind
  BY DEF parseBind
<1>2. Len(s) \in Nat /\ DOMAIN s = 1 .. Len(s) /\ \A i \in 1 .. Len(s) : s[i] \in Chars
  BY DEF Text
<1>3. pos \in 1 .. Len(s)
  <2>1. colons \subseteq Nat
    BY <1>2
  <2>2. \E i \in colons : \A j \in colons : i =< j
    <3> HIDE DEF colons
    <3> QED
      BY <1>1, <2>1, LeastExists
  <2>3. pos \in colons
    BY <2>2, Zenon
  <2> QED
    BY <1>2, <2>3
<1> HIDE DEF pos
<1>4. /\ \A i \in 1 .. pos - 1 : s[i] \in Chars
      /\ \A i \in pos + 1 .. Len(s) : s[i] \in Chars
  BY <1>2, <1>3
<1>5. SubSeq(s, 1, pos - 1) \in Seq(Chars)
  BY <1>2, <1>3, <1>4
<1>6. SubSeq(s, pos + 1, Len(s)) \in Seq(Chars)
  BY <1>2, <1>3, <1>4
<1>7. bind \in Binding
  BY <1>5, <1>6 DEF Binding, Text
<1> QED
  BY <1>1, <1>7

\* all holds the entries in the order they were made, and place says which is where.
Sorted(list, all, place) ==
    /\ Len(list) = Len(all)
    /\ place \in [1 .. Len(list) -> 1 .. Len(all)]
    /\ \A i \in 1 .. Len(all) : \E k \in 1 .. Len(list) : place[k] = i
    /\ \A k \in 1 .. Len(list) : list[k] = all[place[k]]
    /\ \A k, l \in 1 .. Len(list) : k < l =>
           \/ Len(list[k].inside) > Len(list[l].inside)
           \/ Len(list[k].inside) = Len(list[l].inside) /\ place[k] > place[l]

\* The list after an insertion behind place k (addPathMapping, local.cc:22-30).
IsInsertion(new, list, k, e) ==
    /\ Len(new) = Len(list) + 1
    /\ \A j \in 1 .. Len(list) + 1 :
           new[j] = IF j =< k THEN list[j] ELSE IF j = k + 1 THEN e ELSE list[j - 1]

\* InsertAt does that.
LEMMA InsertFacts ==
    ASSUME NEW S, NEW list \in Seq(S), NEW e \in S, NEW k \in 0 .. Len(list)
    PROVE  /\ InsertAt(list, k + 1, e) \in Seq(S)
           /\ IsInsertion(InsertAt(list, k + 1, e), list, k, e)
<1> DEFINE a == SubSeq(list, 1, k)
           b == SubSeq(list, k + 1, Len(list))
<1>1. Len(list) \in Nat /\ k \in Nat /\ (k + 1) - 1 = k
  OBVIOUS
<1>2. /\ a \in Seq(S) /\ Len(a) = k /\ \A i \in 1 .. k : a[i] = list[i]
      /\ b \in Seq(S) /\ Len(b) = Len(list) - k /\ \A i \in 1 .. Len(list) - k : b[i] = list[k + i]
  OBVIOUS
<1>3. InsertAt(list, k + 1, e) = a \o <<e>> \o b
  BY <1>1 DEF InsertAt
<1> HIDE DEF a, b
<1> DEFINE c == a \o <<e>>
<1>4. c \in Seq(S) /\ Len(c) = k + 1 /\ \A i \in 1 .. k + 1 : c[i] = IF i =< k THEN list[i] ELSE e
  BY <1>1, <1>2
<1> HIDE DEF c
<1>5. /\ c \o b \in Seq(S) /\ Len(c \o b) = Len(c) + Len(b)
      /\ \A i \in 1 .. Len(c) + Len(b) : (c \o b)[i] = IF i <= Len(c) THEN c[i] ELSE b[i - Len(c)]
  <2>1. IsConcat(S, c \o b, c, b)
    BY <1>2, <1>4, ConcatFacts, Zenon
  <2> QED
    BY <2>1, Zenon DEF IsConcat
<1> DEFINE d == c \o b
<1>6. /\ d \in Seq(S) /\ Len(d) = Len(c) + Len(b)
      /\ \A i \in 1 .. Len(c) + Len(b) : d[i] = IF i <= Len(c) THEN c[i] ELSE b[i - Len(c)]
  BY <1>5
<1>7. InsertAt(list, k + 1, e) = d
  BY <1>3 DEF c
<1> HIDE DEF d
<1>8. ASSUME NEW j \in 1 .. Len(list) + 1
      PROVE  d[j] = IF j =< k THEN list[j] ELSE IF j = k + 1 THEN e ELSE list[j - 1]
  <2>1. d[j] = IF j <= Len(c) THEN c[j] ELSE b[j - Len(c)]
    <3>1. j \in 1 .. Len(c) + Len(b)
      BY <1>1, <1>2, <1>4
    <3> QED
      BY <1>6, <3>1, Zenon
  <2>2. CASE j =< k + 1
    <3>1. j \in 1 .. k + 1 /\ j <= Len(c)
      BY <1>1, <1>4, <2>2
    <3>2. d[j] = IF j =< k THEN list[j] ELSE e
      BY <1>4, <2>1, <3>1, Zenon
    <3>3. ~(j =< k) => j = k + 1
      BY <1>1, <2>2
    <3> QED
      BY <3>2, <3>3
  <2>3. CASE j > k + 1
    <3>1. j - (k + 1) \in 1 .. Len(list) - k /\ k + (j - (k + 1)) = j - 1
      BY <1>1, <2>3
    <3>2. ~(j <= Len(c)) /\ j - Len(c) = j - (k + 1)
      BY <1>1, <1>4, <2>3
    <3>3. d[j] = list[j - 1]
      BY <1>2, <2>1, <3>1, <3>2, Zenon
    <3>4. ~(j =< k) /\ j # k + 1
      BY <1>1, <2>3
    <3> QED
      BY <3>3, <3>4
  <2> QED
    BY <1>1, <2>2, <2>3
<1>9. Len(d) = Len(list) + 1
  BY <1>1, <1>2, <1>4, <1>6
<1> QED
  BY <1>8, <1>9, <1>6, <1>7 DEF IsInsertion

\* The last entry that is longer than pp.
LastLonger(list, pp) == Max({0} \cup {i \in DOMAIN list : Len(list[i].inside) > Len(pp.inside)})

\* An entry put behind the last that is longer keeps the list sorted.
LEMMA InsertSorted ==
    ASSUME NEW list \in Seq(PathProp), NEW all, NEW place, Sorted(list, all, place),
           all \in Seq(PathProp), NEW pp \in PathProp,
           NEW k, k = LastLonger(list, pp)
    PROVE  /\ InsertAt(list, k + 1, pp) \in Seq(PathProp)
           /\ \E q : Sorted(InsertAt(list, k + 1, pp), Append(all, pp), q)
<1> DEFINE n == Len(list)
           len == [i \in 1 .. n |-> Len(list[i].inside)]
           m == Len(pp.inside)
           E == {0} \cup {i \in DOMAIN list : Len(list[i].inside) > Len(pp.inside)}
           new == InsertAt(list, k + 1, pp)
           q == [j \in 1 .. n + 1 |-> IF j =< k THEN place[j] ELSE IF j = k + 1 THEN n + 1 ELSE place[j - 1]]
<1>1. /\ n \in Nat /\ DOMAIN list = 1 .. n
      /\ \A i \in 1 .. n : len[i] = Len(list[i].inside) /\ len[i] \in Nat
      /\ m = Len(pp.inside) /\ m \in Nat
  <2>1. n \in Nat /\ DOMAIN list = 1 .. n /\ \A i \in 1 .. n : list[i] \in PathProp
    OBVIOUS
  <2>2. \A e \in PathProp : Len(e.inside) \in Nat
    BY DEF PathProp, Text
  <2> QED
    BY <2>1, <2>2
<1>2. /\ Len(all) = n
      /\ place \in [1 .. n -> 1 .. n]
      /\ \A i \in 1 .. n : \E j \in 1 .. n : place[j] = i
      /\ \A i \in 1 .. n : list[i] = all[place[i]]
      /\ \A i, l \in 1 .. n : i < l => len[i] > len[l] \/ (len[i] = len[l] /\ place[i] > place[l])
  BY <1>1, Zenon DEF Sorted
<1>3. /\ E \subseteq Nat /\ 0 \in E /\ \A x \in E : x =< n
      /\ \A i \in 1 .. n : len[i] > m => i \in E
      /\ \A x \in E : x # 0 => x \in 1 .. n /\ len[x] > m
  BY <1>1
<1>4. k = Max(E)
  BY DEF LastLonger
<1> HIDE DEF E
<1>5. k \in E /\ \A x \in E : x =< k
  <2>1. E # {} /\ n \in Nat
    BY <1>1, <1>3
  <2> HIDE DEF n
  <2>2. Max(E) \in E /\ \A x \in E : x =< Max(E)
    BY <1>3, <2>1, MaxFacts
  <2> QED
    BY <1>4, <2>2, Zenon
<1>6. k \in 0 .. n /\ \A i \in 1 .. n : len[i] > m => i =< k
  <2>1. k \in Nat /\ k =< n
    BY <1>3, <1>5
  <2>2. n \in Nat
    BY <1>1
  <2>3. k \in 0 .. n
    BY <2>1, <2>2
  <2> QED
    BY <1>3, <1>5, <2>3, Zenon
<1>7. k # 0 => k \in 1 .. n /\ len[k] > m
  BY <1>3, <1>5, Zenon
<1>8. /\ new \in Seq(PathProp) /\ Len(new) = n + 1
      /\ \A j \in 1 .. n + 1 : new[j] = IF j =< k THEN list[j] ELSE IF j = k + 1 THEN pp ELSE list[j - 1]
  <2>1. k \in 0 .. Len(list)
    BY <1>6
  <2>2. InsertAt(list, k + 1, pp) \in Seq(PathProp) /\ IsInsertion(InsertAt(list, k + 1, pp), list, k, pp)
    BY <2>1, InsertFacts, Zenon
  <2> QED
    BY <2>2 DEF IsInsertion
<1>9. \A j \in 1 .. n + 1 : q[j] = IF j =< k THEN place[j] ELSE IF j = k + 1 THEN n + 1 ELSE place[j - 1]
  OBVIOUS
<1>10. /\ Append(all, pp) \in Seq(PathProp) /\ Len(Append(all, pp)) = n + 1
       /\ \A i \in 1 .. n : Append(all, pp)[i] = all[i]
       /\ Append(all, pp)[n + 1] = pp
  BY <1>2, AppendProperties
<1> HIDE DEF new, n, len, m
<1>11. \A i \in 1 .. n : i =< k => len[i] > m
  <2> TAKE i \in 1 .. n
  <2> HAVE i =< k
  <2>1. k \in 1 .. n /\ (i = k \/ i < k) /\ len[k] > m
    BY <1>1, <1>6, <1>7
  <2>2. len[i] > len[k] \/ len[i] = len[k]
    BY <1>2, <2>1
  <2> QED
    BY <1>1, <2>1, <2>2
<1>12. \A i \in 1 .. n : i > k => len[i] =< m
  BY <1>1, <1>6
\* The three kinds of places in the new list.
<1>13. ASSUME NEW j \in 1 .. n + 1
       PROVE  \/ j =< k /\ j \in 1 .. n /\ new[j] = list[j] /\ q[j] = place[j]
              \/ j = k + 1 /\ new[j] = pp /\ q[j] = n + 1
              \/ j > k + 1 /\ j - 1 \in 1 .. n /\ j - 1 > k /\ new[j] = list[j - 1] /\ q[j] = place[j - 1]
  <2>1. CASE j =< k
    BY <1>1, <1>6, <1>8, <1>9, <2>1
  <2>2. CASE j = k + 1
    <3>1. ~(j =< k)
      BY <1>6, <2>2
    <3> QED
      BY <1>8, <1>9, <2>2, <3>1, Zenon
  <2>3. CASE j > k + 1
    <3>1. ~(j =< k) /\ j # k + 1 /\ j - 1 \in 1 .. n /\ j - 1 > k
      BY <1>1, <1>6, <2>3
    <3> QED
      BY <1>8, <1>9, <2>3, <3>1, Zenon
  <2> QED
    BY <1>1, <1>6, <2>1, <2>2, <2>3
<1>14. q \in [1 .. n + 1 -> 1 .. n + 1]
  <2>1. ASSUME NEW j \in 1 .. n + 1
        PROVE  q[j] \in 1 .. n + 1
    <3>1. \A i \in 1 .. n : place[i] \in 1 .. n + 1
      BY <1>1, <1>2
    <3>2. n + 1 \in 1 .. n + 1
      BY <1>1
    <3> HIDE DEF q
    <3> QED
      BY <1>13, <3>1, <3>2, Zenon
  <2> QED
    BY <2>1
<1> HIDE DEF q
<1>15. ASSUME NEW i \in 1 .. n + 1
       PROVE  \E j \in 1 .. n + 1 : q[j] = i
  <2>1. CASE i = n + 1
    <3>1. k + 1 \in 1 .. n + 1 /\ ~(k + 1 =< k) /\ ~(k + 1 > k + 1)
      BY <1>1, <1>6
    <3>2. q[k + 1] = n + 1
      BY <1>13, <3>1, Zenon
    <3> QED
      BY <2>1, <3>1, <3>2, Zenon
  <2>2. CASE i # n + 1
    <3>1. i \in 1 .. n
      BY <1>1, <2>2
    <3>2. PICK j \in 1 .. n : place[j] = i
      BY <1>2, <3>1
    <3>3. CASE j =< k
      <4>1. j \in 1 .. n + 1 /\ j # k + 1 /\ ~(j > k + 1)
        BY <1>1, <1>6, <3>3
      <4> QED
        BY <1>13, <3>2, <4>1, Zenon
    <3>4. CASE j > k
      <4>1. j + 1 \in 1 .. n + 1 /\ ~(j + 1 =< k) /\ j + 1 # k + 1 /\ (j + 1) - 1 = j
        BY <1>1, <1>6, <3>2, <3>4
      <4>2. q[j + 1] = place[(j + 1) - 1]
        BY <1>13, <4>1, Zenon
      <4> QED
        BY <3>2, <4>1, <4>2, Zenon
    <3> QED
      BY <1>6, <3>3, <3>4
  <2> QED
    BY <2>1, <2>2
<1>16. ASSUME NEW j \in 1 .. n + 1
       PROVE  new[j] = Append(all, pp)[q[j]]
  <2>1. \A i \in 1 .. n : Append(all, pp)[place[i]] = list[i]
    BY <1>2, <1>10
  <2> QED
    BY <1>10, <1>13, <2>1, Zenon
<1>17. ASSUME NEW i \in 1 .. n + 1, NEW l \in 1 .. n + 1, i < l
       PROVE  \/ Len(new[i].inside) > Len(new[l].inside)
              \/ Len(new[i].inside) = Len(new[l].inside) /\ q[i] > q[l]
  <2>1. /\ i \in Int /\ l \in Int /\ k \in Int
        /\ \A x, y \in 1 .. n : x < y =>
               \/ Len(list[x].inside) > Len(list[y].inside)
               \/ Len(list[x].inside) = Len(list[y].inside) /\ place[x] > place[y]
    BY <1>1, <1>2, <1>6
  <2>2. CASE l =< k
    <3>1. i =< k /\ i # k + 1 /\ ~(i > k + 1) /\ l # k + 1 /\ ~(l > k + 1)
      BY <1>17, <2>1, <2>2
    <3>2. /\ new[i] = list[i] /\ new[l] = list[l] /\ q[i] = place[i] /\ q[l] = place[l]
          /\ i \in 1 .. n /\ l \in 1 .. n
      BY <1>13, <2>2, <3>1, Zenon
    <3> QED
      BY <1>17, <2>1, <3>2, Zenon
  <2>3. CASE l = k + 1
    <3>1. i =< k /\ i # k + 1 /\ ~(i > k + 1) /\ ~(l =< k) /\ ~(l > k + 1)
      BY <1>17, <2>1, <2>3
    <3>2. new[i] = list[i] /\ new[l] = pp /\ i \in 1 .. n
      BY <1>13, <2>3, <3>1, Zenon
    <3>3. len[i] > m
      BY <1>11, <3>1, <3>2
    <3> QED
      BY <1>1, <3>2, <3>3
  <2>4. CASE l > k + 1
    <3>1. ~(l =< k) /\ l # k + 1
      BY <2>1, <2>4
    <3>2. new[l] = list[l - 1] /\ q[l] = place[l - 1] /\ l - 1 \in 1 .. n /\ l - 1 > k
      BY <1>13, <3>1, Zenon
    <3>3. CASE i =< k
      <4>1. i # k + 1 /\ ~(i > k + 1) /\ i < l - 1
        BY <2>1, <3>2, <3>3
      <4>2. new[i] = list[i] /\ q[i] = place[i] /\ i \in 1 .. n
        BY <1>13, <4>1, Zenon
      <4> QED
        BY <2>1, <3>2, <4>1, <4>2
    <3>4. CASE i = k + 1
      <4>1. ~(i =< k) /\ ~(i > k + 1)
        BY <2>1, <3>4
      <4>2. new[i] = pp /\ q[i] = n + 1
        BY <1>13, <4>1, Zenon
      <4>3. len[l - 1] =< m /\ place[l - 1] \in 1 .. n
        BY <1>2, <1>12, <3>2
      <4>4. len[l - 1] \in Nat /\ m = Len(new[i].inside) /\ len[l - 1] = Len(new[l].inside)
        BY <1>1, <3>2, <4>2
      <4>5. q[i] > q[l]
        BY <1>1, <3>2, <4>2, <4>3
      <4> QED
        BY <1>1, <4>3, <4>4, <4>5
    <3>5. CASE i > k + 1
      <4>1. ~(i =< k) /\ i # k + 1 /\ i - 1 < l - 1
        BY <1>17, <2>1, <3>5
      <4>2. new[i] = list[i - 1] /\ q[i] = place[i - 1] /\ i - 1 \in 1 .. n
        BY <1>13, <4>1, Zenon
      <4> QED
        BY <2>1, <3>2, <4>1, <4>2, Zenon
    <3> QED
      BY <2>1, <3>3, <3>4, <3>5
  <2> QED
    BY <2>1, <2>2, <2>3, <2>4
<1>18. Sorted(new, Append(all, pp), q)
  BY <1>8, <1>10, <1>14, <1>15, <1>16, <1>17, Zenon DEF Sorted
<1> QED
  BY <1>8, <1>18 DEF new

-----------------------------------------------------------------------------
(* The inductive invariant: the list holds what the options given so far make of it, the *)
(* longest first and of two of the same length the later one first.                      *)

Entry(attrType, inside, outside) ==
    [attrType |-> attrType, inside |-> removeTrailingSlashes(inside),
     outside |-> removeTrailingSlashes(outside)]

MappedEntries == [i \in 1 .. Len(given) |-> Entry("Mapped", given[i].inside, given[i].outside)]

RootEntry == Entry("Emulated", <<"/">>, chrootDir)

Entries == IF phase = "running" /\ withfuse THEN Append(MappedEntries, RootEntry) ELSE MappedEntries

Ordering ==
    /\ phase \in {"options", "running", "usage"}
    /\ given \in Seq(Binding)
    /\ \A i \in 1 .. Len(given) : Absolute(given[i].inside) /\ Absolute(given[i].outside)
    /\ chrootDir \in Text
    /\ phase = "running" => Absolute(chrootDir)
    /\ paths \in Seq(PathProp)
    /\ \E place : Sorted(paths, Entries, place)

\* The root directory as a string.
LEMMA Slash == <<"/">> \in Text /\ Len(<<"/">>) = 1 /\ <<"/">>[1] = "/" /\ Absolute(<<"/">>)
<1>1. <<"/">> \in Text
  BY PathMapAssumption DEF Text
<1> QED
  BY <1>1 DEF Absolute

\* What is made of two absolute paths is an entry.
LEMMA EntryFacts ==
    ASSUME NEW i \in Text, Absolute(i), NEW o \in Text, Absolute(o), NEW t \in {"Mapped", "Emulated"}
    PROVE  Entry(t, i, o) \in PathProp /\ IsEntry(Entry(t, i, o))
<1>1. ASSUME NEW s \in Text, Absolute(s), NEW r, r = removeTrailingSlashes(s)
      PROVE  r \in Text /\ Absolute(r) /\ (Len(r) > 1 /\ Last(r) = "/" => r[Len(r) - 1] # "/")
  <2>1. /\ r \in Text
        /\ Len(r) = Len(Body(s)) + IF Last(s) = "/" THEN 1 ELSE 0
        /\ Len(r) > 0 /\ r[1] = "/"
        /\ Last(r) = "/" <=> Last(s) = "/"
        /\ \A k \in 1 .. Len(Body(s)) : r[k] = Body(s)[k]
    BY <1>1, KeptFacts
  <2>2. /\ Body(s) \in Text /\ Len(Body(s)) \in Nat
        /\ Body(s) # <<>> => Body(s)[Len(Body(s))] # "/"
    BY <1>1, BodyFacts
  <2>3. Absolute(r)
    <3>1. r # <<>>
      BY <2>1
    <3> QED
      BY <2>1, <3>1 DEF Absolute
  <2>4. ASSUME Len(r) > 1, Last(r) = "/"
        PROVE  r[Len(r) - 1] # "/"
    <3>1. Len(r) - 1 = Len(Body(s)) /\ Len(Body(s)) > 0
      BY <2>1, <2>2, <2>4
    <3>2. Body(s) # <<>> /\ Len(Body(s)) \in 1 .. Len(Body(s))
      BY <2>2, <3>1
    <3> QED
      BY <2>1, <2>2, <3>1, <3>2
  <2> QED
    BY <2>1, <2>3, <2>4
<1>2. Entry(t, i, o) \in PathProp
  BY <1>1 DEF Entry, PathProp
<1>3. /\ Entry(t, i, o).attrType = t
      /\ Entry(t, i, o).inside = removeTrailingSlashes(i)
      /\ Entry(t, i, o).outside = removeTrailingSlashes(o)
  BY DEF Entry
<1>4. /\ \A s \in {removeTrailingSlashes(i), removeTrailingSlashes(o)} :
             Absolute(s) /\ (Len(s) > 1 /\ Last(s) = "/" => s[Len(s) - 1] # "/")
  BY <1>1
<1> QED
  BY <1>2, <1>3, <1>4 DEF IsEntry

\* All entries are well formed.
LEMMA EntriesFacts ==
    ASSUME Ordering
    PROVE  /\ Len(given) \in Nat
           /\ MappedEntries \in Seq(PathProp) /\ Len(MappedEntries) = Len(given)
           /\ \A i \in 1 .. Len(given) : /\ MappedEntries[i] = Entry("Mapped", given[i].inside, given[i].outside)
                                         /\ given[i].inside \in Text /\ given[i].outside \in Text
                                         /\ Absolute(given[i].inside) /\ Absolute(given[i].outside)
                                         /\ IsEntry(MappedEntries[i])
           /\ Absolute(chrootDir) => RootEntry \in PathProp /\ IsEntry(RootEntry)
<1>1. Len(given) \in Nat /\ \A i \in 1 .. Len(given) : given[i] \in Binding
  BY DEF Ordering
<1>2. ASSUME NEW i \in 1 .. Len(given)
      PROVE  /\ MappedEntries[i] = Entry("Mapped", given[i].inside, given[i].outside)
             /\ given[i].inside \in Text /\ given[i].outside \in Text
             /\ Absolute(given[i].inside) /\ Absolute(given[i].outside)
             /\ IsEntry(MappedEntries[i]) /\ MappedEntries[i] \in PathProp
  <2>1. MappedEntries[i] = Entry("Mapped", given[i].inside, given[i].outside)
    BY DEF MappedEntries
  <2>2. given[i].inside \in Text /\ given[i].outside \in Text
    BY <1>1 DEF Binding
  <2>3. Absolute(given[i].inside) /\ Absolute(given[i].outside)
    BY DEF Ordering
  <2> QED
    BY <2>1, <2>2, <2>3, EntryFacts
<1>3. MappedEntries \in [1 .. Len(given) -> PathProp]
  BY <1>2 DEF MappedEntries
<1>4. MappedEntries \in Seq(PathProp) /\ Len(MappedEntries) = Len(given)
  BY <1>1, <1>3
<1>5. Absolute(chrootDir) => RootEntry \in PathProp /\ IsEntry(RootEntry)
  BY Slash, EntryFacts DEF RootEntry, Ordering
<1> QED
  BY <1>1, <1>2, <1>4, <1>5

\* It holds before the first option.
LEMMA OrderingInit == Init => Ordering
<1> SUFFICES ASSUME Init
             PROVE  Ordering
  OBVIOUS
<1>1. given \in Seq(Binding) /\ Len(given) = 0 /\ paths \in Seq(PathProp) /\ Len(paths) = 0
  BY DEF Init
<1>2. Entries = <<>> /\ Len(Entries) = 0
  BY <1>1 DEF Entries, MappedEntries, Init
<1>3. Sorted(paths, Entries, <<>>)
  BY <1>1, <1>2 DEF Sorted
<1> QED
  BY <1>1, <1>3, Slash DEF Ordering, Init

\* An entry of one more option.
LEMMA OrderingAdd ==
    ASSUME NEW all \in Seq(PathProp), NEW place, Sorted(paths, all, place), paths \in Seq(PathProp),
           NEW t, NEW i, NEW o, Entry(t, i, o) \in PathProp
    PROVE  /\ addPathMapping(t, i, o) \in Seq(PathProp)
           /\ \E q : Sorted(addPathMapping(t, i, o), Append(all, Entry(t, i, o)), q)
<1> DEFINE pp == Entry(t, i, o)
           k == LastLonger(paths, pp)
<1>1. addPathMapping(t, i, o) = InsertAt(paths, k + 1, pp)
  BY Zenon DEF addPathMapping, Entry, LastLonger
<1>2. /\ InsertAt(paths, k + 1, pp) \in Seq(PathProp)
      /\ \E q : Sorted(InsertAt(paths, k + 1, pp), Append(all, pp), q)
  <2> HIDE DEF pp
  <2>1. pp \in PathProp
    BY DEF pp
  <2> QED
    BY <2>1, InsertSorted, Zenon
<1> QED
  BY <1>1, <1>2

\* Every option, and the start, keeps it.
LEMMA OrderingNext == Ordering /\ [Next]_vars => Ordering'
<1> SUFFICES ASSUME Ordering, [Next]_vars
             PROVE  Ordering'
  OBVIOUS
<1>1. CASE OptM
  <2>1. phase = "options" /\ UNCHANGED <<chrootDir, withfuse>>
    BY <1>1 DEF OptM
  <2>2. PICK arg \in Bindings :
            IF parseBind(arg) = <<>>
            THEN phase' = "usage" /\ UNCHANGED <<given, paths>>
            ELSE /\ paths' = addPathMapping("Mapped", parseBind(arg).inside, parseBind(arg).outside)
                 /\ given' = Append(given, parseBind(arg))
                 /\ UNCHANGED phase
    BY <1>1 DEF OptM
  <2>3. CASE parseBind(arg) = <<>>
    <3>1. Entries' = Entries
      BY <2>1, <2>2, <2>3 DEF Entries, MappedEntries
    <3> QED
      BY <2>1, <2>2, <2>3, <3>1 DEF Ordering
  <2>4. CASE parseBind(arg) # <<>>
    <3> DEFINE b == parseBind(arg)
               e == Entry("Mapped", b.inside, b.outside)
    <3>1. arg \in Text
      BY PathMapAssumption DEF Text
    <3>2. b \in Binding /\ Absolute(b.inside) /\ Absolute(b.outside)
      BY <2>4, <3>1, ParseFacts
    <3>3. paths' = addPathMapping("Mapped", b.inside, b.outside) /\ given' = Append(given, b) /\ phase' = phase
      BY <2>2, <2>4
    <3> HIDE DEF b
    <3>4. e \in PathProp
      BY <3>2, EntryFacts DEF Binding
    <3>5. /\ Len(given) \in Nat /\ MappedEntries \in Seq(PathProp) /\ Len(MappedEntries) = Len(given)
          /\ \A i \in 1 .. Len(given) : MappedEntries[i] = Entry("Mapped", given[i].inside, given[i].outside)
      BY EntriesFacts
    <3>6. /\ given' \in Seq(Binding) /\ Len(given') = Len(given) + 1
          /\ \A i \in 1 .. Len(given) : given'[i] = given[i]
          /\ given'[Len(given) + 1] = b
      BY <3>2, <3>3, AppendProperties DEF Ordering
    <3>7. \A i \in 1 .. Len(given') : Absolute(given'[i].inside) /\ Absolute(given'[i].outside)
      <4> TAKE i \in 1 .. Len(given')
      <4>1. i \in 1 .. Len(given) \/ i = Len(given) + 1
        BY <3>5, <3>6
      <4> QED
        BY <3>2, <3>6, <4>1 DEF Ordering
    <3>8. MappedEntries' = Append(MappedEntries, e)
      <4> DEFINE f == [i \in 1 .. Len(given') |-> Entry("Mapped", given'[i].inside, given'[i].outside)]
      <4>1. MappedEntries' = f
        BY DEF MappedEntries, Entry, removeTrailingSlashes
      <4>2. /\ Append(MappedEntries, e) \in Seq(PathProp) /\ Len(Append(MappedEntries, e)) = Len(given) + 1
            /\ \A i \in 1 .. Len(given) : Append(MappedEntries, e)[i] = MappedEntries[i]
            /\ Append(MappedEntries, e)[Len(given) + 1] = e
        BY <3>4, <3>5, AppendProperties
      <4>3. ASSUME NEW i \in 1 .. Len(given) + 1
            PROVE  f[i] = Append(MappedEntries, e)[i]
        <5>1. f[i] = Entry("Mapped", given'[i].inside, given'[i].outside)
          BY <3>6
        <5>2. CASE i = Len(given) + 1
          BY <3>6, <4>2, <5>1, <5>2
        <5>3. CASE i # Len(given) + 1
          <6>1. i \in 1 .. Len(given)
            BY <3>5, <5>3
          <6> QED
            BY <3>5, <3>6, <4>2, <5>1, <6>1
        <5> QED
          BY <5>2, <5>3
      <4>4. f = [i \in 1 .. Len(given) + 1 |-> f[i]]
        BY <3>6
      <4>5. DOMAIN Append(MappedEntries, e) = 1 .. Len(given) + 1
        BY <4>2
      <4>6. f \in [1 .. Len(given) + 1 -> PathProp]
        <5>1. \A i \in 1 .. Len(given) + 1 : Append(MappedEntries, e)[i] \in PathProp
          BY <4>2, <4>5
        <5> HIDE DEF f
        <5> QED
          BY <4>3, <4>4, <5>1
      <4>7. f \in Seq(PathProp) /\ Len(f) = Len(given) + 1
        <5> HIDE DEF f
        <5> QED
          BY <3>5, <4>6
      <4> HIDE DEF f, e
      <4>8. f = Append(MappedEntries, e)
        BY <4>2, <4>3, <4>7, SeqEqual
      <4> QED
        BY <4>1, <4>8
    <3>9. Entries = MappedEntries /\ Entries' = MappedEntries'
      BY <2>1, <3>3 DEF Entries
    <3>10. paths' \in Seq(PathProp) /\ \E q : Sorted(paths', Entries', q)
      <4>1. PICK place : Sorted(paths, MappedEntries, place)
        BY <3>9 DEF Ordering
      <4> HIDE DEF e
      <4>2. /\ addPathMapping("Mapped", b.inside, b.outside) \in Seq(PathProp)
            /\ \E q : Sorted(addPathMapping("Mapped", b.inside, b.outside), Append(MappedEntries, e), q)
        BY <3>4, <3>5, <4>1, OrderingAdd DEF Ordering, e
      <4> QED
        BY <3>3, <3>8, <3>9, <4>2
    <3> QED
      BY <2>1, <3>3, <3>6, <3>7, <3>10 DEF Ordering
  <2> QED
    BY <2>3, <2>4
<1>2. CASE OptR
  <2>1. Entries' = Entries
    BY <1>2 DEF OptR, Entries, MappedEntries
  <2>2. chrootDir' \in Text /\ phase' = "options"
    BY <1>2, PathMapAssumption DEF OptR, Text
  <2> QED
    BY <1>2, <2>1, <2>2 DEF OptR, Ordering
<1>3. CASE OptE
  <2>1. Entries' = Entries
    BY <1>3 DEF OptE, Entries, MappedEntries
  <2> QED
    BY <1>3, <2>1 DEF OptE, Ordering
<1>4. CASE Start
  <2>1. phase = "options" /\ UNCHANGED <<given, chrootDir, withfuse>>
    BY <1>4 DEF Start
  <2>2. Entries = MappedEntries /\ MappedEntries' = MappedEntries
    BY <2>1 DEF Entries, MappedEntries
  <2>3. CASE ~Absolute(chrootDir)
    <3>1. phase' = "usage" /\ paths' = paths
      BY <1>4, <2>3 DEF Start
    <3>2. Entries' = Entries
      BY <2>2, <3>1 DEF Entries
    <3> QED
      BY <2>1, <3>1, <3>2 DEF Ordering
  <2>4. CASE Absolute(chrootDir) /\ ~withfuse
    <3>1. phase' = "running" /\ paths' = paths
      BY <1>4, <2>4 DEF Start
    <3>2. Entries' = Entries
      BY <2>1, <2>2, <2>4, <3>1 DEF Entries
    <3> QED
      BY <2>1, <2>4, <3>1, <3>2 DEF Ordering, Absolute
  <2>5. CASE Absolute(chrootDir) /\ withfuse
    <3>1. phase' = "running" /\ paths' = addPathMapping("Emulated", <<"/">>, chrootDir)
      BY <1>4, <2>5 DEF Start
    <3>2. Entries' = Append(MappedEntries, RootEntry)
      BY <2>1, <2>2, <2>5, <3>1 DEF Entries, RootEntry, Entry, removeTrailingSlashes
    <3>3. MappedEntries \in Seq(PathProp) /\ RootEntry \in PathProp
      BY <2>5, EntriesFacts
    <3>4. PICK place : Sorted(paths, MappedEntries, place)
      BY <2>2 DEF Ordering
    <3>5. /\ addPathMapping("Emulated", <<"/">>, chrootDir) \in Seq(PathProp)
          /\ \E q : Sorted(addPathMapping("Emulated", <<"/">>, chrootDir), Append(MappedEntries, RootEntry), q)
      BY <3>3, <3>4, OrderingAdd, Zenon DEF RootEntry, Ordering
    <3>6. paths' \in Seq(PathProp) /\ \E q : Sorted(paths', Entries', q)
      BY <3>1, <3>2, <3>5
    <3> QED
      BY <2>1, <2>5, <3>1, <3>6 DEF Ordering, Absolute
  <2> QED
    BY <2>3, <2>4, <2>5
<1>5. CASE UNCHANGED vars
  <2>1. Entries' = Entries
    BY <1>5 DEF vars, Entries, MappedEntries, RootEntry
  <2> QED
    BY <1>5, <2>1 DEF vars, Ordering
<1> QED
  BY <1>1, <1>2, <1>3, <1>4, <1>5 DEF Next

\* The inductive invariant holds in every reachable state.
LEMMA AlwaysOrdering == Spec => []Ordering
<1>1. Init => Ordering
  BY OrderingInit
<1>2. Ordering /\ [Next]_vars => Ordering'
  BY OrderingNext
<1> QED
  BY <1>1, <1>2, PTL DEF Spec

\* An entry per option, and one for the root directory.
LEMMA AllEntries ==
    ASSUME Ordering
    PROVE  /\ Entries \in Seq(PathProp)
           /\ \A i \in 1 .. Len(Entries) : IsEntry(Entries[i])
           /\ Len(Entries) = Len(given) + IF phase = "running" /\ withfuse THEN 1 ELSE 0
           /\ \A i \in 1 .. Len(given) : Entries[i] = MappedEntries[i]
           /\ phase = "running" /\ withfuse => Entries[Len(given) + 1] = RootEntry
<1>1. /\ Len(given) \in Nat
      /\ MappedEntries \in Seq(PathProp) /\ Len(MappedEntries) = Len(given)
      /\ \A i \in 1 .. Len(given) : IsEntry(MappedEntries[i])
      /\ Absolute(chrootDir) => RootEntry \in PathProp /\ IsEntry(RootEntry)
  BY EntriesFacts
<1>2. CASE phase = "running" /\ withfuse
  <2>1. Entries = Append(MappedEntries, RootEntry) /\ RootEntry \in PathProp /\ IsEntry(RootEntry)
    BY <1>1, <1>2 DEF Entries, Ordering
  <2>2. /\ Entries \in Seq(PathProp) /\ Len(Entries) = Len(given) + 1
        /\ \A i \in 1 .. Len(given) : Entries[i] = MappedEntries[i]
        /\ Entries[Len(given) + 1] = RootEntry
    BY <1>1, <2>1, AppendProperties
  <2>3. ASSUME NEW i \in 1 .. Len(Entries)
        PROVE  IsEntry(Entries[i])
    <3>1. i \in 1 .. Len(given) \/ i = Len(given) + 1
      BY <1>1, <2>2
    <3> QED
      BY <1>1, <2>1, <2>2, <3>1
  <2> QED
    BY <1>2, <2>2, <2>3
<1>3. CASE ~(phase = "running" /\ withfuse)
  BY <1>1, <1>3 DEF Entries
<1> QED
  BY <1>2, <1>3

\* The list of the program is sorted, every option has its entry, and what is kept of a path is
\* absolute and ends in one slash at most, whatever the options (addPathMapping, local.cc:22-30).
THEOREM PathTypes == Spec => []TypeOK
<1>1. Ordering => TypeOK
  <2> SUFFICES ASSUME Ordering
               PROVE  TypeOK
    OBVIOUS
  <2>1. PICK place : Sorted(paths, Entries, place)
    BY DEF Ordering
  <2>2. /\ Entries \in Seq(PathProp)
        /\ \A i \in 1 .. Len(Entries) : IsEntry(Entries[i])
        /\ Len(Entries) = Len(given) + IF phase = "running" /\ withfuse THEN 1 ELSE 0
    BY AllEntries
  <2>3. paths \in Seq(PathProp) /\ Len(paths) \in Nat /\ DOMAIN paths = 1 .. Len(paths)
    BY DEF Ordering
  <2>4. ASSUME NEW i \in DOMAIN paths
        PROVE  IsEntry(paths[i])
    <3>1. place[i] \in 1 .. Len(Entries) /\ paths[i] = Entries[place[i]]
      BY <2>1, <2>3 DEF Sorted
    <3> QED
      BY <2>2, <3>1
  <2>5. ASSUME NEW i \in DOMAIN paths, i > 1
        PROVE  Len(paths[i].inside) =< Len(paths[i - 1].inside)
    <3>1. i - 1 \in 1 .. Len(paths) /\ i \in 1 .. Len(paths) /\ i - 1 < i
      BY <2>3, <2>5
    <3>2. \/ Len(paths[i - 1].inside) > Len(paths[i].inside)
          \/ Len(paths[i - 1].inside) = Len(paths[i].inside)
      BY <2>1, <3>1 DEF Sorted
    <3>3. paths[i - 1] \in PathProp /\ paths[i] \in PathProp
      BY <2>3, <3>1
    <3>4. Len(paths[i - 1].inside) \in Nat /\ Len(paths[i].inside) \in Nat
      BY <3>3 DEF PathProp, Text
    <3> QED
      BY <3>2, <3>4
  <2>6. Len(paths) = Len(Entries)
    BY <2>1 DEF Sorted
  <2> QED
    BY <2>2, <2>4, <2>5, <2>6 DEF TypeOK, Ordering
<1> QED
  BY <1>1, AlwaysOrdering, PTL

-----------------------------------------------------------------------------
(* The options and the root directory by their place in Entries. *)

Running == Ordering /\ phase = "running" /\ withfuse

InsideOf(i) == IF i = Len(given) + 1 THEN <<"/">> ELSE given[i].inside

OutsideOf(i) == IF i = Len(given) + 1 THEN chrootDir ELSE given[i].outside

Kept(i) == removeTrailingSlashes(InsideOf(i))

\* Their entries.
LEMMA PlaceFacts ==
    ASSUME Running, NEW i \in 1 .. Len(given) + 1
    PROVE  /\ Len(given) \in Nat
           /\ Entries[i] = Entry(IF i = Len(given) + 1 THEN "Emulated" ELSE "Mapped", InsideOf(i), OutsideOf(i))
           /\ Entries[i].inside = Kept(i)
           /\ Entries[i].outside = removeTrailingSlashes(OutsideOf(i))
           /\ InsideOf(i) \in Text /\ Absolute(InsideOf(i))
           /\ OutsideOf(i) \in Text /\ Absolute(OutsideOf(i))
<1>1. /\ Len(given) \in Nat
      /\ \A j \in 1 .. Len(given) : /\ MappedEntries[j] = Entry("Mapped", given[j].inside, given[j].outside)
                                    /\ given[j].inside \in Text /\ given[j].outside \in Text
                                    /\ Absolute(given[j].inside) /\ Absolute(given[j].outside)
  BY EntriesFacts DEF Running
<1>2. /\ \A j \in 1 .. Len(given) : Entries[j] = MappedEntries[j]
      /\ Entries[Len(given) + 1] = RootEntry
  BY AllEntries DEF Running
<1>3. CASE i = Len(given) + 1
  <2>1. Entries[i] = Entry("Emulated", <<"/">>, chrootDir) /\ InsideOf(i) = <<"/">> /\ OutsideOf(i) = chrootDir
    BY <1>2, <1>3 DEF RootEntry, InsideOf, OutsideOf
  <2>2. chrootDir \in Text /\ Absolute(chrootDir)
    BY DEF Running, Ordering
  <2> QED
    BY <1>1, <1>3, <2>1, <2>2, Slash DEF Entry, Kept
<1>4. CASE i # Len(given) + 1
  <2>1. i \in 1 .. Len(given)
    BY <1>1, <1>4
  <2>2. /\ Entries[i] = Entry("Mapped", given[i].inside, given[i].outside)
        /\ InsideOf(i) = given[i].inside /\ OutsideOf(i) = given[i].outside
    BY <1>1, <1>2, <1>4, <2>1 DEF InsideOf, OutsideOf
  <2> QED
    BY <1>1, <1>4, <2>1, <2>2 DEF Entry, Kept
<1> QED
  BY <1>3, <1>4

\* What findPathProp returns is the longest of the entries that fit, and of two of the same
\* length the later one (local.cc:50-63).
LEMMA TheFirst ==
    ASSUME Running, NEW p, Absolute(p),
           \E i \in 1 .. Len(given) + 1 : isPathPrefixOf(Kept(i), p)
    PROVE  \E w \in 1 .. Len(given) + 1 :
               /\ findPathProp(p) = {Entries[w]}
               /\ isPathPrefixOf(Kept(w), p)
               /\ \A v \in 1 .. Len(given) + 1 :
                      isPathPrefixOf(Kept(v), p) =>
                          \/ w = v
                          \/ Len(Kept(w)) > Len(Kept(v))
                          \/ Len(Kept(w)) = Len(Kept(v)) /\ w > v
<1>1. PICK place : Sorted(paths, Entries, place)
  BY DEF Running, Ordering
<1> DEFINE N == Len(given) + 1
           hits == {k \in DOMAIN paths : Absolute(p) /\ isPathPrefixOf(paths[k].inside, p)}
<1>2. /\ N \in Nat /\ Len(Entries) = N
      /\ paths \in Seq(PathProp) /\ Len(paths) = N /\ DOMAIN paths = 1 .. N
  <2>1. Len(given) \in Nat /\ Len(Entries) = N
    BY EntriesFacts, AllEntries DEF Running
  <2> QED
    BY <1>1, <2>1 DEF Sorted, Running, Ordering
<1>3. /\ \A k \in 1 .. N : place[k] \in 1 .. N /\ paths[k] = Entries[place[k]]
      /\ \A i \in 1 .. N : \E k \in 1 .. N : place[k] = i
      /\ \A k, l \in 1 .. N : k < l =>
             \/ Len(paths[k].inside) > Len(paths[l].inside)
             \/ Len(paths[k].inside) = Len(paths[l].inside) /\ place[k] > place[l]
  BY <1>1, <1>2 DEF Sorted
<1>4. \A k \in 1 .. N : paths[k].inside = Kept(place[k])
  BY <1>3, PlaceFacts
<1>5. hits \subseteq Nat /\ hits # {}
  <2>1. PICK i \in 1 .. N : isPathPrefixOf(Kept(i), p)
    OBVIOUS
  <2>2. PICK k \in 1 .. N : place[k] = i
    BY <1>3
  <2>3. k \in hits
    BY <1>2, <1>4, <2>1, <2>2
  <2> QED
    BY <1>2, <2>3
<1>6. PICK k \in hits : \A l \in hits : k =< l
  <2> HIDE DEF hits
  <2> QED
    BY <1>5, LeastExists
<1>7. k \in 1 .. N /\ place[k] \in 1 .. N /\ isPathPrefixOf(Kept(place[k]), p)
  BY <1>2, <1>3, <1>4, <1>6
<1>8. findPathProp(p) = {Entries[place[k]]}
  <2>1. findPathProp(p) = {paths[i] : i \in {j \in hits : \A l \in hits : j =< l}}
    BY DEF findPathProp
  <2>2. {j \in hits : \A l \in hits : j =< l} = {k}
    <3> HIDE DEF hits
    <3>1. \A j \in hits : (\A l \in hits : j =< l) => j = k
      <4> SUFFICES ASSUME NEW j \in hits, \A l \in hits : j =< l
                   PROVE  j = k
        OBVIOUS
      <4>1. j =< k /\ k =< j
        BY <1>6
      <4> QED
        BY <1>5, <4>1
    <3> QED
      BY <1>6, <3>1
  <2>3. paths[k] = Entries[place[k]]
    BY <1>3, <1>7
  <2> QED
    BY <2>1, <2>2, <2>3
<1>9. ASSUME NEW v \in 1 .. N, isPathPrefixOf(Kept(v), p)
      PROVE  \/ place[k] = v
             \/ Len(Kept(place[k])) > Len(Kept(v))
             \/ Len(Kept(place[k])) = Len(Kept(v)) /\ place[k] > v
  <2>1. PICK l \in 1 .. N : place[l] = v
    BY <1>3
  <2>2. l \in hits
    BY <1>2, <1>4, <1>9, <2>1
  <2>3. k = l \/ k < l
    <3>1. k =< l
      BY <1>6, <2>2
    <3> QED
      BY <1>2, <1>7, <3>1
  <2>4. /\ paths[k].inside = Kept(place[k]) /\ paths[l].inside = Kept(v)
        /\ k = l => place[k] = v
    BY <1>4, <1>7, <2>1
  <2>5. k < l => \/ Len(paths[k].inside) > Len(paths[l].inside)
                 \/ Len(paths[k].inside) = Len(paths[l].inside) /\ place[k] > place[l]
    BY <1>3, <1>7
  <2> QED
    BY <2>1, <2>3, <2>4, <2>5, Zenon
<1> QED
  BY <1>7, <1>8, <1>9

\* Lengths of strings that are not empty.
LEMMA NotEmpty ==
    ASSUME NEW S, NEW b \in Seq(S), b # <<>>
    PROVE  Len(b) \in Nat /\ Len(b) # 0
  BY EmptySeq

LEMMA OneAtMost ==
    ASSUME NEW S, NEW b \in Seq(S), b # <<>>, Len(b) =< 1
    PROVE  Len(b) = 1
<1>1. Len(b) \in Nat /\ Len(b) # 0
  BY NotEmpty
<1> QED
  BY <1>1

LEMMA TwoAtLeast ==
    ASSUME NEW S, NEW b \in Seq(S), b # <<>>, b[1] # b[Len(b)]
    PROVE  Len(b) >= 2
<1>1. Len(b) \in Nat /\ Len(b) # 0
  BY NotEmpty
<1>2. Len(b) # 1
  OBVIOUS
<1> QED
  BY <1>1, <1>2

\* The empty string has no names.
LEMMA NoNames == <<>> \in Text /\ Components(<<>>) = <<>>
<1>1. <<>> \in Text /\ Len(<<>>) = 0
  BY EmptySeq DEF Text
<1>2. Clean(<<>>)
  BY <1>1 DEF Clean
<1>3. Len(Components(<<>>)) = 0
  BY <1>2, CleanNames
<1>4. Components(<<>>) \in Seq(Seq(Chars))
  BY <1>1, ComponentsFacts
<1> QED
  BY <1>1, <1>3, <1>4, NotEmpty

\* What is kept of the root directory.
LEMMA RootTarget ==
    /\ Last(<<"/">>) = "/" /\ Body(<<"/">>) = <<>> /\ ~Doubled(<<"/">>)
    /\ Components(<<"/">>) = <<>> /\ Len(removeTrailingSlashes(<<"/">>)) = 1
<1>1. Last(<<"/">>) = "/"
  BY DEF Last
<1>2. ~Doubled(<<"/">>)
  <2>1. DOMAIN <<"/">> = 1 .. 1
    OBVIOUS
  <2> QED
    BY <2>1 DEF Doubled
<1>3. Body(<<"/">>) = <<>>
  <2>1. /\ Body(<<"/">>) \in Seq(Chars) /\ Len(Body(<<"/">>)) =< 1
        /\ \A i \in 1 .. Len(Body(<<"/">>)) : Body(<<"/">>)[i] = <<"/">>[i]
        /\ Body(<<"/">>) # <<>> => Body(<<"/">>)[Len(Body(<<"/">>))] # "/"
    BY Slash, BodyFacts DEF Text
  <2>2. SUFFICES ASSUME Body(<<"/">>) # <<>>
                 PROVE  FALSE
    OBVIOUS
  <2>3. Len(Body(<<"/">>)) = 1
    BY <2>1, <2>2, OneAtMost, Zenon
  <2>4. Body(<<"/">>)[1] # "/"
    BY <2>1, <2>2, <2>3, Zenon
  <2>5. 1 \in 1 .. Len(Body(<<"/">>))
    BY <2>3
  <2> QED
    BY <2>1, <2>4, <2>5, Slash, Zenon
<1>4. Components(<<"/">>) = <<>>
  BY <1>3, Slash, NoNames, ComponentsOfBody
<1>5. Len(removeTrailingSlashes(<<"/">>)) = 1
  <2>1. Len(removeTrailingSlashes(<<"/">>)) = Len(Body(<<"/">>)) + 1
    BY <1>1, Slash, KeptFacts
  <2>2. Len(Body(<<"/">>)) = 0
    BY <1>3
  <2> QED
    BY <2>1, <2>2
<1> QED
  BY <1>1, <1>2, <1>3, <1>4, <1>5

\* What is known of the targets if a path is not special.
LEMMA NotSpecial ==
    ASSUME Running, NEW p \in FusePaths, ~Special(p)
    PROVE  /\ DOMAIN given = 1 .. Len(given) /\ Len(given) \in Nat
           /\ \A i \in 1 .. Len(given) + 1 : IsTarget(InsideOf(i))
           /\ \A i \in 1 .. Len(given) :
                  Components(p) = Components(given[i].inside) =>
                      ~Slashed(given[i].inside) /\ Components(given[i].outside) \notin Files
<1>1. given \in Seq(Binding) /\ DOMAIN given = 1 .. Len(given) /\ Len(given) \in Nat
  BY DEF Running, Ordering
<1>2. \A i \in 1 .. Len(given) :
          /\ ~Doubled(given[i].inside)
          /\ Components(p) = Components(given[i].inside) =>
                 ~Slashed(given[i].inside) /\ Components(given[i].outside) \notin Files
  BY <1>1, Zenon DEF Special
<1>3. ASSUME NEW i \in 1 .. Len(given) + 1
      PROVE  IsTarget(InsideOf(i))
  <2>1. InsideOf(i) \in Text /\ Absolute(InsideOf(i))
    BY PlaceFacts
  <2>2. CASE i = Len(given) + 1
    <3>1. InsideOf(i) = <<"/">>
      BY <2>2 DEF InsideOf
    <3> QED
      BY <2>1, <3>1, RootTarget DEF IsTarget
  <2>3. CASE i # Len(given) + 1
    <3>1. i \in 1 .. Len(given) /\ InsideOf(i) = given[i].inside
      BY <1>1, <2>3 DEF InsideOf
    <3> QED
      BY <1>2, <2>1, <3>1 DEF IsTarget
  <2> QED
    BY <2>2, <2>3
<1> QED
  BY <1>1, <1>2, <1>3

\* What is kept of a target is as long as its names, and one more for a slash.
LEMMA Lengths ==
    ASSUME NEW s, IsTarget(s)
    PROVE  /\ Len(removeTrailingSlashes(s)) = Len(Body(s)) + IF Last(s) = "/" THEN 1 ELSE 0
           /\ Len(Body(s)) \in Nat
           /\ Components(s) = <<>> => Len(Body(s)) = 0 /\ Last(s) = "/"
           /\ Components(s) # <<>> => Len(Body(s)) >= 2 /\ (Slashed(s) <=> Last(s) = "/")
<1>1. /\ Clean(Body(s)) /\ Len(Body(s)) \in Nat
      /\ Body(s) = <<>> => Last(s) = "/"
      /\ Components(s) = <<>> <=> Body(s) = <<>>
  BY TargetFacts
<1>2. Len(removeTrailingSlashes(s)) = Len(Body(s)) + IF Last(s) = "/" THEN 1 ELSE 0
  BY KeptFacts DEF IsTarget
<1>3. Body(s) # <<>> => Len(Body(s)) >= 2
  <2>1. SUFFICES ASSUME Body(s) # <<>>
                 PROVE  Len(Body(s)) >= 2
    OBVIOUS
  <2>2. Body(s)[1] = "/" /\ Body(s)[Len(Body(s))] # "/" /\ Body(s) \in Text
    BY <1>1, <2>1 DEF Clean
  <2>3. Body(s)[1] # Body(s)[Len(Body(s))]
    BY <2>2
  <2> QED
    BY <2>1, <2>2, <2>3, TwoAtLeast, Zenon DEF Text
<1>4. Body(s) = <<>> => Len(Body(s)) = 0
  OBVIOUS
<1> QED
  BY <1>1, <1>2, <1>3, <1>4 DEF Slashed

\* The code finds a path under every target that covers it, and under no other.
LEMMA FitsIsCovers ==
    ASSUME Running, NEW p \in FusePaths, ~Special(p)
    PROVE  /\ isPathPrefixOf(Kept(Len(given) + 1), p)
           /\ \A i \in 1 .. Len(given) : isPathPrefixOf(Kept(i), p) <=> i \in Covering(p)
<1>1. /\ DOMAIN given = 1 .. Len(given) /\ Len(given) \in Nat
      /\ \A i \in 1 .. Len(given) + 1 : IsTarget(InsideOf(i))
      /\ \A i \in 1 .. Len(given) :
             Components(p) = Components(given[i].inside) => ~Slashed(given[i].inside)
  BY NotSpecial
<1>2. isPathPrefixOf(Kept(Len(given) + 1), p)
  <2>1. Len(given) + 1 \in 1 .. Len(given) + 1 /\ InsideOf(Len(given) + 1) = <<"/">>
    BY <1>1 DEF InsideOf
  <2> QED
    BY <1>1, <2>1, RootTarget, Fits DEF Kept
<1>3. ASSUME NEW i \in 1 .. Len(given)
      PROVE  isPathPrefixOf(Kept(i), p) <=> i \in Covering(p)
  <2> DEFINE s == given[i].inside
  <2>1. IsTarget(s) /\ Kept(i) = removeTrailingSlashes(s)
    <3>1. i # Len(given) + 1 /\ i \in 1 .. Len(given) + 1
      BY <1>1
    <3>2. InsideOf(i) = s
      BY <3>1 DEF InsideOf
    <3> QED
      BY <1>1, <3>1, <3>2 DEF Kept
  <2>2. isPathPrefixOf(removeTrailingSlashes(s), p) <=>
            \/ Last(s) = "/" /\ Body(s) = <<>>
            \/ Below(p, Body(s))
            \/ Last(s) # "/" /\ p = Body(s)
    BY <2>1, Fits
  <2>3. i \in Covering(p) <=> Body(s) = <<>> \/ p = Body(s) \/ Below(p, Body(s))
    <3>1. i \in Covering(p) <=> IsPrefix(Components(s), Components(p))
      BY <1>1 DEF Covering
    <3> HIDE DEF s
    <3> QED
      BY <2>1, <3>1, Covers
  <2>4. /\ Body(s) = <<>> => Last(s) = "/"
        /\ Components(Body(s)) = Components(s) /\ (Components(s) = <<>> <=> Body(s) = <<>>)
    BY <2>1, TargetFacts
  <2>5. p = Body(s) => Last(s) # "/" \/ Body(s) = <<>>
    <3>1. SUFFICES ASSUME p = Body(s), Last(s) = "/", Body(s) # <<>>
                   PROVE  FALSE
      OBVIOUS
    <3>2. Components(p) = Components(s) /\ Slashed(s)
      BY <2>4, <3>1 DEF Slashed
    <3> QED
      BY <1>1, <3>2
  <2> HIDE DEF s
  <2> QED
    BY <2>1, <2>2, <2>3, <2>4, <2>5
<1> QED
  BY <1>2, <1>3

\* Of two targets that cover a path, what the code compares says which one is over the other.
Outranks(s, t) ==
    \/ Len(Components(s)) - Len(Components(t)) > 0
    \/ Len(Components(s)) - Len(Components(t)) = 0 /\ Slashed(s) /\ ~Slashed(t)

SameRank(s, t) == Len(Components(s)) - Len(Components(t)) = 0 /\ (Slashed(s) <=> Slashed(t))

BothCover(s, t, p) ==
    /\ IsTarget(s) /\ IsPrefix(Components(s), Components(p)) /\ Components(s) # <<>>
    /\ IsTarget(t) /\ IsPrefix(Components(t), Components(p))

\* Of two targets over one path the longer string, without its superfluous slashes, is
\* the deeper one, or the same with a slash at its end; equally long ones are the same.
LEMMA LengthsOrder ==
    ASSUME NEW s, NEW t, NEW p \in FusePaths, BothCover(s, t, p),
           NEW x, x = removeTrailingSlashes(s), NEW y, y = removeTrailingSlashes(t)
    PROVE  /\ Len(Components(s)) \in Nat /\ Len(Components(t)) \in Nat
           /\ Len(x) > Len(y) => Outranks(s, t)
           /\ Len(x) = Len(y) => SameRank(s, t)
<1> USE DEF BothCover, Outranks, SameRank
<1> DEFINE cs == Len(Components(s))
           ct == Len(Components(t))
           bs == Len(Body(s))
           bt == Len(Body(t))
           ks == Len(x)
           kt == Len(y)
<1>1. cs \in Nat /\ ct \in Nat /\ Components(Body(s)) = Components(s) /\ Components(Body(t)) = Components(t)
  BY TargetFacts
<1>2. /\ ks = bs + (IF Last(s) = "/" THEN 1 ELSE 0) /\ bs \in Nat
      /\ bs >= 2 /\ (Slashed(s) <=> Last(s) = "/")
  BY Lengths
<1>3. /\ kt = bt + (IF Last(t) = "/" THEN 1 ELSE 0) /\ bt \in Nat
      /\ Components(t) = <<>> => bt = 0
      /\ Components(t) # <<>> => (Slashed(t) <=> Last(t) = "/")
  BY Lengths
<1>4. /\ bs = bt => Body(s) = Body(t)
      /\ bs < bt => bs + 1 < bt
      /\ bt < bs => bt + 1 < bs /\ ct < cs
  BY Depths
<1>5. CASE bs = bt
  <2>1. Components(s) = Components(t)
    BY <1>1, <1>4, <1>5
  <2>2. cs = ct /\ (Slashed(t) <=> Last(t) = "/")
    BY <1>3, <2>1
  <2> HIDE DEF cs, ct, bs, bt, ks, kt
  <2>3. /\ cs - ct = 0
        /\ ks > kt => Slashed(s) /\ ~Slashed(t)
        /\ ks = kt => (Slashed(s) <=> Slashed(t))
    BY <1>1, <1>2, <1>3, <1>5, <2>2
  <2> QED
    BY <1>1, <2>3 DEF cs, ct, ks, kt
<1>6. CASE bs < bt
  <2> HIDE DEF cs, ct, bs, bt, ks, kt
  <2>1. ks < kt /\ ks \in Nat /\ kt \in Nat
    BY <1>2, <1>3, <1>4, <1>6
  <2>2. ~(ks > kt) /\ ks # kt
    BY <2>1
  <2> QED
    BY <1>1, <2>2 DEF cs, ct, ks, kt
<1>7. CASE bt < bs
  <2> HIDE DEF cs, ct, bs, bt, ks, kt
  <2>1. ks > kt /\ ks \in Nat /\ kt \in Nat /\ cs - ct > 0
    BY <1>1, <1>2, <1>3, <1>4, <1>7
  <2>2. ks # kt
    BY <2>1
  <2> QED
    BY <1>1, <2>1, <2>2 DEF cs, ct, ks, kt
<1>8. bs = bt \/ bs < bt \/ bt < bs
  <2> HIDE DEF bs, bt
  <2> QED
    BY <1>2, <1>3
<1> QED
  BY <1>5, <1>6, <1>7, <1>8

\* The rule the code applies to a path is the one the options order: the option on top of
\* the others, or the root directory if only options of the root cover the path.
LEMMA TheRule ==
    ASSUME Running, NEW p \in FusePaths, ~Special(p)
    PROVE  \E w \in 1 .. Len(given) + 1 :
               /\ findPathProp(p) = {Entries[w]}
               /\ isPathPrefixOf(Kept(w), p)
               /\ IF w = Len(given) + 1 THEN ~Ordered(p)
                  ELSE Components(given[w].inside) # <<>> /\ Chosen(p) = {w}
<1> DEFINE N == Len(given)
<1>1. /\ DOMAIN given = 1 .. N /\ N \in Nat
      /\ \A i \in 1 .. N + 1 : IsTarget(InsideOf(i))
  BY NotSpecial
<1>2. /\ isPathPrefixOf(Kept(N + 1), p)
      /\ \A i \in 1 .. N : isPathPrefixOf(Kept(i), p) <=> i \in Covering(p)
  BY FitsIsCovers
<1>3. Absolute(p)
  BY PathFacts
<1>4. PICK w \in 1 .. N + 1 :
          /\ findPathProp(p) = {Entries[w]}
          /\ isPathPrefixOf(Kept(w), p)
          /\ \A v \in 1 .. N + 1 :
                 isPathPrefixOf(Kept(v), p) =>
                     \/ w = v
                     \/ Len(Kept(w)) > Len(Kept(v))
                     \/ Len(Kept(w)) = Len(Kept(v)) /\ w > v
  <2>1. N + 1 \in 1 .. N + 1
    BY <1>1
  <2>2. \E i \in 1 .. N + 1 : isPathPrefixOf(Kept(i), p)
    BY <1>2, <2>1
  <2> QED
    BY <1>3, <2>2, TheFirst
<1>5. \A i \in 1 .. N : /\ i \in 1 .. N + 1 /\ i # N + 1
                        /\ InsideOf(i) = given[i].inside
                        /\ Kept(i) = removeTrailingSlashes(given[i].inside)
                        /\ IsTarget(given[i].inside)
  <2> TAKE i \in 1 .. N
  <2>1. i \in 1 .. N + 1 /\ i # N + 1
    BY <1>1
  <2>2. InsideOf(i) = given[i].inside
    BY <2>1 DEF InsideOf
  <2> QED
    BY <1>1, <2>1, <2>2 DEF Kept
<1>6. Len(Kept(N + 1)) = 1
  <2>1. InsideOf(N + 1) = <<"/">>
    BY DEF InsideOf
  <2>2. Kept(N + 1) = removeTrailingSlashes(<<"/">>)
    BY <2>1, Zenon DEF Kept
  <2> QED
    BY <2>2, RootTarget, Zenon
<1>7. \A i \in 1 .. N : /\ Components(given[i].inside) # <<>> => Len(Kept(i)) > 1
                        /\ Components(given[i].inside) = <<>> => Len(Kept(i)) = 1
  <2> TAKE i \in 1 .. N
  <2> DEFINE s == given[i].inside
             b == Len(Body(s))
  <2>1. /\ Len(Kept(i)) = b + (IF Last(s) = "/" THEN 1 ELSE 0) /\ b \in Nat
        /\ Components(s) = <<>> => b = 0 /\ Last(s) = "/"
        /\ Components(s) # <<>> => b >= 2
    BY <1>5, Lengths
  <2> HIDE DEF s, b
  <2>2. /\ Components(s) # <<>> => Len(Kept(i)) > 1
        /\ Components(s) = <<>> => Len(Kept(i)) = 1
    BY <2>1
  <2> QED
    BY <2>2 DEF s
<1>8. \A i \in Covering(p) : i \in 1 .. N /\ IsPrefix(Components(given[i].inside), Components(p))
  BY <1>1 DEF Covering
<1>9. CASE w = N + 1
  <2>1. ASSUME Ordered(p)
        PROVE  FALSE
    <3>1. PICK i \in Chosen(p) : Components(given[i].inside) # <<>>
      BY <2>1 DEF Ordered
    <3>2. i \in Covering(p)
      BY DEF Chosen
    <3>3. i \in 1 .. N /\ isPathPrefixOf(Kept(i), p) /\ i \in 1 .. N + 1 /\ i # N + 1
      BY <1>2, <1>5, <1>8, <3>2
    <3>4. Len(Kept(i)) > 1
      BY <1>7, <3>1, <3>3
    <3>5. Len(Kept(N + 1)) > Len(Kept(i)) \/ Len(Kept(N + 1)) = Len(Kept(i))
      BY <1>4, <1>9, <3>3
    <3>6. Len(Kept(i)) \in Nat
      <4>1. Kept(i) \in Text
        BY <1>5, <3>3, KeptFacts DEF IsTarget
      <4> QED
        BY <4>1 DEF Text
    <3>7. ASSUME NEW x \in Nat, x > 1
          PROVE  ~(1 > x) /\ 1 # x
      BY <3>7
    <3> QED
      BY <1>6, <3>4, <3>5, <3>6, <3>7, Zenon
  <2> QED
    BY <1>4, <1>9, <2>1
<1>10. CASE w # N + 1
  <2>1. w \in 1 .. N /\ w \in Nat
    BY <1>1, <1>10
  <2> DEFINE s == given[w].inside
  <2>2. Components(s) # <<>>
    <3>1. Len(Kept(w)) > Len(Kept(N + 1)) \/ w > N + 1
      BY <1>1, <1>2, <1>4, <1>10
    <3>2. ~(w > N + 1)
      BY <1>1, <2>1
    <3>3. Components(s) = <<>> => Len(Kept(w)) = 1
      BY <1>7, <2>1
    <3> QED
      BY <1>6, <3>1, <3>2, <3>3
  <2>3. w \in Covering(p) /\ IsTarget(s) /\ IsPrefix(Components(s), Components(p))
        /\ Kept(w) = removeTrailingSlashes(s)
    BY <1>2, <1>4, <1>5, <1>8, <2>1
  <2>4. ASSUME NEW j \in Covering(p)
        PROVE  Over(w, j) /\ (Over(j, w) => j = w)
    <3> DEFINE t == given[j].inside
               d == Len(Components(s)) - Len(Components(t))
               e == Len(Components(t)) - Len(Components(s))
    <3>1. /\ j \in 1 .. N /\ isPathPrefixOf(Kept(j), p) /\ j \in Nat
          /\ IsTarget(t) /\ IsPrefix(Components(t), Components(p))
          /\ Kept(j) = removeTrailingSlashes(t)
      BY <1>1, <1>2, <1>5, <1>8
    <3>2. \/ w = j
          \/ Len(Kept(w)) > Len(Kept(j))
          \/ Len(Kept(w)) = Len(Kept(j)) /\ w > j
      BY <1>4, <1>5, <3>1
    <3>3. /\ Len(Components(s)) \in Nat /\ Len(Components(t)) \in Nat
          /\ Len(Kept(w)) > Len(Kept(j)) => d > 0 \/ (d = 0 /\ Slashed(s) /\ ~Slashed(t))
          /\ Len(Kept(w)) = Len(Kept(j)) => d = 0 /\ (Slashed(s) <=> Slashed(t))
      <4>1. BothCover(s, t, p)
        BY <2>2, <2>3, <3>1, Zenon DEF BothCover
      <4>2. /\ Len(Components(s)) \in Nat /\ Len(Components(t)) \in Nat
            /\ Len(Kept(w)) > Len(Kept(j)) => Outranks(s, t)
            /\ Len(Kept(w)) = Len(Kept(j)) => SameRank(s, t)
        BY <2>3, <3>1, <4>1, LengthsOrder, Zenon
      <4> QED
        BY <4>2, Zenon DEF Outranks, SameRank
    <3>4. /\ Over(w, j) <=> \/ d > 0
                            \/ d = 0 /\ Slashed(s) /\ ~Slashed(t)
                            \/ d = 0 /\ (Slashed(s) <=> Slashed(t)) /\ j =< w
          /\ Over(j, w) <=> \/ e > 0
                            \/ e = 0 /\ Slashed(t) /\ ~Slashed(s)
                            \/ e = 0 /\ (Slashed(t) <=> Slashed(s)) /\ w =< j
      BY DEF Over
    <3>5. /\ d \in Int /\ e = -d
          /\ w > j => j =< w /\ ~(w =< j)
          /\ w = j => j =< w
      BY <2>1, <3>1, <3>3
    <3>6. w = j => d = 0 /\ (Slashed(s) <=> Slashed(t))
      BY <3>3
    <3> HIDE DEF s, t, d, e
    <3>7. ~(d > 0 /\ e > 0) /\ (d > 0 => e # 0) /\ (d = 0 => ~(e > 0) /\ e = 0)
      BY <3>5
    <3>8. Over(w, j)
      BY <3>2, <3>3, <3>4, <3>5, <3>6, Zenon
    <3>9. w # j => ~Over(j, w)
      BY <3>2, <3>3, <3>4, <3>5, <3>7, Zenon
    <3> QED
      BY <3>8, <3>9
  <2>5. Chosen(p) = {w}
    BY <2>3, <2>4, Zenon DEF Chosen
  <2> QED
    BY <1>4, <1>10, <2>1, <2>2, <2>5
<1> QED
  BY <1>9, <1>10

\* The owner and mode of a path are emulated exactly if no -M covers it, whatever the options,
\* their number and their order (findPathProp and getAttrType, local.cc:50-63).
THEOREM RulesAreRight == Spec => []RightRules
<1>1. Ordering => RightRules
  <2> SUFFICES ASSUME Running, NEW p \in FusePaths, ~Special(p)
               PROVE  getAttrType(p) = IF Ordered(p) THEN "Mapped" ELSE "Emulated"
    BY DEF RightRules, Running
  <2>1. PICK w \in 1 .. Len(given) + 1 :
            /\ findPathProp(p) = {Entries[w]}
            /\ IF w = Len(given) + 1 THEN ~Ordered(p)
               ELSE Components(given[w].inside) # <<>> /\ Chosen(p) = {w}
    BY TheRule, Zenon
  <2>2. getAttrType(p) = Entries[w].attrType
    <3>1. (CHOOSE pp \in {Entries[w]} : TRUE) = Entries[w]
      OBVIOUS
    <3>2. {Entries[w]} # {}
      OBVIOUS
    <3> QED
      BY <2>1, <3>1, <3>2 DEF getAttrType
  <2>3. Entries[w].attrType = IF w = Len(given) + 1 THEN "Emulated" ELSE "Mapped"
    <3>1. Entries[w] = Entry(IF w = Len(given) + 1 THEN "Emulated" ELSE "Mapped", InsideOf(w), OutsideOf(w))
      BY PlaceFacts
    <3> QED
      BY <3>1 DEF Entry
  <2>4. CASE w = Len(given) + 1
    BY <2>1, <2>2, <2>3, <2>4
  <2>5. CASE w # Len(given) + 1
    <3>1. Ordered(p)
      BY <2>1, <2>5 DEF Ordered
    <3> QED
      BY <2>2, <2>3, <2>5, <3>1
  <2> QED
    BY <2>4, <2>5
<1> QED
  BY <1>1, AlwaysOrdering, PTL

-----------------------------------------------------------------------------
(* The path the code asks the host for. *)

\* What is cut off behind a target: the rest r, or the slash before it as well.
IsTail(tail, r) ==
    \/ tail = r /\ (r = <<>> \/ r[1] # "/")
    \/ tail = <<"/">> \o r /\ Tail(tail) = r /\ tail # <<>> /\ tail[1] = "/"

\* There is one slash between the outside path and the rest (pathConcat, local.cc:65-79).
LEMMA ConcatJoins ==
    ASSUME NEW o \in Text, Absolute(o), NEW r \in Text, NEW tail, IsTail(tail, r)
    PROVE  pathConcat(removeTrailingSlashes(o), tail) = Joined2(Body(o), r)
<1> DEFINE k == removeTrailingSlashes(o)
           b == Body(o)
<1>1. /\ b \in Seq(Chars) /\ r \in Seq(Chars) /\ <<"/">> \in Seq(Chars)
      /\ k = IF Last(o) = "/" THEN Append(b, "/") ELSE b
      /\ Last(k) = "/" <=> Last(o) = "/"
  BY BodyFacts, KeptFacts, Slash DEF Text
<1>2. "/" \in Chars
  BY PathMapAssumption
<1>3. Last(k) = "/" => k = b \o <<"/">>
  <2> HIDE DEF k, b
  <2>1. Append(b, "/") = b \o <<"/">>
    BY <1>1, <1>2, AppendIsConcat, Zenon
  <2> QED
    BY <1>1, <2>1, Zenon
<1>4. Last(k) # "/" => k = b
  BY <1>1, Zenon
<1>5. (b \o <<"/">>) \o r = b \o (<<"/">> \o r)
  <2> DEFINE ThreeJoined(x, y, z) == (x \o y) \o z = x \o (y \o z)
  <2>1. \A x, y, z \in Seq(Chars) : ThreeJoined(x, y, z)
    BY ConcatAssociative
  <2> HIDE DEF ThreeJoined
  <2>2. ThreeJoined(b, <<"/">>, r)
    BY <1>1, <2>1, Zenon
  <2> QED
    BY <2>2 DEF ThreeJoined
<1>6. Joined2(b, r) = (b \o <<"/">>) \o r
  BY DEF Joined2
<1> HIDE DEF k, b
<1>7. CASE tail = r /\ (r = <<>> \/ r[1] # "/")
  <2>1. pathConcat(k, tail) = IF Last(k) = "/" THEN k \o r ELSE k \o <<"/">> \o r
    BY <1>7 DEF pathConcat
  <2> QED
    BY <1>3, <1>4, <1>6, <2>1 DEF k, b
<1>8. CASE tail = <<"/">> \o r /\ Tail(tail) = r /\ tail # <<>> /\ tail[1] = "/"
  <2>1. pathConcat(k, tail) = IF Last(k) = "/" THEN k \o r ELSE k \o (<<"/">> \o r)
    BY <1>8 DEF pathConcat
  <2> QED
    BY <1>3, <1>4, <1>5, <1>6, <2>1 DEF k, b
<1> QED
  BY <1>7, <1>8 DEF IsTail, k, b

\* A string with a length is not the empty one.
LEMMA SomeLength ==
    ASSUME NEW r, Len(r) > 0
    PROVE  r # <<>>
  OBVIOUS

\* The end of a string that is joined.
LEMMA LastOfJoined ==
    ASSUME NEW b \in Text, NEW r \in Text
    PROVE  Last(Joined2(b, r)) = IF r = <<>> THEN "/" ELSE Last(r)
<1> DEFINE j == Joined2(b, r)
<1>1. /\ Len(j) = Len(b) + 1 + Len(r) /\ Len(b) \in Nat /\ Len(r) \in Nat
      /\ j[Len(b) + 1] = "/"
      /\ \A k \in 1 .. Len(r) : j[k + (Len(b) + 1)] = r[k]
  BY JoinFacts
<1> HIDE DEF j
<1>2. CASE r = <<>>
  <2>1. Len(j) = Len(b) + 1
    BY <1>1, <1>2
  <2> QED
    BY <1>1, <1>2, <2>1 DEF Last, j
<1>3. CASE r # <<>>
  <2>1. Len(r) # 0
    BY <1>3, NotEmpty DEF Text
  <2>2. Len(r) \in 1 .. Len(r) /\ Len(r) + (Len(b) + 1) = Len(j)
    BY <1>1, <2>1
  <2>3. j[Len(j)] = r[Len(r)]
    BY <1>1, <2>2
  <2> QED
    BY <1>3, <2>3 DEF Last, j
<1> QED
  BY <1>2, <1>3

\* A path below a, cut off behind a and its slash, and behind a.
LEMMA TailFacts ==
    ASSUME NEW a \in Text, NEW p \in FusePaths, Below(p, a)
    PROVE  \E r \in Text :
               /\ r # <<>> /\ p = Joined2(a, r)
               /\ IsTail(SubSeq(p, Len(a) + 2, Len(p)), r)
               /\ IsTail(SubSeq(p, Len(a) + 1, Len(p)), r)
<1> DEFINE r == SubSeq(p, Len(a) + 2, Len(p))
<1>1. /\ p \in Text /\ p \in Seq(Chars) /\ Len(p) \in Nat /\ Len(a) \in Nat
      /\ Clean(Body(p)) /\ (Len(p) # 1 => Body(p) = p)
  BY PathFacts DEF Text
<1>2. Len(a) + 1 < Len(p) /\ p[Len(a) + 1] = "/" /\ \A i \in 1 .. Len(a) : p[i] = a[i]
  BY <1>1, BelowByCharacters
<1>3. p = Joined2(a, r)
  <2>1. Len(a) + 1 =< Len(p)
    BY <1>1, <1>2
  <2> QED
    BY <1>1, <1>2, <2>1, BelowByCharacters
<1>4. /\ Len(a) + 1 \in 1 .. Len(p) /\ Len(p) \in Len(a) + 1 .. Len(p)
      /\ Len(a) + 2 \in 1 .. Len(p) /\ Len(p) \in Len(a) + 2 .. Len(p)
      /\ Len(a) + 1 + 1 = Len(a) + 2
  BY <1>1, <1>2
<1>5. r \in Seq(Chars) /\ Len(r) = Len(p) - (Len(a) + 2) + 1 /\ r[1] = p[Len(a) + 2]
  <2>1. /\ Len(a) + 2 \in Int /\ Len(p) \in Int /\ Len(a) + 2 <= Len(p)
        /\ \A i \in Len(a) + 2 .. Len(p) : p[i] \in Chars
    BY <1>1, <1>4
  <2>2. /\ SubSeq(p, Len(a) + 2, Len(p)) \in Seq(Chars)
        /\ Len(SubSeq(p, Len(a) + 2, Len(p))) = Len(p) - (Len(a) + 2) + 1
        /\ \A i \in 1 .. Len(p) - (Len(a) + 2) + 1 :
               SubSeq(p, Len(a) + 2, Len(p))[i] = p[(Len(a) + 2) + i - 1]
    BY <2>1, SubSeqProperties
  <2>3. 1 \in 1 .. Len(p) - (Len(a) + 2) + 1 /\ (Len(a) + 2) + 1 - 1 = Len(a) + 2
    BY <1>1, <1>4
  <2> QED
    BY <2>2, <2>3
<1>6. r # <<>>
  <2>1. Len(r) > 0
    BY <1>1, <1>2, <1>5
  <2> QED
    BY <2>1, SomeLength, Zenon
<1>7. r[1] # "/"
  <2>1. Body(p) = p
    <3>1. ASSUME NEW m \in Nat, NEW n \in Nat, m + 1 < n
          PROVE  n # 1
      BY <3>1
    <3>2. Len(p) # 1
      BY <1>1, <1>2, <3>1, Zenon
    <3> QED
      BY <1>1, <3>2, Zenon
  <2>2. p[Len(a) + 2] # "/"
    <3>1. Len(a) + 2 \in 2 .. Len(p) /\ Len(a) + 2 - 1 = Len(a) + 1
      BY <1>1, <1>4
    <3>2. \A i \in 2 .. Len(p) : p[i] = "/" => p[i - 1] # "/"
      BY <1>1, <2>1 DEF Clean
    <3> QED
      BY <1>2, <3>1, <3>2
  <2> QED
    BY <1>5, <2>2
<1>8. IsTail(SubSeq(p, Len(a) + 2, Len(p)), r)
  BY <1>7 DEF IsTail
<1>9. IsTail(SubSeq(p, Len(a) + 1, Len(p)), r)
  <2> DEFINE t == SubSeq(p, Len(a) + 1, Len(p))
  <2>1. Head(t) = p[Len(a) + 1] /\ Tail(t) = r
    BY <1>1, <1>4, HeadTailOfSubSeq
  <2>2. t = <<"/">> \o r
    BY <1>1, <1>2, <1>4, SubSeqRecursiveFirst
  <2>3. t \in Seq(Chars) /\ Len(t) = 1 + Len(r) /\ t[1] = "/"
    <3>1. /\ <<"/">> \in Seq(Chars) /\ Len(<<"/">>) = 1 /\ <<"/">>[1] = "/"
      BY Slash DEF Text
    <3>2. Len(r) \in Nat
      BY <1>5
    <3> HIDE DEF r, t
    <3>3. /\ <<"/">> \o r \in Seq(Chars) /\ Len(<<"/">> \o r) = Len(<<"/">>) + Len(r)
          /\ \A i \in 1 .. Len(<<"/">>) + Len(r) :
                 (<<"/">> \o r)[i] = IF i <= Len(<<"/">>) THEN <<"/">>[i] ELSE r[i - Len(<<"/">>)]
      BY <1>5, <3>1, ConcatProperties
    <3>4. (<<"/">> \o r)[1] = <<"/">>[1]
      BY <3>1, <3>2, <3>3
    <3> QED
      BY <2>2, <3>1, <3>3, <3>4
  <2>4. t # <<>>
    <3>1. Len(t) > 0
      BY <1>5, <2>3
    <3> QED
      BY <3>1, SomeLength, Zenon
  <2> QED
    BY <2>1, <2>2, <2>3, <2>4 DEF IsTail
<1> QED
  BY <1>3, <1>5, <1>6, <1>8, <1>9 DEF Text

IsMoved(p, s, o, x) ==
    \E rest \in Seq(Seq(Chars)) :
        /\ Components(p) = Components(s) \o rest
        /\ Components(x) = Components(o) \o rest
        /\ \/ Last(x) = "/" <=> Last(p) = "/"
           \/ rest = <<>> /\ Components(s) # <<>>

\* The code puts the names of the outside path in the place of those of the target, and keeps the
\* end of the path; only the path of the target itself gets a slash (translatePath, local.cc:81-94).
LEMMA Translated ==
    ASSUME NEW s, IsTarget(s), NEW o \in Text, Absolute(o), NEW p \in FusePaths,
           isPathPrefixOf(removeTrailingSlashes(s), p),
           NEW x, x = pathConcat(removeTrailingSlashes(o),
                                 SubSeq(p, Len(removeTrailingSlashes(s)) + 1, Len(p)))
    PROVE  IsMoved(p, s, o, x)
<1> USE DEF IsMoved
<1>1. /\ p \in Text /\ Len(p) \in Nat /\ Len(p) > 0 /\ p[1] = "/"
      /\ Components(Body(p)) = Components(p)
      /\ Len(p) = 1 => Body(p) = <<>> /\ Last(p) = "/"
  BY PathFacts
<1>2. /\ Body(s) \in Text /\ Len(Body(s)) \in Nat
      /\ Body(s) = <<>> => Last(s) = "/"
      /\ Components(Body(s)) = Components(s)
      /\ Components(s) = <<>> <=> Body(s) = <<>>
      /\ Len(removeTrailingSlashes(s)) = Len(Body(s)) + IF Last(s) = "/" THEN 1 ELSE 0
  BY TargetFacts, Lengths DEF Clean
<1>3. Body(o) \in Text /\ Components(Body(o)) = Components(o)
  BY BodyFacts, ComponentsOfBody
<1>4. Components(s) \in Seq(Seq(Chars)) /\ Components(o) \in Seq(Seq(Chars)) /\ <<>> \in Seq(Seq(Chars))
  BY ComponentsFacts, EmptySeq DEF IsTarget
<1>5. \/ Last(s) = "/" /\ Body(s) = <<>>
      \/ Below(p, Body(s))
      \/ Last(s) # "/" /\ p = Body(s)
  BY Fits
<1>6. CASE Below(p, Body(s))
  <2>1. PICK r \in Text :
            /\ r # <<>> /\ p = Joined2(Body(s), r)
            /\ IsTail(SubSeq(p, Len(Body(s)) + 2, Len(p)), r)
            /\ IsTail(SubSeq(p, Len(Body(s)) + 1, Len(p)), r)
    BY <1>2, <1>6, TailFacts
  <2>2. IsTail(SubSeq(p, Len(removeTrailingSlashes(s)) + 1, Len(p)), r)
    <3>1. \/ Len(removeTrailingSlashes(s)) + 1 = Len(Body(s)) + 2
          \/ Len(removeTrailingSlashes(s)) + 1 = Len(Body(s)) + 1
      BY <1>2
    <3> QED
      BY <2>1, <3>1
  <2>3. x = Joined2(Body(o), r)
    BY <2>2, ConcatJoins
  <2>4. Components(x) = Components(o) \o Components(r) /\ Components(p) = Components(s) \o Components(r)
    BY <1>2, <1>3, <2>1, <2>3, ComponentsOfJoined
  <2>5. Last(x) = Last(r) /\ Last(p) = Last(r)
    BY <1>2, <1>3, <2>1, <2>3, LastOfJoined
  <2>6. Components(r) \in Seq(Seq(Chars))
    BY ComponentsFacts
  <2> QED
    BY <2>4, <2>5, <2>6
<1>7. CASE ~Below(p, Body(s))
  <2>1. /\ SubSeq(p, Len(removeTrailingSlashes(s)) + 1, Len(p)) = <<>>
        /\ Components(p) = Components(s)
        /\ Last(p) = "/" \/ Components(s) # <<>>
    <3>1. CASE Last(s) # "/" /\ p = Body(s)
      <4>1. Len(removeTrailingSlashes(s)) = Len(p)
        BY <1>2, <3>1
      <4>2. SubSeq(p, Len(p) + 1, Len(p)) = <<>>
        BY <1>1, SubSeqEmpty
      <4> QED
        BY <1>2, <3>1, <4>1, <4>2
    <3>2. CASE Last(s) = "/" /\ Body(s) = <<>>
      <4>1. <<>> \in Text /\ Components(<<>>) = <<>> /\ Len(<<>>) = 0
        BY NoNames
      <4>2. Len(removeTrailingSlashes(s)) = 1
        BY <1>2, <3>2, <4>1
      <4>3. Len(p) = 1
        <5>1. ~(0 + 1 < Len(p))
          <6>1. ~Below(p, <<>>)
            BY <1>7, <3>2
          <6>2. Below(p, <<>>) <=> /\ Len(<<>>) + 1 < Len(p)
                                   /\ \A i \in 1 .. Len(<<>>) : p[i] = <<>>[i]
                                   /\ p[Len(<<>>) + 1] = "/"
            BY <1>1, <4>1, BelowByCharacters, Zenon
          <6> QED
            BY <1>1, <4>1, <6>1, <6>2
        <5> QED
          BY <1>1, <5>1
      <4>4. SubSeq(p, 1 + 1, 1) = <<>>
        BY SubSeqEmpty
      <4>5. Components(p) = <<>> /\ Last(p) = "/" /\ Components(s) = <<>>
        BY <1>1, <1>2, <3>2, <4>1, <4>3
      <4> QED
        BY <4>2, <4>3, <4>4, <4>5
    <3> QED
      BY <1>5, <1>7, <3>1, <3>2
  <2>2. IsTail(<<>>, <<>>)
    BY DEF IsTail
  <2>3. x = Joined2(Body(o), <<>>)
    BY <2>1, <2>2, NoNames, ConcatJoins
  <2>4. Components(x) = Components(o) \o <<>>
    BY <1>3, <2>3, NoNames, ComponentsOfJoined
  <2>5. Last(x) = "/"
    BY <1>3, <2>3, NoNames, LastOfJoined
  <2>6. Components(p) = Components(s) \o <<>>
    BY <1>4, <2>1, ConcatEmptySeq
  <2> QED
    BY <1>4, <2>1, <2>4, <2>5, <2>6
<1> QED
  BY <1>6, <1>7

\* A part of a sequence, by its elements.
IsCut(S, c, m, n) ==
    /\ SubSeq(c, m, n) \in Seq(S) /\ Len(SubSeq(c, m, n)) = n - (m - 1)
    /\ \A i \in 1 .. n - m + 1 : SubSeq(c, m, n)[i] = c[m + i - 1]

\* A part of a sequence has its elements, counted from where it begins.
LEMMA CutFacts ==
    ASSUME NEW S, NEW c, NEW m \in Int, NEW n \in Int, \A i \in m .. n : c[i] \in S, m - 1 =< n
    PROVE  IsCut(S, c, m, n)
<1>1. /\ SubSeq(c, m, n) \in Seq(S)
      /\ Len(SubSeq(c, m, n)) = IF m <= n THEN n - m + 1 ELSE 0
      /\ \A i \in 1 .. n - m + 1 : SubSeq(c, m, n)[i] = c[m + i - 1]
  BY SubSeqProperties
<1>2. ASSUME NEW l, l = IF m <= n THEN n - m + 1 ELSE 0
      PROVE  l = n - (m - 1)
  BY <1>2
<1> QED
  BY <1>1, <1>2, Zenon DEF IsCut

\* What is behind the first of two sequences.
LEMMA CutOff ==
    ASSUME NEW S, NEW a \in Seq(S), NEW b \in Seq(S), NEW c, c = a \o b
    PROVE  SubSeq(c, Len(a) + 1, Len(c)) = b
<1>1. /\ c \in Seq(S) /\ Len(c) = Len(a) + Len(b) /\ Len(a) \in Nat /\ Len(b) \in Nat
      /\ \A i \in 1 .. Len(a) + Len(b) : c[i] = IF i <= Len(a) THEN a[i] ELSE b[i - Len(a)]
  BY ConcatProperties
<1>3. /\ SubSeq(c, Len(a) + 1, Len(c)) \in Seq(S) /\ Len(SubSeq(c, Len(a) + 1, Len(c))) = Len(b)
      /\ \A i \in 1 .. Len(b) : SubSeq(c, Len(a) + 1, Len(c))[i] = c[Len(a) + i]
  <2>1. /\ Len(a) + 1 \in Int /\ Len(c) \in Int /\ (Len(a) + 1) - 1 =< Len(c)
        /\ \A i \in Len(a) + 1 .. Len(c) : c[i] \in S
    BY <1>1
  <2>2. /\ SubSeq(c, Len(a) + 1, Len(c)) \in Seq(S)
        /\ Len(SubSeq(c, Len(a) + 1, Len(c))) = Len(c) - ((Len(a) + 1) - 1)
        /\ \A i \in 1 .. Len(c) - (Len(a) + 1) + 1 :
               SubSeq(c, Len(a) + 1, Len(c))[i] = c[(Len(a) + 1) + i - 1]
    <3>1. IsCut(S, c, Len(a) + 1, Len(c))
      BY <2>1, CutFacts, Zenon
    <3> QED
      BY <3>1, Zenon DEF IsCut
  <2>3. Len(c) - ((Len(a) + 1) - 1) = Len(b) /\ Len(c) - (Len(a) + 1) + 1 = Len(b)
    BY <1>1
  <2>4. \A i \in 1 .. Len(b) : (Len(a) + 1) + i - 1 = Len(a) + i
    BY <1>1
  <2>5. Len(SubSeq(c, Len(a) + 1, Len(c))) = Len(b)
    BY <2>2, <2>3, Zenon
  <2> QED
    BY <2>2, <2>3, <2>4, <2>5, Zenon
<1>4. ASSUME NEW i \in 1 .. Len(b)
      PROVE  SubSeq(c, Len(a) + 1, Len(c))[i] = b[i]
  <2>1. Len(a) + i \in 1 .. Len(a) + Len(b) /\ ~(Len(a) + i <= Len(a)) /\ (Len(a) + i) - Len(a) = i
    BY <1>1
  <2>2. c[Len(a) + i] = b[i]
    BY <1>1, <2>1
  <2> QED
    BY <1>3, <2>2, Zenon
<1> QED
  BY <1>3, <1>4, SeqEqual, Zenon

\* A slash behind what is no file changes nothing.
LEMMA SlashBehind ==
    ASSUME NEW names, NEW d \in BOOLEAN, NEW e \in BOOLEAN, d = e \/ names \notin Files
    PROVE  resolve(names, d) = resolve(names, e)
<1>1. {o \in Files : IsStrictPrefix(o, names) \/ (o = names /\ d)}
        = {o \in Files : IsStrictPrefix(o, names) \/ (o = names /\ e)}
  OBVIOUS
<1> QED
  BY <1>1 DEF resolve

\* A request for a path reaches the object of the host that the options place there, and never
\* its neighbour, whatever the options and the host (translatePath, local.cc:65-94).
THEOREM ObjectIsRight == Spec => []RightObject
<1>1. Ordering => RightObject
  <2> SUFFICES ASSUME Running, NEW p \in FusePaths, ~Special(p)
               PROVE  lookup(translatePath(p)) = OrderedObject(p)
    BY DEF RightObject, Running
  <2>1. PICK w \in 1 .. Len(given) + 1 :
            /\ findPathProp(p) = {Entries[w]}
            /\ isPathPrefixOf(Kept(w), p)
            /\ IF w = Len(given) + 1 THEN ~Ordered(p)
               ELSE Components(given[w].inside) # <<>> /\ Chosen(p) = {w}
    BY TheRule, Zenon
  <2> DEFINE s == InsideOf(w)
             o == OutsideOf(w)
             x == translatePath(p)
  <2>2. /\ DOMAIN given = 1 .. Len(given) /\ Len(given) \in Nat
        /\ IsTarget(s) /\ o \in Text /\ Absolute(o)
        /\ Entries[w].inside = removeTrailingSlashes(s) /\ Entries[w].outside = removeTrailingSlashes(o)
        /\ Kept(w) = removeTrailingSlashes(s)
    BY NotSpecial, PlaceFacts DEF Kept
  <2>3. x = pathConcat(removeTrailingSlashes(o), SubSeq(p, Len(removeTrailingSlashes(s)) + 1, Len(p)))
    <3>1. (CHOOSE pp \in {Entries[w]} : TRUE) = Entries[w] /\ {Entries[w]} # {}
      OBVIOUS
    <3>2. x = pathConcat(Entries[w].outside, SubSeq(p, Len(Entries[w].inside) + 1, Len(p)))
      BY <2>1, <3>1, Zenon DEF translatePath
    <3> QED
      BY <2>2, <3>2, Zenon
  <2>4. PICK rest \in Seq(Seq(Chars)) :
            /\ Components(p) = Components(s) \o rest
            /\ Components(x) = Components(o) \o rest
            /\ \/ Last(x) = "/" <=> Last(p) = "/"
               \/ rest = <<>> /\ Components(s) # <<>>
    <3>1. isPathPrefixOf(removeTrailingSlashes(s), p)
      BY <2>1, <2>2, Zenon
    <3>2. IsMoved(p, s, o, x)
      BY <2>2, <2>3, <3>1, Translated, Zenon
    <3> QED
      BY <3>2, Zenon DEF IsMoved
  <2>5. Components(s) \in Seq(Seq(Chars)) /\ Components(o) \in Seq(Seq(Chars))
    BY <2>2, ComponentsFacts DEF IsTarget
  <2>6. CASE w = Len(given) + 1
    <3>1. s = <<"/">> /\ o = chrootDir
      BY <2>6 DEF InsideOf, OutsideOf
    <3>2. Components(s) = <<>>
      BY <3>1, RootTarget
    <3>3. Components(p) = rest
      BY <2>4, <3>2, ConcatEmptySeq
    <3>4. OrderedObject(p) = resolve(Components(o) \o rest, Last(p) = "/")
      BY <2>1, <2>6, <3>1, <3>3 DEF OrderedObject
    <3>5. (Last(x) = "/") = (Last(p) = "/")
      BY <2>4, <3>2
    <3> QED
      BY <2>4, <3>4, <3>5 DEF lookup
  <2>7. CASE w # Len(given) + 1
    <3>1. w \in 1 .. Len(given) /\ s = given[w].inside /\ o = given[w].outside
      BY <2>2, <2>7 DEF InsideOf, OutsideOf
    <3>2. Ordered(p) /\ TheChosen(p) = given[w]
      <4>1. Chosen(p) = {w} /\ Components(given[w].inside) # <<>>
        BY <2>1, <2>7
      <4>2. (CHOOSE i \in {w} : TRUE) = w
        OBVIOUS
      <4> QED
        BY <4>1, <4>2 DEF Ordered, TheChosen
    <3>3. SubSeq(Components(p), Len(Components(s)) + 1, Len(Components(p))) = rest
      BY <2>4, <2>5, CutOff
    <3>4. OrderedObject(p) = resolve(Components(o) \o rest, Last(p) = "/")
      BY <3>1, <3>2, <3>3, Zenon DEF OrderedObject
    <3>5. (Last(x) = "/") = (Last(p) = "/") \/ Components(o) \o rest \notin Files
      <4>1. CASE rest = <<>>
        <5>1. Components(o) \o rest = Components(o) /\ Components(p) = Components(s)
          BY <2>4, <2>5, <4>1, ConcatEmptySeq
        <5>2. Components(given[w].outside) \notin Files
          BY <3>1, <5>1, NotSpecial
        <5> QED
          BY <3>1, <5>1, <5>2
      <4>2. CASE rest # <<>>
        BY <2>4, <4>2
      <4> QED
        BY <4>1, <4>2
    <3>6. resolve(Components(o) \o rest, Last(x) = "/") = resolve(Components(o) \o rest, Last(p) = "/")
      BY <3>5, SlashBehind
    <3> QED
      BY <2>4, <3>4, <3>6 DEF lookup
  <2> QED
    BY <2>6, <2>7
<1> QED
  BY <1>1, AlwaysOrdering, PTL
=============================================================================
