---------------------------- MODULE IdMapProofs ----------------------------
(***************************************************************************)
(* Ids survive the way from a process of the container to a sidecar and    *)
(* back, for every mapping list that the kernel accepts.                   *)
(***************************************************************************)
EXTENDS IdMap, TLAPS

\* A remainder that changes nothing: no sum of the translation wraps.
LEMMA SmallMod ==
    ASSUME NEW x \in Nat, NEW M \in Nat, x < M
    PROVE  x % M = x
  BY SMT

\* Extent i of the mapping list holds the inner id.
Covers(m, i, id) == m[i].innerID =< id /\ id < m[i].innerID + m[i].count

\* An extent of an accepted list in plain numbers.
LEMMA ExtentBounds ==
    ASSUME NEW m \in Seq(Mapping), KernelAccepts(m), NEW i \in DOMAIN m
    PROVE  /\ m[i].innerID \in Nat /\ m[i].outerID \in Nat /\ m[i].count \in Nat
           /\ m[i].innerID + m[i].count < IdMod
           /\ m[i].outerID + m[i].count < IdMod
           /\ (m[i].innerID + m[i].count) % LongMod = m[i].innerID + m[i].count
           /\ (m[i].outerID + m[i].count) % LongMod = m[i].outerID + m[i].count
           /\ IdMod \in Nat /\ LongMod \in Nat /\ IdMod =< LongMod
<1>1. m[i] \in Mapping
  OBVIOUS
<1>2. m[i].innerID \in Nat /\ m[i].outerID \in Nat /\ m[i].count \in Nat
  BY <1>1 DEF Mapping, Long
<1>3. Fits(m[i])
  BY DEF KernelAccepts
<1>4. IdMod \in Nat /\ LongMod \in Nat /\ IdMod =< LongMod
  BY IdMapAssumption
<1>5. m[i].innerID + m[i].count < LongMod /\ m[i].outerID + m[i].count < LongMod
  BY <1>2, <1>3, <1>4 DEF Fits
<1>6. /\ m[i].innerID + m[i].count \in Nat
      /\ m[i].outerID + m[i].count \in Nat
  BY <1>2
<1>7. (m[i].innerID + m[i].count) % LongMod = m[i].innerID + m[i].count
  BY <1>4, <1>5, <1>6, SmallMod
<1>8. (m[i].outerID + m[i].count) % LongMod = m[i].outerID + m[i].count
  BY <1>4, <1>5, <1>6, SmallMod
<1> QED
  BY <1>2, <1>3, <1>4, <1>7, <1>8 DEF Fits

\* The one extent that holds an inner id is the one the lookups find, on both
\* sides, and no other extent gives the kernel a second choice.
LEMMA OneExtent ==
    ASSUME NEW m \in Seq(Mapping), KernelAccepts(m),
           NEW i \in DOMAIN m, NEW id \in Nat, Covers(m, i, id),
           NEW o, o = id - m[i].innerID + m[i].outerID
    PROVE  /\ InnerHits(id, m) = {i}
           /\ OuterHits(o, m) = {i}
           /\ o \in Nat /\ o < IdMod - 1
           /\ id < IdMod - 1
           /\ \A j \in DOMAIN m :
                /\ m[j].innerID =< id /\ id < m[j].innerID + m[j].count => j = i
                /\ m[j].outerID =< o /\ o < m[j].outerID + m[j].count => j = i
<1>1. \A j \in DOMAIN m :
           /\ m[j].innerID \in Nat /\ m[j].outerID \in Nat /\ m[j].count \in Nat
           /\ m[j].innerID + m[j].count < IdMod
           /\ m[j].outerID + m[j].count < IdMod
           /\ (m[j].innerID + m[j].count) % LongMod = m[j].innerID + m[j].count
           /\ (m[j].outerID + m[j].count) % LongMod = m[j].outerID + m[j].count
           /\ IdMod \in Nat
  BY ExtentBounds
<1>2. /\ o \in Nat
      /\ m[i].outerID =< o /\ o < m[i].outerID + m[i].count
      /\ o < IdMod - 1 /\ id < IdMod - 1
  BY <1>1 DEF Covers
<1>3. ASSUME NEW j \in DOMAIN m, m[j].innerID =< id, id < m[j].innerID + m[j].count
      PROVE  j = i
  <2> SUFFICES ASSUME j # i
               PROVE  FALSE
    OBVIOUS
  <2>1. Disjoint(m[i].innerID, m[j].innerID, m[i].count, m[j].count)
    BY DEF KernelAccepts
  <2> QED
    BY <1>1, <1>3, <2>1 DEF Disjoint, Covers
<1>4. ASSUME NEW j \in DOMAIN m, m[j].outerID =< o, o < m[j].outerID + m[j].count
      PROVE  j = i
  <2> SUFFICES ASSUME j # i
               PROVE  FALSE
    OBVIOUS
  <2>1. Disjoint(m[i].outerID, m[j].outerID, m[i].count, m[j].count)
    BY DEF KernelAccepts
  <2> QED
    BY <1>1, <1>2, <1>4, <2>1 DEF Disjoint
<1>5. InnerHits(id, m) = {i}
  BY <1>1, <1>3 DEF InnerHits, Covers
<1>6. OuterHits(o, m) = {i}
  BY <1>1, <1>2, <1>4 DEF OuterHits
<1> QED
  BY <1>2, <1>3, <1>4, <1>5, <1>6

\* What the four translations make of an id that an extent holds.
LEMMA Translations ==
    ASSUME NEW m \in Seq(Mapping), KernelAccepts(m),
           NEW i \in DOMAIN m, NEW id \in Nat, Covers(m, i, id),
           NEW o, o = id - m[i].innerID + m[i].outerID
    PROVE  /\ toOuter(id, m) = o
           /\ toInner(o, m) = id
           /\ kernelOut(id, m) = o
           /\ kernelIn(o, m) = id
<1>1. /\ m[i].innerID \in Nat /\ m[i].outerID \in Nat /\ m[i].count \in Nat
      /\ IdMod \in Nat /\ LongMod \in Nat /\ IdMod =< LongMod
  BY ExtentBounds
<1>2. /\ InnerHits(id, m) = {i}
      /\ OuterHits(o, m) = {i}
      /\ o \in Nat /\ o < IdMod - 1 /\ id < IdMod - 1
      /\ \A j \in DOMAIN m :
           /\ m[j].innerID =< id /\ id < m[j].innerID + m[j].count => j = i
           /\ m[j].outerID =< o /\ o < m[j].outerID + m[j].count => j = i
  BY OneExtent
<1>3. First({i}) = i
  BY DEF First
<1>4. /\ id # NoId /\ o # NoId /\ id \in Id /\ o \in Id
  BY <1>1, <1>2 DEF NoId, Id
<1>5. /\ o % LongMod = o /\ o % IdMod = o
      /\ id % LongMod = id /\ id % IdMod = id
  <2>1. o < IdMod /\ o < LongMod /\ id < IdMod /\ id < LongMod
    BY <1>1, <1>2
  <2> QED
    BY <1>1, <1>2, <2>1, SmallMod
<1>6. toOuter(id, m) = o
  <2>1. lookupID(id, m) = (id - m[i].innerID + m[i].outerID) % LongMod
    BY <1>2, <1>3 DEF lookupID
  <2>2. lookupID(id, m) = o
    BY <2>1, <1>5
  <2> QED
    BY <2>2, <1>4, <1>5 DEF toOuter
<1>7. toInner(o, m) = id
  <2>1. inverseLookupID(o, m) = (o - m[i].outerID + m[i].innerID) % LongMod
    BY <1>2, <1>3 DEF inverseLookupID
  <2>2. o - m[i].outerID + m[i].innerID = id
    BY <1>1
  <2>3. inverseLookupID(o, m) = id
    BY <2>1, <2>2, <1>5
  <2> QED
    BY <2>3, <1>4, <1>5 DEF toInner
<1>8. kernelOut(id, m) = o
  <2> DEFINE P(x) == \E j \in DOMAIN m :
                        /\ m[j].innerID =< id
                        /\ id < m[j].innerID + m[j].count
                        /\ x = id - m[j].innerID + m[j].outerID
  <2>1. P(o)
    BY DEF Covers
  <2>2. \A x \in Id : P(x) => x = o
    BY <1>2
  <2>3. (CHOOSE x \in Id : P(x)) = o
    BY <2>1, <2>2, <1>4
  <2> QED
    BY <2>3, <1>4 DEF kernelOut
<1>9. kernelIn(o, m) = id
  <2> DEFINE P(x) == \E j \in DOMAIN m :
                        /\ m[j].outerID =< o
                        /\ o < m[j].outerID + m[j].count
                        /\ x = o - m[j].outerID + m[j].innerID
  <2>1. m[i].outerID =< o /\ o < m[i].outerID + m[i].count
    BY <1>1 DEF Covers
  <2>2. id = o - m[i].outerID + m[i].innerID
    BY <1>1
  <2>3. P(id)
    BY <2>1, <2>2
  <2>4. \A x \in Id : P(x) => x = id
    BY <1>2, <2>2
  <2>5. (CHOOSE x \in Id : P(x)) = id
    BY <2>3, <2>4, <1>4
  <2>6. o \in OuterIds(m)
    BY <2>1, <1>4 DEF OuterIds
  <2> QED
    BY <2>5, <2>6 DEF kernelIn
<1> QED
  BY <1>6, <1>7, <1>8, <1>9

\* With one and the same list in the kernel and in the program, an id of the
\* container is stored as itself and shown as itself (child.cc:658-674,
\* local.hh:210-214).
THEOREM IdsRoundTrip ==
    ASSUME NEW m \in Seq(Mapping), KernelAccepts(m), NEW id \in InnerIds(m)
    PROVE  /\ toInner(kernelOut(id, m), m) = id
           /\ kernelIn(toOuter(id, m), m) = id
           /\ id \in Id \ {NoId}
<1>1. PICK i \in DOMAIN m : Covers(m, i, id)
  BY DEF InnerIds, Covers
<1>2. id \in Nat
  BY IdMapAssumption DEF InnerIds, Id
<1>3. /\ toOuter(id, m) = id - m[i].innerID + m[i].outerID
      /\ toInner(id - m[i].innerID + m[i].outerID, m) = id
      /\ kernelOut(id, m) = id - m[i].innerID + m[i].outerID
      /\ kernelIn(id - m[i].innerID + m[i].outerID, m) = id
  BY <1>1, <1>2, Translations
<1>4. id < IdMod - 1
  BY <1>1, <1>2, OneExtent
<1> QED
  BY <1>3, <1>4, IdMapAssumption DEF InnerIds, NoId
=============================================================================
