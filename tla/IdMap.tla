------------------------------- MODULE IdMap -------------------------------
(***************************************************************************)
(* User and group id translation (src/src/erlent/child.cc, ChildParams).   *)
(*                                                                         *)
(* A mapping list is a sequence of records [innerID, outerID, count]: the  *)
(* inner ids innerID .. innerID+count-1 of the container are the outer ids *)
(* outerID .. outerID+count-1 of the host.  The program computes with      *)
(* unsigned long and stores the result in a uid_t or gid_t, so both widths *)
(* are parameters: LongMod = 2^64 and IdMod = 2^32 in the program.         *)
(***************************************************************************)
EXTENDS Integers, Sequences, FiniteSets

CONSTANTS
    IdMod,      \* number of values of uid_t and gid_t
    LongMod,    \* number of values of unsigned long
    Nobody      \* 65534, the id of everything that is not mapped

ASSUME IdMapAssumption ==
    /\ IdMod \in Nat \ {0}
    /\ LongMod \in Nat
    /\ IdMod =< LongMod
    /\ Nobody \in 0 .. IdMod - 1

Id == 0 .. IdMod - 1
Long == 0 .. LongMod - 1

\* (uid_t)-1 and (gid_t)-1, which chown(2) reads as "no change".
NoId == IdMod - 1

Mapping == [innerID : Long, outerID : Long, count : Long]

\* The entries whose inner (outer) range holds an id; the upper end of the
\* range wraps around like the unsigned addition that computes it.
InnerHits(inner, mapping) ==
    {i \in DOMAIN mapping :
        /\ mapping[i].innerID =< inner
        /\ inner < (mapping[i].innerID + mapping[i].count) % LongMod}

OuterHits(outer, mapping) ==
    {i \in DOMAIN mapping :
        /\ mapping[i].outerID =< outer
        /\ outer < (mapping[i].outerID + mapping[i].count) % LongMod}

First(hits) == CHOOSE i \in hits : \A j \in hits : i =< j

lookupID(inner, mapping) ==
    LET hits == InnerHits(inner, mapping)
        m == mapping[First(hits)]
    IN  IF hits = {} THEN Nobody
        ELSE (inner - m.innerID + m.outerID) % LongMod

\* Mutant: the two ends of the mapping are swapped.
inverseLookupIDSwapped(outer, mapping) ==
    LET hits == OuterHits(outer, mapping)
        m == mapping[First(hits)]
    IN  IF hits = {} THEN Nobody
        ELSE (outer - m.innerID + m.outerID) % LongMod

inverseLookupID(outer, mapping) ==
    LET hits == OuterHits(outer, mapping)
        m == mapping[First(hits)]
    IN  IF hits = {} THEN Nobody
        ELSE (outer - m.outerID + m.innerID) % LongMod

\* lookupUID, lookupGID and their inverses cut the result to a uid_t or gid_t;
\* the request processor leaves the "no change" id of chown alone.
toOuter(id, mapping) == IF id = NoId THEN id ELSE lookupID(id, mapping) % IdMod
toInner(id, mapping) == IF id = NoId THEN id ELSE inverseLookupID(id, mapping) % IdMod

\* Mutant: only the first entry is looked at.
existsMappingFirst(inner, mapping) == 1 \in InnerHits(inner, mapping)

existsMapping(inner, mapping) == InnerHits(inner, mapping) # {}

-----------------------------------------------------------------------------
(* What the kernel (and newuidmap) accept as a uid_map, from how the code   *)
(* hands the list over: every extent is non-empty and ends below the        *)
(* reserved id, and no two extents share an inner or an outer id.           *)

Fits(m) ==
    /\ m.count > 0
    /\ m.innerID + m.count < IdMod
    /\ m.outerID + m.count < IdMod

Disjoint(a, b, n, m) == a + n =< b \/ b + m =< a

KernelAccepts(mapping) ==
    /\ \A i \in DOMAIN mapping : Fits(mapping[i])
    /\ \A i, j \in DOMAIN mapping : i # j =>
        /\ Disjoint(mapping[i].innerID, mapping[j].innerID, mapping[i].count, mapping[j].count)
        /\ Disjoint(mapping[i].outerID, mapping[j].outerID, mapping[i].count, mapping[j].count)

\* The ids a mapping covers, on each side.
InnerIds(mapping) ==
    {id \in Id : \E i \in DOMAIN mapping :
        mapping[i].innerID =< id /\ id < mapping[i].innerID + mapping[i].count}
OuterIds(mapping) ==
    {id \in Id : \E i \in DOMAIN mapping :
        mapping[i].outerID =< id /\ id < mapping[i].outerID + mapping[i].count}

(* The kernel's own translation with an accepted map: requests reach the   *)
(* processor with host ids, replies are shown to the container in its own. *)

kernelOut(id, mapping) ==
    IF id = NoId THEN NoId
    ELSE CHOOSE o \in Id : \E i \in DOMAIN mapping :
            /\ mapping[i].innerID =< id
            /\ id < mapping[i].innerID + mapping[i].count
            /\ o = id - mapping[i].innerID + mapping[i].outerID

kernelIn(id, mapping) ==
    IF id \notin OuterIds(mapping) THEN Nobody
    ELSE CHOOSE n \in Id : \E i \in DOMAIN mapping :
            /\ mapping[i].outerID =< id
            /\ id < mapping[i].outerID + mapping[i].count
            /\ n = id - mapping[i].outerID + mapping[i].innerID
=============================================================================
