---------------------------- MODULE CredsProofs -----------------------------
(***************************************************************************)
(* Ids survive in every container that uchroot starts, whatever options it *)
(* was given, as long as no -U or -G starts at an id wider than a uid_t;   *)
(* and the command runs with the ids that were asked for, for all options, *)
(* users and files of subordinate ids.                                     *)
(***************************************************************************)
EXTENDS Creds, IdMapProofs, WellFoundedInduction, SequenceTheorems

\* The search for a hit finds one when there is one (child.cc:658-674).
LEMMA FirstIsHit ==
    ASSUME NEW hits, hits \subseteq Nat, hits # {}
    PROVE  First(hits) \in hits
<1>1. PICK x \in hits : \A y \in hits : ~(<<y, x>> \in OpToRel(<, Nat))
  BY NatLessThanWellFounded, WFMin
<1>2. \A y \in hits : x =< y
  <2> TAKE y \in hits
  <2>1. ~(y < x)
    BY <1>1 DEF OpToRel
  <2> QED
    BY <2>1
<1> QED
  BY <1>2 DEF First

\* The inductive invariant: the lists have their types and narrow inner ids,
\* and the kernel of a running container has exactly these lists.
NarrowMap(list) == \A i \in DOMAIN list : list[i].innerID < IdMod
Installed ==
    /\ uidMappings \in Seq(Mapping) /\ NarrowMap(uidMappings)
    /\ gidMappings \in Seq(Mapping) /\ NarrowMap(gidMappings)
    /\ initialUID \in Id /\ initialGID \in Id
    /\ phase = "running" =>
        /\ kernelUid = uidMappings /\ KernelAccepts(uidMappings)
        /\ kernelGid = gidMappings /\ KernelAccepts(gidMappings)

LEMMA AppendNarrow ==
    ASSUME NEW list \in Seq(Mapping), NarrowMap(list), NEW m \in Mapping, m.innerID < IdMod
    PROVE  Append(list, m) \in Seq(Mapping) /\ NarrowMap(Append(list, m))
<1>1. Append(list, m) \in Seq(Mapping)
  OBVIOUS
<1>2. ASSUME NEW i \in DOMAIN Append(list, m)
      PROVE  Append(list, m)[i].innerID < IdMod
  <2>1. CASE i = Len(list) + 1
    BY <2>1
  <2>2. CASE i # Len(list) + 1
    <3>1. i \in DOMAIN list /\ Append(list, m)[i] = list[i]
      BY <2>2
    <3> QED
      BY <3>1 DEF NarrowMap
  <2> QED
    BY <2>1, <2>2
<1> QED
  BY <1>1, <1>2 DEF NarrowMap

LEMMA AutoNarrow ==
    ASSUME NEW file \in Seq([mine : BOOLEAN, outer : Long, count : Long]),
           autoMapLines(file) # {},
           NEW list \in Seq(Mapping), NarrowMap(list)
    PROVE  autoMap(file, list) \in Seq(Mapping) /\ NarrowMap(autoMap(file, list))
<1>1. First(autoMapLines(file)) \in DOMAIN file
  <2>1. autoMapLines(file) \subseteq Nat
    BY DEF autoMapLines
  <2>2. First(autoMapLines(file)) \in autoMapLines(file)
    BY <2>1, FirstIsHit
  <2> QED
    BY <2>2 DEF autoMapLines
<1>2. file[First(autoMapLines(file))].outer \in Long
  <2> DEFINE Line == [mine : BOOLEAN, outer : Long, count : Long]
  <2>1. file \in Seq(Line)
    OBVIOUS
  <2> HIDE DEF Line
  <2>2. file[First(autoMapLines(file))] \in Line
    BY <1>1, <2>1, ElementOfSeq
  <2> QED
    BY <2>2 DEF Line
<1>3. 0 \in Long /\ 0 < IdMod /\ nMappings \in Long
  BY IdMapAssumption, MapOptionsAssumption DEF Long
<1>4. [innerID |-> 0, outerID |-> file[First(autoMapLines(file))].outer, count |-> nMappings]
        \in Mapping
  BY <1>2, <1>3 DEF Mapping
<1> QED
  BY <1>3, <1>4, AppendNarrow DEF autoMap

\* The default of -U or -G is one id.
LEMMA DefaultNarrow ==
    ASSUME NEW inner \in Id, NEW outer \in Id
    PROVE  LET list == <<[innerID |-> inner, outerID |-> outer, count |-> 1]>>
           IN  list \in Seq(Mapping) /\ NarrowMap(list)
<1>1. inner \in Long /\ outer \in Long /\ inner < IdMod
  BY IdMapAssumption DEF Id, Long
<1>2. 1 \in Long
  BY IdMapAssumption, MapOptionsAssumption DEF Long, Id, NoId
<1> QED
  BY <1>1, <1>2 DEF Mapping, NarrowMap

\* What uidmap_single writes is the list itself.
LEMMA SingleIsList ==
    ASSUME NEW list \in Seq(Mapping), NarrowMap(list), NEW me, OnlyMe(list, me)
    PROVE  uidmap_single(list, me) = list
<1>1. list = <<list[1]>> /\ list[1] \in Mapping /\ 1 \in DOMAIN list
  <2>1. Len(list) = 1
    BY DEF OnlyMe
  <2>2. 1 \in DOMAIN list /\ list[1] \in Mapping
    BY <2>1
  <2>3. list = <<list[1]>>
    BY <2>1, <2>2
  <2> QED
    BY <2>2, <2>3
<1>2. list[1].innerID \in Nat /\ list[1].innerID < IdMod
  BY <1>1, IdMapAssumption DEF NarrowMap, Mapping, Long
<1>3. list[1].innerID % IdMod = list[1].innerID
  BY <1>2, IdMapAssumption, SmallMod
<1>4. list[1] = [innerID |-> list[1].innerID, outerID |-> me, count |-> 1]
  BY <1>1 DEF OnlyMe, Mapping
<1> QED
  BY <1>1, <1>3, <1>4 DEF uidmap_single

LEMMA InstalledInit == Init => Installed
<1> SUFFICES ASSUME Init PROVE Installed
  OBVIOUS
<1>1. 0 \in Id
  BY IdMapAssumption DEF Id
<1> QED
  BY <1>1 DEF Init, Installed, NarrowMap

LEMMA InstalledNext ==
    ASSUME NarrowOptions
    PROVE  Installed /\ [Next]_vars => Installed'
<1> SUFFICES ASSUME Installed, [Next]_vars PROVE Installed'
  OBVIOUS
<1> USE DEF Installed
<1>1. CASE OptU
  <2>1. PICK m \in OptMappings : uidMappings' = Append(uidMappings, m)
    BY <1>1 DEF OptU
  <2>2. m \in Mapping /\ m.innerID < IdMod
    BY MapOptionsAssumption DEF NarrowOptions
  <2>3. uidMappings' \in Seq(Mapping) /\ NarrowMap(uidMappings)'
    BY <2>1, <2>2, AppendNarrow DEF NarrowMap
  <2> QED
    BY <1>1, <2>3 DEF OptU, Option, NarrowMap
<1>2. CASE OptG
  <2>1. PICK m \in OptMappings : gidMappings' = Append(gidMappings, m)
    BY <1>2 DEF OptG
  <2>2. m \in Mapping /\ m.innerID < IdMod
    BY MapOptionsAssumption DEF NarrowOptions
  <2>3. gidMappings' \in Seq(Mapping) /\ NarrowMap(gidMappings)'
    BY <2>1, <2>2, AppendNarrow DEF NarrowMap
  <2> QED
    BY <1>2, <2>3 DEF OptG, Option, NarrowMap
<1>3. CASE Optu
  BY <1>3, MapOptionsAssumption DEF Optu, Option, maps, NarrowMap
<1>4. CASE Optg
  BY <1>4, MapOptionsAssumption DEF Optg, Option, maps, NarrowMap
<1>5. CASE OptA
  <2>1. CASE autoMapLines(SubUid) = {} \/ autoMapLines(SubGid) = {}
    BY <1>5, <2>1 DEF OptA, Option, maps, NarrowMap
  <2>2. CASE ~(autoMapLines(SubUid) = {} \/ autoMapLines(SubGid) = {})
    <3>1. /\ uidMappings' \in Seq(Mapping) /\ NarrowMap(uidMappings')
          /\ gidMappings' \in Seq(Mapping) /\ NarrowMap(gidMappings')
      BY <1>5, <2>2, AutoNarrow, MapOptionsAssumption DEF OptA
    <3> QED
      BY <1>5, <2>2, <3>1 DEF OptA, Option, NarrowMap
  <2> QED
    BY <2>1, <2>2
<1>6. CASE OptBad
  BY <1>6 DEF OptBad, Option, maps, NarrowMap
<1>7. CASE Defaults
  <2>1. euid \in Id /\ egid \in Id
    BY MapOptionsAssumption
  <2>2. /\ uidMappings' \in Seq(Mapping) /\ NarrowMap(uidMappings')
        /\ gidMappings' \in Seq(Mapping) /\ NarrowMap(gidMappings')
    BY <1>7, <2>1, DefaultNarrow DEF Defaults
  <2> QED
    BY <1>7, <2>2 DEF Defaults, NarrowMap
<1>8. CASE SetMaps
  <2>1. CASE phase' = "failed"
    BY <1>8, <2>1 DEF SetMaps, maps, NarrowMap
  <2>2. CASE phase' # "failed"
    <3>1. OnlyMe(uidMappings, euid) => uidmap_single(uidMappings, euid) = uidMappings
      BY SingleIsList
    <3>2. OnlyMe(gidMappings, egid) => uidmap_single(gidMappings, egid) = gidMappings
      BY SingleIsList
    <3>3. /\ kernelUid' = uidMappings /\ KernelAccepts(uidMappings)
          /\ kernelGid' = gidMappings /\ KernelAccepts(gidMappings)
      BY <1>8, <2>2, <3>1, <3>2 DEF SetMaps
    <3>4. UNCHANGED <<maps, initialUID, initialGID>>
      BY <1>8 DEF SetMaps
    <3> QED
      BY <3>3, <3>4 DEF maps, NarrowMap
  <2> QED
    BY <2>1, <2>2
<1>9. CASE UNCHANGED vars
  BY <1>9 DEF vars, NarrowMap
<1> QED
  BY <1>1, <1>2, <1>3, <1>4, <1>5, <1>6, <1>7, <1>8, <1>9 DEF Next

LEMMA InstalledKeepsIds == Installed => IdsSurvive
<1> SUFFICES ASSUME Installed, phase = "running"
             PROVE  /\ \A id \in InnerIds(kernelUid) : Survives(id, kernelUid, uidMappings)
                    /\ \A id \in InnerIds(kernelGid) : Survives(id, kernelGid, gidMappings)
  BY DEF IdsSurvive
<1>1. ASSUME NEW m \in Seq(Mapping), KernelAccepts(m), NEW id \in InnerIds(m)
      PROVE  Survives(id, m, m)
  <2>1. toInner(kernelOut(id, m), m) = id /\ kernelIn(toOuter(id, m), m) = id
    BY <1>1, IdsRoundTrip
  <2> QED
    BY <2>1 DEF Survives
<1> QED
  BY <1>1 DEF Installed

\* Whatever the options, an id of a running container comes back unchanged
\* from chown and getattr (main.cc:147-198, child.cc:528-543, 658-674).
THEOREM OptionsKeepIds ==
    ASSUME NarrowOptions
    PROVE  Spec => []IdsSurvive
<1>1. Init => Installed
  BY InstalledInit
<1>2. Installed /\ [Next]_vars => Installed'
  BY InstalledNext
<1>3. Installed => IdsSurvive
  BY InstalledKeepsIds
<1> QED
  BY <1>1, <1>2, <1>3, PTL DEF Spec
-----------------------------------------------------------------------------
(* Credentials *)

\* A call of the start of PID 1, of which each comes after the maps.
Stages == {"setreuid", "setregid", "setgroups", "run", "failed"}

-----------------------------------------------------------------------------
(* The maps *)

\* The list of the kernel is accepted or there is none yet, whatever the options were.
MapsInv ==
    /\ TypeOK
    /\ phase = "running" => KernelAccepts(kernelUid) /\ KernelAccepts(kernelGid)

LEMMA Constants ==
    /\ Id \subseteq Long
    /\ 0 \in Id /\ NoId \in Id /\ 1 \in Long /\ 0 \in Long
    /\ IdMod \in Nat /\ LongMod \in Nat /\ IdMod =< LongMod /\ IdMod > 1
    /\ euid \in Id /\ egid \in Id /\ nMappings \in Long
  BY IdMapAssumption, MapOptionsAssumption DEF Id, Long, NoId

\* What uidmap_single writes is a mapping list, also of an inner id that is cut.
LEMMA SingleIsMapping ==
    ASSUME NEW list \in Seq(Mapping), NEW me \in Id, OnlyMe(list, me)
    PROVE  uidmap_single(list, me) \in Seq(Mapping)
<1>1. 1 \in DOMAIN list
  BY DEF OnlyMe
<1>2. list[1] \in Mapping
  BY <1>1
<1>3. list[1].innerID % IdMod \in Long
  BY <1>2, Constants DEF Mapping, Long
<1> QED
  BY <1>3, Constants DEF uidmap_single, Mapping

LEMMA AutoIsMapping ==
    ASSUME NEW file \in Seq([mine : BOOLEAN, outer : Long, count : Long]),
           autoMapLines(file) # {}, NEW list \in Seq(Mapping)
    PROVE  autoMap(file, list) \in Seq(Mapping)
<1>1. autoMap(file, <<>>) \in Seq(Mapping)
  <2>1. <<>> \in Seq(Mapping) /\ NarrowMap(<<>>)
    BY DEF NarrowMap
  <2> QED
    BY <2>1, AutoNarrow
<1>2. autoMap(file, <<>>)[1] =
        [innerID |-> 0, outerID |-> file[First(autoMapLines(file))].outer, count |-> nMappings]
  BY DEF autoMap
<1>3. autoMap(file, <<>>)[1] \in Mapping
  BY <1>1 DEF autoMap
<1> QED
  BY <1>2, <1>3 DEF autoMap

LEMMA MapsInit == Init => MapsInv
  BY Constants, MapOptionsAssumption DEF Init, MapsInv, TypeOK

LEMMA MapsNext == MapsInv /\ [Next]_vars => MapsInv'
<1> SUFFICES ASSUME MapsInv, [Next]_vars PROVE MapsInv'
  OBVIOUS
<1> USE DEF MapsInv, TypeOK
<1>1. CASE OptU \/ OptG
  <2>1. \A m \in OptMappings, list \in Seq(Mapping) : Append(list, m) \in Seq(Mapping)
    BY MapOptionsAssumption
  <2>2. uidMappings' \in Seq(Mapping) /\ gidMappings' \in Seq(Mapping)
    BY <1>1, <2>1 DEF OptU, OptG
  <2> QED
    BY <1>1, <2>2, MapOptionsAssumption DEF OptU, OptG, Option
<1>2. CASE Optu \/ Optg
  BY <1>2, MapOptionsAssumption DEF Optu, Optg, Option, maps
<1>3. CASE OptA
  <2>1. uidMappings' \in Seq(Mapping) /\ gidMappings' \in Seq(Mapping)
    BY <1>3, AutoIsMapping, MapOptionsAssumption DEF OptA, maps
  <2> QED
    BY <1>3, <2>1, MapOptionsAssumption DEF OptA, Option
<1>4. CASE OptBad
  BY <1>4, MapOptionsAssumption DEF OptBad, Option, maps
<1>5. CASE Defaults
  <2>1. uidMappings' \in Seq(Mapping) /\ gidMappings' \in Seq(Mapping)
    BY <1>5, Constants, DefaultNarrow DEF Defaults
  <2> QED
    BY <1>5, <2>1 DEF Defaults
<1>6. CASE SetMaps
  <2>1. CASE phase' = "failed"
    BY <1>6, <2>1 DEF SetMaps, maps
  <2>2. CASE phase' # "failed"
    <3> DEFINE single == OnlyMe(uidMappings, euid) /\ OnlyMe(gidMappings, egid)
               u == IF single THEN uidmap_single(uidMappings, euid) ELSE uidMappings
               g == IF single THEN uidmap_single(gidMappings, egid) ELSE gidMappings
    <3>1. u \in Seq(Mapping) /\ g \in Seq(Mapping)
      BY SingleIsMapping, Constants
    <3>2. kernelUid' = u /\ kernelGid' = g /\ KernelAccepts(u) /\ KernelAccepts(g)
      BY <1>6, <2>2 DEF SetMaps
    <3>3. phase' = "running" /\ UNCHANGED <<maps, initialUID, initialGID, nOpts>>
      BY <1>6, <2>2 DEF SetMaps
    <3> HIDE DEF u, g
    <3> QED
      BY <3>1, <3>2, <3>3 DEF maps
  <2> QED
    BY <2>1, <2>2
<1>7. CASE UNCHANGED vars
  BY <1>7 DEF vars
<1> QED
  BY <1>1, <1>2, <1>3, <1>4, <1>5, <1>6, <1>7 DEF Next

\* Option by option and file by file, whatever they hold, what goes to the kernel and
\* what comes back are lists of mappings and ids that fit a uid_t (main.cc:147-198,
\* child.cc:528-543).
THEOREM OptionsTyped == CredsSpec => []TypeOK
<1>1. CredsInit => MapsInv
  BY MapsInit DEF CredsInit
<1>2. MapsInv /\ [CredsNext]_credVars => MapsInv'
  <2>1. [CredsNext]_credVars => [Next]_vars
    BY DEF CredsNext, Choose, SetUid, SetGid, SetGroups, credVars
  <2> QED
    BY <2>1, MapsNext
<1>3. MapsInv => TypeOK
  BY DEF MapsInv
<1> QED
  BY <1>1, <1>2, <1>3, PTL DEF CredsSpec

-----------------------------------------------------------------------------
(* setreuid and setregid *)

\* What one of the two calls has set is the host id of what was asked for.
IsSet(asked, id, kernel) ==
    asked # NoId => asked \in InnerIds(kernel) /\ id = kernelOut(asked, kernel)

CredsInv ==
    /\ MapsInv
    /\ step \in Stages
    /\ step # "setreuid" => phase = "running"
    /\ step = "setreuid" => uid = euid
    /\ step \in {"setreuid", "setregid"} => gid = egid
    /\ step \in {"setregid", "setgroups", "run"} => IsSet(initialUID, uid, kernelUid)
    /\ step \in {"setgroups", "run"} => IsSet(initialGID, gid, kernelGid)

LEMMA CredsInvInit == CredsInit => CredsInv
  BY MapsInit DEF CredsInit, CredsInv, Stages

\* The maps and the initial ids stay once the kernel has them.
LEMMA RunningStays == phase = "running" /\ [Next]_vars => UNCHANGED vars
  BY DEF Next, OptU, OptG, Optu, Optg, OptA, OptBad, Option, Defaults, SetMaps, vars

LEMMA CredsInvNext == CredsInv /\ [CredsNext]_credVars => CredsInv'
<1> SUFFICES ASSUME CredsInv, [CredsNext]_credVars PROVE CredsInv'
  OBVIOUS
<1>1. MapsInv'
  <2>1. [Next]_vars
    BY DEF CredsNext, Choose, SetUid, SetGid, SetGroups, credVars
  <2> QED
    BY <2>1, MapsNext DEF CredsInv
<1>2. CASE Choose
  <2>1. CASE step = "setreuid"
    BY <1>1, <1>2, <2>1 DEF CredsInv, Choose, Stages
  <2>2. CASE step # "setreuid"
    <3>1. UNCHANGED vars
      BY <1>2, <2>2, RunningStays DEF CredsInv, Choose
    <3> QED
      BY <1>1, <1>2, <2>2, <3>1 DEF CredsInv, Choose, vars, IsSet, Stages
  <2> QED
    BY <2>1, <2>2
<1>3. CASE SetUid
  BY <1>1, <1>3 DEF CredsInv, SetUid, Calls, setreuid, IsSet, IsMapped, vars, Stages
<1>4. CASE SetGid
  BY <1>1, <1>4 DEF CredsInv, SetGid, Calls, MaySetGid, IsSet, IsMapped, vars, Stages
<1>5. CASE SetGroups
  BY <1>1, <1>5 DEF CredsInv, SetGroups, Calls, IsSet, vars, Stages
<1>6. CASE UNCHANGED credVars
  BY <1>1, <1>6 DEF CredsInv, IsSet, credVars, creds, vars, Stages
<1> QED
  BY <1>2, <1>3, <1>4, <1>5, <1>6 DEF CredsNext

\* With which ids the command runs: those of -u and -g, under every map the kernel has
\* accepted (child.cc:239-248).
THEOREM CommandRunsAsAsked == CredsSpec => []RunsAsAsked
<1>1. CredsInv => RunsAsAsked
  <2> SUFFICES ASSUME CredsInv, step = "run"
               PROVE  /\ initialUID # NoId => kernelIn(uid, kernelUid) = initialUID
                      /\ initialGID # NoId => kernelIn(gid, kernelGid) = initialGID
    BY DEF RunsAsAsked
  <2>1. ASSUME NEW kernel \in Seq(Mapping), KernelAccepts(kernel),
               NEW asked, NEW id, IsSet(asked, id, kernel), asked # NoId
        PROVE  kernelIn(id, kernel) = asked
    <3>1. PICK i \in DOMAIN kernel : Covers(kernel, i, asked)
      BY <2>1 DEF IsSet, InnerIds, Covers
    <3>2. asked \in Nat
      BY <2>1, Constants DEF IsSet, InnerIds, Id
    <3> QED
      BY <2>1, <3>1, <3>2, Translations DEF IsSet
  <2> QED
    BY <2>1 DEF CredsInv, MapsInv, TypeOK
<1> QED
  BY <1>1, CredsInvInit, CredsInvNext, PTL DEF CredsSpec

-----------------------------------------------------------------------------
(* Files of the user of uchroot *)

\* As long as no -U or -G starts at an id wider than a uid_t, a file or group of the user
\* of uchroot is shown under -M as the command's own (local.cc:269-298).
THEOREM OwnFilesShownOwn ==
    ASSUME NarrowOptions
    PROVE  CredsSpec => []OwnFilesAreOwn
<1>1. CredsInit => Installed
  BY InstalledInit DEF CredsInit
<1>2. Installed /\ [CredsNext]_credVars => Installed'
  <2>1. [CredsNext]_credVars => [Next]_vars
    BY DEF CredsNext, Choose, SetUid, SetGid, SetGroups, credVars
  <2> QED
    BY <2>1, InstalledNext
<1>3. Installed /\ CredsInv => OwnFilesAreOwn
  <2> SUFFICES ASSUME Installed, CredsInv, step = "run"
               PROVE  OwnFilesAreOwn
    BY DEF OwnFilesAreOwn
  <2>1. /\ kernelUid \in Seq(Mapping) /\ KernelAccepts(kernelUid)
        /\ kernelGid \in Seq(Mapping) /\ KernelAccepts(kernelGid)
        /\ kernelUid = uidMappings /\ kernelGid = gidMappings
        /\ IsSet(initialUID, uid, kernelUid) /\ IsSet(initialGID, gid, kernelGid)
    BY DEF CredsInv, MapsInv, TypeOK, Installed
  <2>2. ASSUME NEW kernel \in Seq(Mapping), KernelAccepts(kernel),
               NEW asked, NEW id, IsSet(asked, id, kernel), asked # NoId
        PROVE  toOuter(asked, kernel) = id
    <3>1. PICK i \in DOMAIN kernel : Covers(kernel, i, asked)
      BY <2>2 DEF IsSet, InnerIds, Covers
    <3>2. asked \in Nat
      BY <2>2, Constants DEF IsSet, InnerIds, Id
    <3> QED
      BY <2>2, <3>1, <3>2, Translations DEF IsSet
  <2>3. initialUID # NoId => mappedUid(euid) = uid
    BY <2>1, <2>2 DEF mappedUid
  <2>4. initialGID # NoId => \A g \in {egid} \cup Supplementary : mappedGid(g) = gid
    BY <2>1, <2>2 DEF mappedGid
  <2> QED
    BY <2>3, <2>4 DEF OwnFilesAreOwn
<1> QED
  BY <1>1, <1>2, <1>3, CredsInvInit, CredsInvNext, PTL DEF CredsSpec

\* What the code asks before it sets the group of /dev/pts is what the kernel will ask
\* (child.cc:222-229).
THEOREM TtyGroupIsMapped ==
    ASSUME NarrowOptions
    PROVE  CredsSpec => []TtyGidMapped
<1>1. CredsInit => Installed
  BY InstalledInit DEF CredsInit
<1>2. Installed /\ [CredsNext]_credVars => Installed'
  <2>1. [CredsNext]_credVars => [Next]_vars
    BY DEF CredsNext, Choose, SetUid, SetGid, SetGroups, credVars
  <2> QED
    BY <2>1, InstalledNext
<1>3. Installed => TtyGidMapped
  <2> SUFFICES ASSUME Installed, phase = "running"
               PROVE  existsMapping(ttygid, gidMappings) <=> ttygid \in InnerIds(gidMappings)
    BY DEF TtyGidMapped, Installed
  <2>1. gidMappings \in Seq(Mapping) /\ KernelAccepts(gidMappings)
    BY DEF Installed
  <2>2. \A i \in DOMAIN gidMappings :
            (gidMappings[i].innerID + gidMappings[i].count) % LongMod
              = gidMappings[i].innerID + gidMappings[i].count
    BY <2>1, ExtentBounds
  <2>3. ttygid \in Id
    BY MapOptionsAssumption
  <2> QED
    BY <2>2, <2>3 DEF existsMapping, InnerHits, InnerIds
<1> QED
  BY <1>1, <1>2, <1>3, PTL DEF CredsSpec

-----------------------------------------------------------------------------
(* Without -U, -G and -A *)

\* The list of one id that the defaults make, and what the kernel makes of it.
OneId(inner, outer) == <<[innerID |-> inner, outerID |-> outer, count |-> 1]>>

PlainInv == plain =>
    /\ phase = "options" => uidMappings = <<>> /\ gidMappings = <<>>
    /\ phase \in {"setup", "running"} =>
         uidMappings = OneId(initialUID, euid) /\ gidMappings = OneId(initialGID, egid)
    /\ phase = "running" =>
         /\ kernelUid = uidMappings /\ kernelGid = gidMappings
         /\ NoId \notin {initialUID, initialGID}
    /\ MapsRefused => NoId \in {initialUID, initialGID}
    /\ step # "failed"

\* The kernel accepts a map of one id exactly when the id is not the one of "no change".
LEMMA OneIdAccepted ==
    ASSUME NEW inner \in Id, NEW outer \in Id \ {NoId}
    PROVE  KernelAccepts(OneId(inner, outer)) <=> inner # NoId
<1>1. /\ inner \in Nat /\ outer \in Nat /\ IdMod \in Nat
      /\ outer + 1 < IdMod /\ (inner + 1 < IdMod <=> inner # NoId)
  BY Constants DEF Id, NoId
<1>2. /\ DOMAIN OneId(inner, outer) = {1}
      /\ OneId(inner, outer)[1] = [innerID |-> inner, outerID |-> outer, count |-> 1]
  BY DEF OneId
<1>3. KernelAccepts(OneId(inner, outer)) <=>
          Fits([innerID |-> inner, outerID |-> outer, count |-> 1])
  BY <1>2 DEF KernelAccepts
<1>4. Fits([innerID |-> inner, outerID |-> outer, count |-> 1]) <=>
          1 > 0 /\ inner + 1 < IdMod /\ outer + 1 < IdMod
  BY DEF Fits
<1> QED
  BY <1>1, <1>3, <1>4

\* A map of one id holds that id and no other, and it is not the id of "no change".
LEMMA OneIdHolds ==
    ASSUME NEW inner \in Id, NEW outer \in Id, KernelAccepts(OneId(inner, outer))
    PROVE  /\ inner \in InnerIds(OneId(inner, outer))
           /\ kernelOut(inner, OneId(inner, outer)) = outer
<1> DEFINE m == OneId(inner, outer)
<1>1. m \in Seq(Mapping)
  BY Constants DEF OneId, Mapping
<1>2. 1 \in DOMAIN m /\ m[1].innerID = inner /\ m[1].outerID = outer /\ m[1].count = 1
  BY DEF OneId
<1>3. inner \in Nat /\ outer \in Nat
  BY Constants DEF Id
<1>4. Covers(m, 1, inner) /\ outer = inner - m[1].innerID + m[1].outerID
  BY <1>2, <1>3 DEF Covers
<1> HIDE DEF m
<1>5. kernelOut(inner, m) = outer
  BY <1>1, <1>2, <1>3, <1>4, Translations DEF m
<1>6. inner \in InnerIds(m)
  BY <1>2, <1>4 DEF InnerIds, Covers
<1> QED
  BY <1>5, <1>6 DEF m

LEMMA PlainInvInit == CredsInit => PlainInv
  BY DEF CredsInit, Init, PlainInv, MapsRefused

\* The options other than -U, -G and -A.
LEMMA PlainOptions ==
    ASSUME CredsInv, PlainInv, Choose, plain'
    PROVE  PlainInv'
<1>1. plain /\ ~OptU /\ ~OptG /\ ~OptA /\ step' = step
  BY DEF Choose
<1>2. CASE Optu \/ Optg \/ OptBad
  BY <1>1, <1>2 DEF PlainInv, MapsRefused, Optu, Optg, OptBad, Option, maps
<1>3. CASE Defaults
  BY <1>1, <1>3 DEF PlainInv, MapsRefused, Defaults, OneId
<1>4. CASE SetMaps
  <2>1. uidMappings = OneId(initialUID, euid) /\ gidMappings = OneId(initialGID, egid)
    BY <1>1, <1>4 DEF PlainInv, SetMaps
  <2>2. initialUID \in Id /\ initialGID \in Id
    BY DEF CredsInv, MapsInv, TypeOK
  <2>3. OnlyMe(uidMappings, euid) /\ OnlyMe(gidMappings, egid)
    BY <2>1 DEF OnlyMe, OneId
  <2>4. initialUID % IdMod = initialUID /\ initialGID % IdMod = initialGID
    BY <2>2, Constants, SmallMod DEF Id
  <2>5. /\ uidmap_single(uidMappings, euid) = uidMappings
        /\ uidmap_single(gidMappings, egid) = gidMappings
    BY <2>1, <2>4 DEF uidmap_single, OneId
  <2>6. /\ KernelAccepts(uidMappings) <=> initialUID # NoId
        /\ KernelAccepts(gidMappings) <=> initialGID # NoId
    BY <2>1, <2>2, OneIdAccepted, MapOptionsAssumption
  <2>7. UNCHANGED <<maps, initialUID, initialGID>>
    BY <1>4 DEF SetMaps
  <2>8. \/ /\ KernelAccepts(uidMappings) /\ KernelAccepts(gidMappings)
           /\ kernelUid' = uidMappings /\ kernelGid' = gidMappings /\ phase' = "running"
        \/ /\ ~KernelAccepts(uidMappings) \/ ~KernelAccepts(gidMappings)
           /\ phase' = "failed"
    BY <1>4, <2>3, <2>5 DEF SetMaps
  <2> QED
    BY <1>1, <2>1, <2>6, <2>7, <2>8 DEF PlainInv, MapsRefused, maps
<1> QED
  BY <1>1, <1>2, <1>3, <1>4 DEF Choose, Next

LEMMA PlainCalls ==
    ASSUME CredsInv, PlainInv, SetUid \/ SetGid \/ SetGroups, plain'
    PROVE  PlainInv'
<1>1. plain /\ phase = "running" /\ UNCHANGED vars
  BY DEF SetUid, SetGid, SetGroups, Calls
<1>2. initialUID \in Id /\ initialGID \in Id /\ KernelAccepts(kernelUid) /\ KernelAccepts(kernelGid)
  BY <1>1 DEF CredsInv, MapsInv, TypeOK
<1>3. kernelUid = OneId(initialUID, euid) /\ kernelGid = OneId(initialGID, egid)
  BY <1>1 DEF PlainInv
<1>4. initialUID \in InnerIds(kernelUid)
  BY <1>2, <1>3, Constants, OneIdHolds
<1>5. initialGID \in InnerIds(kernelGid) /\ kernelOut(initialGID, kernelGid) = egid
  BY <1>2, <1>3, Constants, OneIdHolds
<1>6. step' # "failed"
  <2>1. CASE SetUid
    BY <1>4, <2>1 DEF SetUid, IsMapped
  <2>2. CASE SetGid
    BY <1>5, <2>2 DEF SetGid, MaySetGid, IsMapped, Calls, CredsInv
  <2>3. CASE SetGroups
    BY <2>3 DEF SetGroups
  <2> QED
    BY <2>1, <2>2, <2>3
<1> QED
  BY <1>1, <1>6 DEF PlainInv, MapsRefused, vars

\* Without -U, -G and -A neither the kernel, which gets a map of one id, nor setreuid and
\* setregid in their order refuse anything, for every user and all -u and -g but -1; with
\* -1 the map is refused and nothing starts (child.cc:239-248, 538-545, main.cc:191-198).
THEOREM PlainStarts == CredsSpec => []DefaultsStart
<1>1. CredsInv /\ PlainInv /\ [CredsNext]_credVars => PlainInv'
  <2> SUFFICES ASSUME CredsInv, PlainInv, [CredsNext]_credVars PROVE PlainInv'
    OBVIOUS
  <2>1. CASE ~plain'
    BY <2>1 DEF PlainInv
  <2>2. CASE plain' /\ Choose
    BY <2>2, PlainOptions
  <2>3. CASE plain' /\ (SetUid \/ SetGid \/ SetGroups)
    BY <2>3, PlainCalls
  <2>4. CASE UNCHANGED credVars
    BY <2>4 DEF PlainInv, MapsRefused, credVars, creds, vars
  <2> QED
    BY <2>1, <2>2, <2>3, <2>4 DEF CredsNext
<1>2. PlainInv => DefaultsStart
  BY DEF PlainInv, DefaultsStart
<1> QED
  BY <1>1, <1>2, PlainInvInit, CredsInvInit, CredsInvNext, PTL DEF CredsSpec
=============================================================================
