----------------------------- MODULE MapOptions -----------------------------
(***************************************************************************)
(* How uchroot arrives at its id mappings: the options -U, -G, -A, -u and  *)
(* -g (src/uchroot/main.cc), the defaults, and the choice of how the maps  *)
(* are given to the kernel (setup_child, src/erlent/child.cc).  The kernel *)
(* and newuidmap are external: they refuse some maps and install the rest. *)
(***************************************************************************)
EXTENDS IdMap

CONSTANTS
    OptMappings,    \* the arguments of -U and -G that parse
    OptIds,         \* the arguments of -u and -g
    euid, egid,     \* the user who runs uchroot
    SubUid, SubGid, \* /etc/subuid and /etc/subgid: [mine, outer, count] lines
    ttygid,         \* 5, the group of terminals
    nMappings,      \* 65536, the length of an automatic mapping
    MaxOpts         \* bound on the number of options

ASSUME MapOptionsAssumption ==
    /\ OptMappings \subseteq Mapping
    /\ OptIds \subseteq Id
    /\ euid \in Id \ {NoId}
    /\ egid \in Id \ {NoId}
    /\ ttygid \in Id \ {NoId}
    /\ nMappings \in Long \ {0}
    /\ SubUid \in Seq([mine : BOOLEAN, outer : Long, count : Long])
    /\ SubGid \in Seq([mine : BOOLEAN, outer : Long, count : Long])
    /\ MaxOpts \in Nat

VARIABLES
    phase,          \* "options", "setup", "running" or "failed"
    uidMappings, gidMappings, initialUID, initialGID,
    kernelUid, kernelGid,   \* the maps the kernel has installed
    nOpts

vars == <<phase, uidMappings, gidMappings, initialUID, initialGID, kernelUid, kernelGid, nOpts>>
maps == <<uidMappings, gidMappings>>

TypeOK ==
    /\ phase \in {"options", "setup", "running", "failed"}
    /\ uidMappings \in Seq(Mapping)
    /\ gidMappings \in Seq(Mapping)
    /\ initialUID \in Id
    /\ initialGID \in Id
    /\ kernelUid \in Seq(Mapping)
    /\ kernelGid \in Seq(Mapping)
    /\ nOpts \in 0 .. MaxOpts

Init ==
    /\ phase = "options"
    /\ uidMappings = <<>>
    /\ gidMappings = <<>>
    /\ initialUID = 0
    /\ initialGID = 0
    /\ kernelUid = <<>>
    /\ kernelGid = <<>>
    /\ nOpts = 0

Option ==
    /\ phase = "options"
    /\ nOpts < MaxOpts
    /\ nOpts' = nOpts + 1
    /\ UNCHANGED <<kernelUid, kernelGid>>

OptU ==
    /\ Option
    /\ \E m \in OptMappings : uidMappings' = Append(uidMappings, m)
    /\ UNCHANGED <<phase, gidMappings, initialUID, initialGID>>

OptG ==
    /\ Option
    /\ \E m \in OptMappings : gidMappings' = Append(gidMappings, m)
    /\ UNCHANGED <<phase, uidMappings, initialUID, initialGID>>

\* Mutant: the number is not cut to a uid_t.
OptuWide ==
    /\ Option
    /\ initialUID' \in {id + IdMod : id \in OptIds}
    /\ UNCHANGED <<phase, maps, initialGID>>

Optu ==
    /\ Option
    /\ initialUID' \in OptIds
    /\ UNCHANGED <<phase, maps, initialGID>>

Optg ==
    /\ Option
    /\ initialGID' \in OptIds
    /\ UNCHANGED <<phase, maps, initialUID>>

\* The first range of the user that is long enough.
autoMapLines(file) ==
    {i \in DOMAIN file : file[i].mine /\ file[i].count >= nMappings}

autoMap(file, mappings) ==
    Append(mappings, [innerID |-> 0, outerID |-> file[First(autoMapLines(file))].outer,
                      count |-> nMappings])

OptA ==
    /\ Option
    /\ IF autoMapLines(SubUid) = {} \/ autoMapLines(SubGid) = {}
       THEN phase' = "failed" /\ UNCHANGED maps
       ELSE /\ uidMappings' = autoMap(SubUid, uidMappings)
            /\ gidMappings' = autoMap(SubGid, gidMappings)
            /\ UNCHANGED phase
    /\ UNCHANGED <<initialUID, initialGID>>

\* An argument that does not parse: usage, exit.
OptBad ==
    /\ Option
    /\ phase' = "failed"
    /\ UNCHANGED <<maps, initialUID, initialGID>>

\* Mutant: the group is mapped from the initial user id.
DefaultsOneId ==
    /\ phase = "options"
    /\ phase' = "setup"
    /\ uidMappings' = IF uidMappings = <<>>
                      THEN <<[innerID |-> initialUID, outerID |-> euid, count |-> 1]>>
                      ELSE uidMappings
    /\ gidMappings' = IF gidMappings = <<>>
                      THEN <<[innerID |-> initialUID, outerID |-> egid, count |-> 1]>>
                      ELSE gidMappings
    /\ UNCHANGED <<initialUID, initialGID, kernelUid, kernelGid, nOpts>>

\* Without -U and -A the user becomes the initial user of the container.
Defaults ==
    /\ phase = "options"
    /\ phase' = "setup"
    /\ uidMappings' = IF uidMappings = <<>>
                      THEN <<[innerID |-> initialUID, outerID |-> euid, count |-> 1]>>
                      ELSE uidMappings
    /\ gidMappings' = IF gidMappings = <<>>
                      THEN <<[innerID |-> initialGID, outerID |-> egid, count |-> 1]>>
                      ELSE gidMappings
    /\ UNCHANGED <<initialUID, initialGID, kernelUid, kernelGid, nOpts>>

OnlyMe(mappings, me) ==
    Len(mappings) = 1 /\ mappings[1].count = 1 /\ mappings[1].outerID = me

\* uidmap_single writes one extent; its argument is a uid_t or gid_t.
uidmap_single(mappings, me) ==
    <<[innerID |-> mappings[1].innerID % IdMod, outerID |-> me, count |-> 1]>>

\* setup_child: write the maps, or have newuidmap and newgidmap do it.
SetMaps ==
    /\ phase = "setup"
    /\ LET single == OnlyMe(uidMappings, euid) /\ OnlyMe(gidMappings, egid)
           u == IF single THEN uidmap_single(uidMappings, euid) ELSE uidMappings
           g == IF single THEN uidmap_single(gidMappings, egid) ELSE gidMappings
       IN  \/ /\ KernelAccepts(u)
              /\ KernelAccepts(g)
              /\ kernelUid' = u
              /\ kernelGid' = g
              /\ phase' = "running"
           \/ /\ ~single \/ ~KernelAccepts(u) \/ ~KernelAccepts(g)
              /\ phase' = "failed"
              /\ UNCHANGED <<kernelUid, kernelGid>>
    /\ UNCHANGED <<maps, initialUID, initialGID, nOpts>>

Next ==
    \/ OptU \/ OptG \/ Optu \/ Optg \/ OptA \/ OptBad
    \/ Defaults \/ SetMaps

Spec == Init /\ [][Next]_vars
-----------------------------------------------------------------------------
\* No -U or -G starts at an inner id too wide for a uid_t.
NarrowOptions == \A m \in OptMappings : m.innerID < IdMod

\* An id that a process of the container can hold comes back from a chown and
\* the getattr after it: the kernel's map takes it out, the program's mapping
\* list in and out again, the kernel's map back (child.cc:658-674).
Survives(id, kernel, mappings) ==
    LET stored == toInner(kernelOut(id, kernel), mappings)
    IN  stored = id /\ kernelIn(toOuter(stored, mappings), kernel) = id

IdsSurvive == phase = "running" =>
    /\ \A id \in InnerIds(kernelUid) : Survives(id, kernelUid, uidMappings)
    /\ \A id \in InnerIds(kernelGid) : Survives(id, kernelGid, gidMappings)

\* A container that runs has the ids that the options asked for: -U I:O:C and
\* -G I:O:C map ids [I..I+C) to host ids [O..O+C) (main.cc:118-119).
MapsAsAsked == phase = "running" =>
    kernelUid = uidMappings /\ kernelGid = gidMappings

\* The group of a new /dev/pts is set to ttygid exactly when the kernel knows
\* that group in the container, else the mount would fail (child.cc:222-229).
TtyGidMapped == phase = "running" =>
    (existsMapping(ttygid, gidMappings) <=> ttygid \in InnerIds(kernelGid))
=============================================================================
