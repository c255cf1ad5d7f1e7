------------------------------- MODULE Creds --------------------------------
(***************************************************************************)
(* The ids the command runs with: PID 1, in the new user namespace, calls  *)
(* setreuid, setregid and setgroups, in this order (childFunc, child.cc),  *)
(* with the maps and initial ids that MapOptions arrives at.  The real,    *)
(* effective and saved ids are the same before and after each of these     *)
(* calls, so one id stands for the three.                                  *)
(***************************************************************************)
EXTENDS MapOptions

CONSTANT Supplementary  \* groups of the user of uchroot besides egid

ASSUME CredsAssumption == Supplementary \subseteq Id \ {NoId}

VARIABLES
    step,           \* what comes next: "setreuid", "setregid", "setgroups", "run", or "failed"
    uid, gid,       \* as the host knows them
    capable,        \* whether it has the capabilities of its user namespace
    groups,         \* "caller", the supplementary groups of the user of uchroot, or "none"
    plain           \* no -U, -G or -A was given

creds == <<step, uid, gid, capable, groups, plain>>
credVars == <<vars, creds>>

CredsInit ==
    /\ Init
    /\ step = "setreuid"
    /\ uid = euid /\ gid = egid
    /\ capable = TRUE
    /\ groups = "caller"
    /\ plain = TRUE

\* An option, the defaults or the maps.
Choose ==
    /\ Next
    /\ plain' = (plain /\ ~(OptU \/ OptG \/ OptA))
    /\ UNCHANGED <<step, uid, gid, capable, groups>>

IsMapped(id, kernel) == id \in InnerIds(kernel)

Calls(call) == phase = "running" /\ step = call

\* Leaving root's id costs the capabilities, leaving another one does not.
setreuid(id) ==
    /\ uid' = IF id = NoId THEN uid ELSE kernelOut(id, kernelUid)
    /\ capable' = (kernelIn(uid, kernelUid) = 0 => kernelIn(uid', kernelUid) = 0)

SetUid ==
    /\ Calls("setreuid")
    /\ IF initialUID = NoId \/ IsMapped(initialUID, kernelUid)
       THEN setreuid(initialUID) /\ step' = "setregid"
       ELSE step' = "failed" /\ UNCHANGED <<uid, capable>>
    /\ UNCHANGED <<vars, gid, groups, plain>>

\* Without capabilities only the own group can be set.
MaySetGid(id) ==
    \/ id = NoId
    \/ IsMapped(id, kernelGid) /\ (capable \/ kernelOut(id, kernelGid) = gid)

\* Mutant: the result of setregid is not looked at.
SetGidIgnored ==
    /\ Calls("setregid")
    /\ gid' = IF MaySetGid(initialGID) /\ initialGID # NoId
              THEN kernelOut(initialGID, kernelGid) ELSE gid
    /\ step' = "setgroups"
    /\ UNCHANGED <<vars, uid, capable, groups, plain>>

SetGid ==
    /\ Calls("setregid")
    /\ IF MaySetGid(initialGID)
       THEN /\ gid' = IF initialGID = NoId THEN gid ELSE kernelOut(initialGID, kernelGid)
            /\ step' = "setgroups"
       ELSE step' = "failed" /\ UNCHANGED gid
    /\ UNCHANGED <<vars, uid, capable, groups, plain>>

\* The result is ignored; uidmap_single has denied setgroups for this namespace.
SetGroups ==
    /\ Calls("setgroups")
    /\ groups' = IF capable /\ ~(OnlyMe(uidMappings, euid) /\ OnlyMe(gidMappings, egid))
                 THEN "none" ELSE groups
    /\ step' = "run"
    /\ UNCHANGED <<vars, uid, gid, capable, plain>>

CredsNext == Choose \/ SetUid \/ SetGid \/ SetGroups

CredsSpec == CredsInit /\ [][CredsNext]_credVars
-----------------------------------------------------------------------------
(* do_process for a path under -M: whose getattr says that a file is which *)
(* for the host belongs to this owner and group.                           *)

\* Mutant: the initial id is shown as it is.
mappedUidInner(owner) == IF owner = euid THEN initialUID ELSE owner

mappedUid(owner) == IF owner = euid THEN toOuter(initialUID, uidMappings) ELSE owner

mappedGid(group) ==
    IF group \in {egid} \cup Supplementary THEN toOuter(initialGID, gidMappings) ELSE group
-----------------------------------------------------------------------------
\* A command runs with the ids that -u and -g ask for, whatever the maps are; -1 leaves
\* an id as it is (child.cc:239-248).
RunsAsAsked == step = "run" =>
    /\ initialUID # NoId => kernelIn(uid, kernelUid) = initialUID
    /\ initialGID # NoId => kernelIn(gid, kernelGid) = initialGID

\* The kernel has refused the maps that the defaults have filled in.
MapsRefused == phase = "failed" /\ uidMappings # <<>>

\* Without -U, -G and -A every -u and -g but -1 lets the command run, although setreuid
\* comes first and may cost the right to setregid; -1 is an id the kernel maps nowhere,
\* so that with it nothing is started (child.cc:239-248, 538-545, main.cc:191-198).
DefaultsStart == plain =>
    IF NoId \in {initialUID, initialGID}
    THEN phase # "running"
    ELSE ~MapsRefused /\ step # "failed"

\* What belongs to the user of uchroot is shown under -M as the command's own, although
\* the id passes the program's list and the kernel's map (local.cc:269-298).
OwnFilesAreOwn == step = "run" =>
    /\ initialUID # NoId => kernelIn(mappedUid(euid), kernelUid) = kernelIn(uid, kernelUid)
    /\ initialGID # NoId =>
         \A g \in {egid} \cup Supplementary :
            kernelIn(mappedGid(g), kernelGid) = kernelIn(gid, kernelGid)

\* With both ids in the maps the command runs.
MappedIdsStart == step = "failed" =>
    ~IsMapped(initialUID, kernelUid) \/ ~IsMapped(initialGID, kernelGid)
=============================================================================
