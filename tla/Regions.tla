------------------------------ MODULE Regions -------------------------------
(***************************************************************************)
(* A tree of which a part is mapped (-M) and the rest emulated (-E).  A    *)
(* request follows the rules of its first path (local.cc:122-130): under a *)
(* mapped directory it is the system call alone (local.cc:269-299), which  *)
(* knows no sidecars, wherever its second path is.                         *)
(***************************************************************************)
EXTENDS EmuAttrProps

CONSTANT MappedDirs

ASSUME RegionsAssumption == MappedDirs \subseteq (Preexisting \cap Dirs) \ {Root}

\* getAttrType is Mapped.
InMapped(p) == p.dir \in MappedDirs \/ At(ent, p) \in MappedDirs

\* Requests that change the emulated part.  The one that ends at once is a creation
\* under a directory whose sidecar cannot be read.
Emulated(t) ==
    /\ Chown(t) \/ Chmod(t) \/ Creat(t) \/ Link(t) \/ Unlink(t) \/ Rename(t)
    /\ IF pc'[t] = "idle"
       THEN \A p \in NamedPath : InMapped(p) => At(ent', p) = At(ent, p)
       ELSE ~InMapped(call'[t].path)

Locally(t, op, T) ==
    /\ Enter(t, op)
    /\ ent' = T
    /\ Finish(t, Reply(OK))
    /\ UNCHANGED <<data, faults>>

MappedCreat(t) ==
    \E p \in Absent(ent) :
        InMapped(p) /\ CanCreate(Files) /\ Locally(t, "CREAT", Put(ent, p, FreshFile))

MappedUnlink(t) ==
    \E p \in FilePaths(ent) : InMapped(p) /\ Locally(t, "UNLINK", unlink(ent, p))

MappedLink(t) ==
    \E p \in FilePaths(ent), q \in Absent(ent) :
        InMapped(p) /\ Locally(t, "LINK", link(ent, p, q))

MappedRename(t) ==
    \E p \in FilePaths(ent), q \in Paths(ent) :
        /\ InMapped(p) /\ MayRename(ent, p, q)
        /\ Locally(t, "RENAME", rename(ent, p, q))

Mapped(t) == MappedCreat(t) \/ MappedUnlink(t) \/ MappedLink(t) \/ MappedRename(t)

RegionsNext == Crash \/ \E t \in Threads : Emulated(t) \/ Mapped(t) \/ Step(t) \/ SidecarFault(t)

RegionsSpec == Init /\ [][RegionsNext]_vars
-----------------------------------------------------------------------------
\* A link or a rename within the emulated part that reports success shows under the new
\* name what the old name showed, if that had a sidecar at all, whatever sidecars requests
\* under mapped directories and crashes have left lying about (local.cc:180-187, 257-265).
MovesWithAttrs ==
    [][\A t \in Threads :
        /\ pc[t] \in {"link", "rename"} /\ pc'[t] = "idle" /\ reply'[t].err = OK
        /\ ~InMapped(call[t].to) /\ SideEntry(call[t].path) # None
        => \A q \in AnyPath : q = call[t].to =>
                PathView(q)' = shown(At(ent', q), data[SideEntry(call[t].path)])]_vars

\* The sidecar that chown or chmod rewrites is not another file's as well: -E emulates the
\* owner and mode of each file (usage text, main.cc:115; local.hh:163-188).
SetsOneFile ==
    [][\A t \in Threads : pc[t] = "write" /\ pc'[t] = "idle" /\ call[t].op \in {"CHOWN", "CHMOD"} =>
        \A p \in FileEntries :
            ~InMapped(p) /\ At(ent, p) # At(ent, call[t].path) =>
                SideEntry(p) # call[t].fd]_vars
=============================================================================
