---------------------------- MODULE EmuAttrProps ----------------------------
(***************************************************************************)
(* What the emulation of attributes must guarantee, and how its state maps *)
(* to the abstract file system AttrFS.                                     *)
(***************************************************************************)
EXTENDS EmuAttr

Steps == {"open", "write", "link", "unlink", "rmdir", "rename"}
Ops == {"NONE", "CHOWN", "CHMOD", "CREAT", "MKNOD", "SYMLINK", "MKDIR", "LINK", "UNLINK",
        "RMDIR", "RENAME"}

TreeOK(T) ==
    /\ T \in [Dirs -> [Entries -> Objects \cup Sides \cup {None}]]
    /\ \A d \in Dirs, n \in Names : T[d][n] \in Objects \cup {None}
    /\ \A d \in Dirs, n \in Entries \ Names : T[d][n] \in Sides \cup {None}

CallType == [op : Ops, path : AnyPath, to : AnyPath, sidecar : SidePath \cup {RootPath},
             fd : Sides \cup {None}, attrs : Attrs \cup {Undef}, err : {OK, "ENOTEMPTY"}]

\* A thread between two system calls knows which sidecar it is about.
CallOK(step, c) ==
    /\ step # "idle" => c.sidecar \in SidePath
    /\ step \in {"link", "unlink", "rmdir", "rename"} => c.path \in NamedPath
    /\ step = "write" => c.fd \in Sides

ThreadsOK ==
    /\ mutex \in Threads \cup {None}
    /\ pc \in [Threads -> Steps \cup {"idle"}]
    /\ call \in [Threads -> CallType]
    /\ \A t \in Threads : CallOK(pc[t], call[t])

\* Types of the state of the emulation: only sidecars are found under the
\* names of sidecars, and a thread that is not idle knows the one it will
\* touch (local.hh:93-111, local.cc:110-306).
TypeOK ==
    /\ TreeOK(ent)
    /\ data \in [Sides -> Attrs \cup {Torn}]
    /\ ThreadsOK
    /\ faults \in 0 .. MaxFaults

Busy(t) == pc[t] # "idle"
Quiet == \A t \in Threads : ~Busy(t)

-----------------------------------------------------------------------------
(* The refinement mapping.  A request takes effect with its first change   *)
(* to the host tree; from then on a thread carries what it will write.     *)

tree == [d \in Dirs |-> [n \in Names |-> ent[d][n]]]

\* The sidecar of entry p: until the second rename it is under the old name.
SidecarAt(p) ==
    LET old == {t \in Threads : pc[t] = "rename" /\ call[t].to = p}
    IN  IF old = {} THEN At(ent, [dir |-> p.dir, name |-> SideOf(p.name)])
        ELSE At(ent, attrsFileName(call[CHOOSE t \in old : TRUE].path, "FILE"))

SidecarsOf(o) ==
    (IF o \in Dirs THEN {ent[o][DirSide]}
     ELSE {SidecarAt(p) : p \in {q \in Paths(ent) : At(ent, q) = o}}) \ {None}

\* The thread that holds the attributes of o in memory.
Writers(o) ==
    {t \in Threads : pc[t] \in {"open", "write", "rmdir"} /\ At(ent, call[t].path) = o}

StoredAttrs(o) ==
    IF Writers(o) # {}
    THEN LET a == call[CHOOSE t \in Writers(o) : TRUE].attrs
         IN  IF a = Undef THEN Torn ELSE a
    ELSE IF SidecarsOf(o) = {} THEN defaultAttrs(o)
    ELSE data[CHOOSE s \in SidecarsOf(o) : TRUE]

\* The attributes of o as the container sees them.
AttrView(o) == IF Present(ent, o) THEN shown(o, StoredAttrs(o)) ELSE NoAttr

ReplyView(t) ==
    IF pc[t] \in {"open", "write", "link", "unlink", "rename"} THEN Reply(call[t].err)
    ELSE reply[t]

AFS == INSTANCE AttrFS WITH
    attr <- [o \in Objects |-> AttrView(o)],
    reply <- [t \in Threads |-> ReplyView(t)]

\* On a tree that erlent alone has filled, the clients see a file system with
\* owners and modes, whose requests are atomic (local.cc:122-268).
ImplementsAttrFS == AFS!Spec

-----------------------------------------------------------------------------
(* Properties of the sidecars *)

FileEntries == {p \in [dir : Dirs, name : Names] : At(ent, p) \in Files}
SideEntry(p) == ent[p.dir][SideOf(p.name)]

\* Between requests every file has a sidecar that can be read, two names have
\* the same sidecar exactly when they are the same file, and there is no
\* sidecar without a file (local.cc:160-194, 244-265).
SidecarsFollowFiles ==
    Quiet =>
        /\ \A p \in FileEntries : SideEntry(p) # None /\ data[SideEntry(p)] # Torn
        /\ \A p, q \in FileEntries : At(ent, p) = At(ent, q) <=> SideEntry(p) = SideEntry(q)
        /\ \A p \in [dir : Dirs, name : Names] : SideEntry(p) # None => p \in FileEntries
        /\ \A d \in Dirs : d # Root /\ Present(ent, d) => ent[d][DirSide] # None

\* A thread between two system calls of a request has the mutex, so nobody
\* reads or writes a sidecar while another request changes it (local.cc:110-120).
OneInside == \A t \in Threads : Busy(t) <=> mutex = t

\* Objects whose attributes, as the clients see them, a step changes.
Changed == {o \in Objects : Present(ent, o) /\ Present(ent', o) /\ AttrView(o)' # AttrView(o)}

\* Only chown and chmod change the attributes of an object, and only of the
\* one they name; a rename, a link, an unlink of another name or a failed
\* rmdir keep them (local.cc:180-187, 244-265).
AttrsOnlySet ==
    [][\A o \in Changed : \E t \in Threads :
            call'[t].op \in {"CHOWN", "CHMOD"} /\ At(ent', call'[t].path) = o]_vars

\* A file keeps its owner and mode when it is renamed, over another file or
\* not (local.cc:257-265): with -E they are emulated "through FUSE".
RenameKeepsAttrs ==
    [][(\E t \in Threads : call[t].op = "RENAME" /\ faults' = faults) => Changed = {}]_vars

\* Creating a file says nothing about any other (local.hh:190-199).
CreateSparesOthers ==
    [][\A t \in Threads : call[t].op = "CREAT" =>
            \A o \in Changed : At(ent, call[t].path) = o]_vars

\* What a failed rmdir puts back is what it saved (local.cc:248-256).
RmdirRestoresWhatItSaved ==
    \A t \in Threads : pc[t] = "write" /\ call[t].op = "RMDIR" => call[t].attrs # Undef

\* What a getattr on p would show.
PathView(p) == shown(At(ent, p), readAttrs(p, dirfile(p)))

\* When chown, chmod or a creation that writes a sidecar reports success, a
\* getattr on its path shows the attributes asked for, also when earlier
\* crashes have left sidecars behind and when sidecars can fail to be written
\* (local.hh:163-199).
OkMeansDone ==
    [][\A t \in Threads :
        /\ pc[t] \in {"open", "write"} /\ call[t].op # "RMDIR"
        /\ pc'[t] = "idle" /\ reply'[t].err = OK
        => \A p \in AnyPath : p = call[t].path =>
                PathView(p)' = shown(At(ent, p), call[t].attrs)]_vars

\* A request that has begun ends, and gives the mutex back (local.cc:113-118).
EveryCallReturns == \A t \in Threads : Busy(t) ~> ~Busy(t)
=============================================================================
