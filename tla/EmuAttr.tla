------------------------------ MODULE EmuAttr ------------------------------
(***************************************************************************)
(* The emulation of owner and access mode (LocalRequestProcessor, include/ *)
(* erlent/local.hh and src/erlent/local.cc, requests under an Emulated     *)
(* path).  The owner, group and mode of a file f are kept in the sidecar   *)
(* file ".erlent.f" next to it, those of a directory in ".erlent" inside   *)
(* it.  A request is several system calls on the host tree; the state      *)
(* between them is what other threads, and a crash, can see.               *)
(*                                                                         *)
(* Sidecars are ordinary entries of the host table "ent", so a step that   *)
(* forgets one, or a request that names one, shows in the model.           *)
(***************************************************************************)
EXTENDS IdMap, HostTree

CONSTANTS
    Sides,          \* inodes for sidecar files
    Threads,        \* threads that call LocalRequestProcessor::process
    UidMap, GidMap, \* the mappings of ChildParams
    ReqUids, ReqGids, ReqModes,     \* what a client asks for, in its own ids
    InitEnt,        \* the host tree when erlent starts on it
    Preexisting,    \* inodes of that tree
    HostMode,       \* their mode on the host
    Garbage,        \* what an uninitialised Attrs may hold
    Undef,          \* an Attrs that was never read
    Torn,           \* contents of a sidecar too short to be read
    MaxFaults       \* bound on crashes and failed sidecar writes

SideOf(n) == <<".erlent", n>>
DirSide == <<".erlent">>
Entries == Names \cup {SideOf(n) : n \in Names} \cup {DirSide}

isEmuFile(n) == n \notin Names

\* A mode is a set of bits: setgid, the owner's and everybody else's bits.
Bits == {"sgid", "u", "go"}
filemode == {"u"}
dirmode == {"u"}
linkmode == {"u", "go"}

Attrs == [uid : Id, gid : Id, mode : SUBSET Bits]
Objects == Dirs \cup Files

ASSUME EmuAttrAssumption ==
    /\ Sides \cap (Objects \cup {None}) = {}
    /\ DirSide \notin Names
    /\ \A n \in Names : SideOf(n) \notin Names
    /\ Dot \notin Entries
    /\ None \notin Threads
    /\ UidMap \in Seq(Mapping) /\ KernelAccepts(UidMap)
    /\ GidMap \in Seq(Mapping) /\ KernelAccepts(GidMap)
    /\ ReqUids \subseteq InnerIds(UidMap) \cup {NoId}
    /\ ReqGids \subseteq InnerIds(GidMap) \cup {NoId}
    /\ ReqModes \subseteq SUBSET Bits
    /\ HostMode \in SUBSET Bits
    /\ Garbage \subseteq Attrs
    /\ Torn \notin Attrs
    /\ Undef \notin Attrs
    /\ Preexisting \subseteq Objects
    /\ Root \in Preexisting
    /\ InitEnt \in [Dirs -> [Entries -> Objects \cup {None}]]
    /\ \A d \in Dirs, n \in Entries \ Names : InitEnt[d][n] = None
    /\ MaxFaults \in Nat

VARIABLES
    ent,        \* the host tree, sidecars included
    data,       \* contents of the sidecars
    mutex,      \* the thread inside process(), or None
    pc,         \* what a thread does next
    call,       \* the request a thread works on, and its local variables
    reply,      \* the last reply to each thread
    faults

vars == <<ent, data, mutex, pc, call, reply, faults>>

\* The paths of clients, those of named objects, and those of sidecars.
AnyPath == [dir : Dirs, name : Names \cup {Dot}]
NamedPath == [dir : Dirs, name : Names]
SidePath == [dir : Dirs, name : Entries \ Names]

NoAttr == [uid |-> NoId, gid |-> NoId, mode |-> {}]
Reply(err) == [err |-> err, attr |-> NoAttr, size |-> 0, names |-> {}]

\* sidecar: the entry of the sidecar to open; fd: the sidecar once open;
\* attrs: the Attrs variable of the handler; err: the reply's result.
Call(op, path, to, sidecar, attrs, err) ==
    [op |-> op, path |-> path, to |-> to, sidecar |-> sidecar,
     fd |-> None, attrs |-> attrs, err |-> err]
NoCall == Call("NONE", RootPath, RootPath, RootPath, Undef, OK)

Init ==
    /\ ent = InitEnt
    /\ data = [s \in Sides |-> Torn]
    /\ mutex = None
    /\ pc = [t \in Threads |-> "idle"]
    /\ call = [t \in Threads |-> NoCall]
    /\ reply = [t \in Threads |-> Reply(OK)]
    /\ faults = 0
-----------------------------------------------------------------------------
(* process(): most requests hold the mutex from their first system call to *)
(* their last.  A handler takes the mutex with its first call.             *)

\* Mutant: chown is taken for a request that leaves sidecars alone.
needsLockNotChown(op) ==
    op \notin {"OPEN", "READ", "READDIR", "READLINK", "STATFS", "TRUNCATE", "WRITE", "CHOWN"}

needsLock(op) ==
    op \notin {"OPEN", "READ", "READDIR", "READLINK", "STATFS", "TRUNCATE", "WRITE"}

\* Mutant: process() does not wait for the mutex.
EnterUnlocked(t, op) == pc[t] = "idle"

Enter(t, op) ==
    /\ pc[t] = "idle"
    /\ needsLock(op) => mutex = None

Continue(t, next, c) ==
    /\ pc' = [pc EXCEPT ![t] = next]
    /\ call' = [call EXCEPT ![t] = c]
    /\ mutex' = IF needsLock(c.op) THEN t ELSE mutex
    /\ reply' = [reply EXCEPT ![t] = Reply("PENDING")]

Finish(t, r) ==
    /\ pc' = [pc EXCEPT ![t] = "idle"]
    /\ call' = [call EXCEPT ![t] = NoCall]
    /\ mutex' = IF mutex = t THEN None ELSE mutex
    /\ reply' = [reply EXCEPT ![t] = r]

-----------------------------------------------------------------------------
(* Sidecars *)

dirOf(p) == [dir |-> p.dir, name |-> Dot]

dirfile(p) == IF At(ent, p) \in Dirs THEN "DIRECTORY" ELSE "FILE"

attrsFileName(p, dt) ==
    IF dt = "DIRECTORY" THEN [dir |-> At(ent, p), name |-> DirSide]
    ELSE [dir |-> p.dir, name |-> SideOf(p.name)]

hostMode(o) ==
    IF o \in Preexisting THEN HostMode ELSE IF o \in Dirs THEN dirmode ELSE filemode

\* An object without a sidecar belongs to the container's root.
defaultAttrs(o) == [uid |-> 0, gid |-> 0, mode |-> hostMode(o)]

\* Ids on their way in: the kernel turns a client's id into the host id that
\* the request carries, the handler turns that into the id it stores.
storedUid == [id \in ReqUids |-> toInner(kernelOut(id, UidMap), UidMap)]
storedGid == [id \in ReqGids |-> toInner(kernelOut(id, GidMap), GidMap)]

\* And on their way out, from the stored id to the one the client is shown.
shownUid == [id \in Id |-> kernelIn(toOuter(id, UidMap), UidMap)]
shownGid == [id \in Id |-> kernelIn(toOuter(id, GidMap), GidMap)]

\* getattr's answer about o from the sidecar contents a: host root is shown
\* when they cannot be read.
shown(o, a) ==
    IF a = Torn
    THEN [uid |-> kernelIn(0, UidMap), gid |-> kernelIn(0, GidMap),
          mode |-> hostMode(o) \ {"go"}]
    ELSE [uid |-> shownUid[a.uid], gid |-> shownGid[a.gid], mode |-> a.mode]

\* Torn when the sidecar cannot be read.
readAttrs(p, dt) ==
    LET s == At(ent, attrsFileName(p, dt))
    IN  IF s = None THEN defaultAttrs(At(ent, p)) ELSE data[s]

\* An inode that nothing refers to is empty.
Sweep(T, D) == [s \in Sides |-> IF ~Linked(T, s) THEN Torn ELSE D[s]]

FreshSide == CHOOSE s \in Sides : ~Linked(ent, s)
FreshFile == CHOOSE f \in Files \ Preexisting : ~Linked(ent, f)
FreshDir == CHOOSE d \in Dirs \ Preexisting : ~Linked(ent, d)
CanCreate(S) == \E x \in S \ Preexisting : ~Linked(ent, x)

\* Mutant: the file descriptor of the new sidecar is dropped.
OpenSidecarNoFd(t) ==
    LET c == call[t]
        s == IF At(ent, c.sidecar) = None THEN FreshSide ELSE At(ent, c.sidecar)
    IN  /\ pc[t] = "open"
        /\ At(ent, c.sidecar) = None => CanCreate(Sides)
        /\ ent' = Put(ent, c.sidecar, s)
        /\ data' = [data EXCEPT ![s] = Torn]
        /\ Continue(t, "write", c)
        /\ UNCHANGED faults

\* Mutant: O_EXCL, tried again until the sidecar does not exist.
OpenSidecarExcl(t) ==
    /\ pc[t] = "open"
    /\ At(ent, call[t].sidecar) = None
    /\ CanCreate(Sides)
    /\ ent' = Put(ent, call[t].sidecar, FreshSide)
    /\ data' = [data EXCEPT ![FreshSide] = Torn]
    /\ Continue(t, "write", [call[t] EXCEPT !.fd = FreshSide])
    /\ UNCHANGED faults

\* writeAttrs, first call: open(O_WRONLY | O_CREAT | O_TRUNC).
OpenSidecar(t) ==
    LET c == call[t]
        s == IF At(ent, c.sidecar) = None THEN FreshSide ELSE At(ent, c.sidecar)
    IN  /\ pc[t] = "open"
        /\ At(ent, c.sidecar) = None => CanCreate(Sides)
        /\ ent' = Put(ent, c.sidecar, s)
        /\ data' = [data EXCEPT ![s] = Torn]
        /\ Continue(t, "write", [c EXCEPT !.fd = s])
        /\ UNCHANGED faults

\* writeAttrs, second call: what was never initialised writes what it holds.
WriteSidecar(t) ==
    LET c == call[t]
    IN  /\ pc[t] = "write"
        /\ \E a \in IF c.attrs = Undef THEN Garbage ELSE {c.attrs} :
                data' = [data EXCEPT ![c.fd] = a]
        /\ Finish(t, Reply(c.err))
        /\ UNCHANGED <<ent, faults>>
-----------------------------------------------------------------------------
(* Requests.  uid and gid arrive as host ids and are stored as inner ids.  *)

Getattr(t) ==
    \E p \in Existing(ent) :
        LET o == At(ent, p)
        IN  /\ Enter(t, "GETATTR")
            /\ Finish(t, [err |-> OK,
                  attr |-> shown(o, readAttrs(p, dirfile(p))),
                  size |-> IF o \in Dirs
                           THEN 2 + Cardinality({n \in Entries : ent[o][n] # None /\ ~isEmuFile(n)})
                           ELSE 0,
                  names |-> {}])
            /\ UNCHANGED <<ent, data, faults>>

Readdir(t) ==
    \E p \in DirPaths(ent) :
        /\ Enter(t, "READDIR")
        /\ Finish(t, [Reply(OK) EXCEPT !.names =
                {n \in Entries : ent[At(ent, p)][n] # None /\ ~isEmuFile(n)}])
        /\ UNCHANGED <<ent, data, faults>>

\* Requests on the contents of files, and the time stamps, leave the tree
\* alone; one without the mutex (OPEN) and one with it (ACCESS) stand for all.
PassThrough(t) ==
    \E op \in {"OPEN", "ACCESS"} :
        /\ Enter(t, op)
        /\ Finish(t, Reply(OK))
        /\ UNCHANGED <<ent, data, faults>>

\* A request on a sidecar.
Refuse(t) ==
    \E d \in Dirs, n \in Entries \ Names :
        /\ Present(ent, d)
        /\ isEmuFile(n)
        /\ Enter(t, "GETATTR")
        /\ Finish(t, Reply("EPERM"))
        /\ UNCHANGED <<ent, data, faults>>

emu_chown(a, uid, gid) ==
    [a EXCEPT !.uid = IF uid = NoId THEN @ ELSE uid, !.gid = IF gid = NoId THEN @ ELSE gid]

Chown(t) ==
    \E p \in Existing(ent), uid \in ReqUids, gid \in ReqGids :
        LET dt == dirfile(p)
            a == readAttrs(p, dt)
            b == emu_chown(a, storedUid[uid],
                              storedGid[gid])
        IN  /\ Enter(t, "CHOWN")
            /\ IF a = Torn THEN Finish(t, Reply("EIO"))
               ELSE Continue(t, "open", Call("CHOWN", p, p, attrsFileName(p, dt), b, OK))
            /\ UNCHANGED <<ent, data, faults>>

Chmod(t) ==
    \E p \in Existing(ent), mode \in ReqModes :
        LET dt == dirfile(p)
            a == readAttrs(p, dt)
        IN  /\ Enter(t, "CHMOD")
            /\ IF a = Torn THEN Finish(t, Reply("EIO"))
               ELSE Continue(t, "open", Call("CHMOD", p, p, attrsFileName(p, dt),
                                             [a EXCEPT !.mode = mode], OK))
            /\ UNCHANGED <<ent, data, faults>>

\* The attributes of a new object: a setgid directory passes on its group.
\* When the directory's own cannot be read the object gets no sidecar.
emu_creat_mkdir(t, op, p, sidecar, mode, uid, gid) ==
    LET dirA == readAttrs(dirOf(p), "DIRECTORY")
        a == [mode |-> mode, uid |-> storedUid[uid],
              gid |-> IF "sgid" \in dirA.mode THEN dirA.gid
                      ELSE storedGid[gid]]
    IN  IF dirA = Torn THEN Finish(t, Reply(OK))
        ELSE Continue(t, "open", Call(op, p, p, sidecar, a, OK))

Creat(t) ==
    \E p \in Absent(ent), uid \in ReqUids \ {NoId}, gid \in ReqGids \ {NoId}, mode \in ReqModes,
       op \in {"CREAT", "MKNOD", "SYMLINK"} :
        /\ Enter(t, op)
        /\ CanCreate(Files)
        /\ ent' = Put(ent, p, FreshFile)
        /\ emu_creat_mkdir(t, op, p, attrsFileName(p, "FILE"),
                           IF op = "SYMLINK" THEN linkmode ELSE mode, uid, gid)
        /\ UNCHANGED <<data, faults>>

Mkdir(t) ==
    \E p \in Absent(ent), uid \in ReqUids \ {NoId}, gid \in ReqGids \ {NoId}, mode \in ReqModes :
        /\ Enter(t, "MKDIR")
        /\ CanCreate(Dirs)
        /\ ent' = Put(ent, p, FreshDir)
        /\ emu_creat_mkdir(t, "MKDIR", p, [dir |-> FreshDir, name |-> DirSide], mode, uid, gid)
        /\ UNCHANGED <<data, faults>>

Link(t) ==
    \E p \in FilePaths(ent), q \in Absent(ent) :
        /\ Enter(t, "LINK")
        /\ ent' = link(ent, p, q)
        /\ Continue(t, "link", Call("LINK", p, q, attrsFileName(q, "FILE"), Undef, OK))
        /\ UNCHANGED <<data, faults>>

LinkSidecar(t) ==
    LET c == call[t]
        s == attrsFileName(c.path, "FILE")
    IN  /\ pc[t] = "link"
        /\ ent' = link(ent, s, c.sidecar)
        /\ Finish(t, Reply(IF linkError(ent, s, c.sidecar) = OK THEN OK ELSE "EIO"))
        /\ UNCHANGED <<data, faults>>

Unlink(t) ==
    \E p \in FilePaths(ent) :
        /\ Enter(t, "UNLINK")
        /\ ent' = unlink(ent, p)
        /\ Continue(t, "unlink", Call("UNLINK", p, p, attrsFileName(p, "FILE"), Undef, OK))
        /\ UNCHANGED <<data, faults>>

\* Mutant: the sidecar stays.
UnlinkSidecarKept(t) ==
    /\ pc[t] = "unlink"
    /\ Finish(t, Reply(call[t].err))
    /\ UNCHANGED <<ent, data, faults>>

UnlinkSidecar(t) ==
    /\ pc[t] = "unlink"
    /\ ent' = unlink(ent, call[t].sidecar)
    /\ data' = Sweep(ent', data)
    /\ Finish(t, Reply(call[t].err))
    /\ UNCHANGED faults

\* The sidecar would keep the directory from being empty, so it goes first.
Rmdir(t) ==
    \E p \in DirPaths(ent) \ {RootPath} :
        LET a == readAttrs(p, "DIRECTORY")
            s == attrsFileName(p, "DIRECTORY")
        IN  /\ Enter(t, "RMDIR")
            /\ ent' = unlink(ent, s)
            /\ data' = Sweep(ent', data)
            /\ Continue(t, "rmdir", Call("RMDIR", p, p, s, IF a = Torn THEN Undef ELSE a, OK))
            /\ UNCHANGED faults

\* Mutant: a failed rmdir does not write the sidecar again.
RemoveDirNoRestore(t) ==
    /\ pc[t] = "rmdir"
    /\ ent' = rmdir(ent, call[t].path)
    /\ Finish(t, Reply(rmdirError(ent, call[t].path)))
    /\ UNCHANGED <<data, faults>>

RemoveDir(t) ==
    LET c == call[t]
        err == rmdirError(ent, c.path)
    IN  /\ pc[t] = "rmdir"
        /\ ent' = rmdir(ent, c.path)
        /\ IF err = OK THEN Finish(t, Reply(OK))
           ELSE Continue(t, "open", [c EXCEPT !.err = err])
        /\ UNCHANGED <<data, faults>>

Rename(t) ==
    \E p \in Existing(ent), q \in Paths(ent) :
        LET err == renameError(ent, p, q)
        IN  /\ Enter(t, "RENAME")
            /\ MayRename(ent, p, q)
            /\ ent' = rename(ent, p, q)
            /\ IF err = OK /\ At(ent', q) \in Files
               THEN Continue(t, "rename", Call("RENAME", p, q, attrsFileName(q, "FILE"), Undef, OK))
               ELSE Finish(t, Reply(err))
            /\ UNCHANGED <<data, faults>>

\* Mutant: the sidecar is not renamed with its file.
RenameSidecarKept(t) ==
    /\ pc[t] = "rename"
    /\ Finish(t, Reply(call[t].err))
    /\ UNCHANGED <<ent, data, faults>>

\* The result of the second rename is ignored.
RenameSidecar(t) ==
    LET c == call[t]
    IN  /\ pc[t] = "rename"
        /\ ent' = rename(ent, attrsFileName(c.path, "FILE"), c.sidecar)
        /\ data' = Sweep(ent', data)
        /\ Finish(t, Reply(c.err))
        /\ UNCHANGED faults
-----------------------------------------------------------------------------
(* Faults.  A host without space fails the open or the write of a sidecar: *)
(* only rmdir ignores that.  A crash ends all threads between two calls;   *)
(* the next erlent starts on the tree as it is.                            *)

\* Mutant: the result of writeAttrs is ignored everywhere.
SidecarFaultIgnored(t) ==
    /\ faults < MaxFaults
    /\ pc[t] = "write" \/ (pc[t] = "open" /\ At(ent, call[t].sidecar) = None)
    /\ Finish(t, Reply(call[t].err))
    /\ faults' = faults + 1
    /\ UNCHANGED <<ent, data>>

SidecarFault(t) ==
    /\ faults < MaxFaults
    /\ pc[t] = "write" \/ (pc[t] = "open" /\ At(ent, call[t].sidecar) = None)
    /\ Finish(t, Reply(IF call[t].op = "RMDIR" THEN call[t].err ELSE "EIO"))
    /\ faults' = faults + 1
    /\ UNCHANGED <<ent, data>>

Crash ==
    /\ faults < MaxFaults
    /\ \E t \in Threads : pc[t] # "idle"
    /\ pc' = [t \in Threads |-> "idle"]
    /\ call' = [t \in Threads |-> NoCall]
    /\ mutex' = None
    /\ reply' = [t \in Threads |-> Reply("CRASH")]
    /\ faults' = faults + 1
    /\ UNCHANGED <<ent, data>>

-----------------------------------------------------------------------------
Step(t) ==
    \/ OpenSidecar(t) \/ WriteSidecar(t) \/ LinkSidecar(t) \/ UnlinkSidecar(t)
    \/ RemoveDir(t) \/ RenameSidecar(t)

Request(t) ==
    \/ Getattr(t) \/ Readdir(t) \/ PassThrough(t) \/ Refuse(t)
    \/ Chown(t) \/ Chmod(t) \/ Creat(t) \/ Mkdir(t) \/ Link(t)
    \/ Unlink(t) \/ Rmdir(t) \/ Rename(t)

Next == Crash \/ \E t \in Threads : Request(t) \/ Step(t) \/ SidecarFault(t)

\* A thread inside process() always makes its next system call.
Fairness == \A t \in Threads : WF_vars(Step(t) \/ SidecarFault(t))

Spec == Init /\ [][Next]_vars
FairSpec == Spec /\ Fairness
=============================================================================
