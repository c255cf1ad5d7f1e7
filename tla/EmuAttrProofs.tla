--------------------------- MODULE EmuAttrProofs ---------------------------
(***************************************************************************)
(* Proofs about the attribute emulation, for any number of directories,    *)
(* files, names and threads: its types and its mutex, and then the         *)
(* sidecars, with and without mapped directories: that a request which     *)
(* reports success has set what it was asked to set, that a file moves     *)
(* with its attributes and that, on a new tree, every file has its own     *)
(* sidecar between two requests.                                           *)
(***************************************************************************)
EXTENDS EmuAttrProps, Regions, IdMapProofs

-----------------------------------------------------------------------------
(* Ids *)

\* What a client asks for is stored as it is: chown's "no change" stays that,
\* and any other id makes the round trip of IdsRoundTrip.
LEMMA StoredIds ==
    /\ \A id \in ReqUids : storedUid[id] = id /\ id \in Id
    /\ \A id \in ReqGids : storedGid[id] = id /\ id \in Id
<1>1. NoId \in Id
  BY IdMapAssumption DEF NoId, Id
<1>2. ASSUME NEW m \in Seq(Mapping), KernelAccepts(m), NEW id \in InnerIds(m) \cup {NoId}
      PROVE  toInner(kernelOut(id, m), m) = id /\ id \in Id
  <2>1. CASE id = NoId
    BY <2>1, <1>1 DEF toInner, kernelOut
  <2>2. CASE id \in InnerIds(m)
    BY <1>2, <2>2, IdsRoundTrip
  <2> QED
    BY <1>2, <2>1, <2>2
<1>3. \A id \in ReqUids : storedUid[id] = id /\ id \in Id
  BY <1>2, EmuAttrAssumption DEF storedUid
<1>4. \A id \in ReqGids : storedGid[id] = id /\ id \in Id
  BY <1>2, EmuAttrAssumption DEF storedGid
<1> QED
  BY <1>3, <1>4

LEMMA IdZero == 0 \in Id
  BY IdMapAssumption DEF Id

-----------------------------------------------------------------------------
(* Trees and paths *)

LEMMA EntryNames ==
    /\ Names \subseteq Entries
    /\ DirSide \in Entries \ Names
    /\ \A n \in Names : SideOf(n) \in Entries \ Names
    /\ Dot \notin Entries
    /\ Sides \cap Objects = {}
    /\ None \notin Sides /\ None \notin Objects
  BY EmuAttrAssumption, HostTreeAssumption DEF Entries, Objects

\* Changing one entry keeps names for objects and sidecar names for sidecars.
LEMMA PutOK ==
    ASSUME NEW T, TreeOK(T), NEW p, NEW o,
           \/ p \in NamedPath /\ o \in Objects \cup {None}
           \/ p \in SidePath /\ o \in Sides \cup {None}
    PROVE  TreeOK(Put(T, p, o))
<1>1. p.dir \in Dirs /\ p.name \in Entries
  BY EntryNames DEF NamedPath, SidePath
<1>2. Put(T, p, o) = [T EXCEPT ![p.dir] = [T[p.dir] EXCEPT ![p.name] = o]]
  BY DEF Put
<1>3. T[p.dir] \in [Entries -> Objects \cup Sides \cup {None}]
  BY <1>1 DEF TreeOK
<1>4. [T[p.dir] EXCEPT ![p.name] = o] \in [Entries -> Objects \cup Sides \cup {None}]
  BY <1>3
<1>5. Put(T, p, o) \in [Dirs -> [Entries -> Objects \cup Sides \cup {None}]]
  BY <1>1, <1>2, <1>4 DEF TreeOK
<1>6. ASSUME NEW d \in Dirs, NEW n \in Entries
      PROVE  Put(T, p, o)[d][n] = IF d = p.dir /\ n = p.name THEN o ELSE T[d][n]
  BY <1>1, <1>2, <1>3 DEF TreeOK
<1>7. \A d \in Dirs, n \in Names : Put(T, p, o)[d][n] \in Objects \cup {None}
  BY <1>6, EntryNames DEF TreeOK, NamedPath, SidePath
<1>8. \A d \in Dirs, n \in Entries \ Names : Put(T, p, o)[d][n] \in Sides \cup {None}
  BY <1>6, EntryNames DEF TreeOK, NamedPath, SidePath
<1> QED
  BY <1>5, <1>7, <1>8 DEF TreeOK

\* What a path of each kind leads to.
LEMMA AtOK ==
    ASSUME NEW T, TreeOK(T)
    PROVE  /\ \A p \in NamedPath : At(T, p) \in Objects \cup {None}
           /\ \A p \in SidePath : At(T, p) \in Sides \cup {None}
           /\ \A p \in AnyPath : At(T, p) \in Objects \cup {None}
  BY EntryNames DEF At, TreeOK, NamedPath, SidePath, AnyPath, Objects

LEMMA PathSets ==
    /\ RootPath \in AnyPath /\ At(ent, RootPath) = Root
    /\ NamedPath \subseteq AnyPath
    /\ Paths(ent) \subseteq NamedPath
    /\ Existing(ent) \subseteq NamedPath \cup {RootPath}
    /\ Absent(ent) \subseteq NamedPath
    /\ FilePaths(ent) \subseteq NamedPath
    /\ DirPaths(ent) \subseteq NamedPath \cup {RootPath}
    /\ \A p \in FilePaths(ent) : At(ent, p) \in Files
    /\ \A p \in DirPaths(ent) : At(ent, p) \in Dirs
    /\ \A p \in Existing(ent) : p.name \in Names \/ At(ent, p) \in Dirs
<1>1. RootPath \in AnyPath /\ At(ent, RootPath) = Root /\ Root \in Dirs
  BY HostTreeAssumption DEF RootPath, AnyPath, At
<1>2. Paths(ent) \subseteq NamedPath /\ NamedPath \subseteq AnyPath
  BY DEF Paths, NamedPath, AnyPath
<1>3. Root \notin Files
  BY <1>1, HostTreeAssumption
<1>4. \A p \in Existing(ent) : p.name \in Names \/ At(ent, p) \in Dirs
  BY <1>1, <1>2 DEF Existing, NamedPath
<1> QED
  BY <1>1, <1>2, <1>3, <1>4 DEF Existing, Absent, FilePaths, DirPaths

LEMMA FileSidecar ==
    ASSUME NEW p \in NamedPath
    PROVE  attrsFileName(p, "FILE") \in SidePath
  BY EntryNames DEF attrsFileName, NamedPath, SidePath

LEMMA DirSidecar ==
    ASSUME NEW p, At(ent, p) \in Dirs
    PROVE  attrsFileName(p, "DIRECTORY") \in SidePath
  BY EntryNames DEF attrsFileName, SidePath

LEMMA ObjectSidecar ==
    ASSUME NEW p \in Existing(ent)
    PROVE  attrsFileName(p, dirfile(p)) \in SidePath
<1>1. CASE At(ent, p) \in Dirs
  BY <1>1, DirSidecar DEF dirfile
<1>2. CASE At(ent, p) \notin Dirs
  <2>1. p \in NamedPath
    BY <1>2, PathSets, HostTreeAssumption
  <2> QED
    BY <1>2, <2>1, FileSidecar DEF dirfile
<1> QED
  BY <1>1, <1>2

LEMMA DefaultAttrs == \A o : defaultAttrs(o) \in Attrs
<1>1. HostMode \in SUBSET Bits
  BY EmuAttrAssumption
<1>2. filemode \in SUBSET Bits /\ dirmode \in SUBSET Bits
  BY DEF filemode, dirmode, Bits
<1>3. \A o : hostMode(o) \in SUBSET Bits
  BY <1>1, <1>2 DEF hostMode
<1> QED
  BY <1>3, IdZero DEF defaultAttrs, Attrs

LEMMA ReadOK ==
    ASSUME TypeOK, NEW p, NEW dt, attrsFileName(p, dt) \in SidePath
    PROVE  readAttrs(p, dt) \in Attrs \cup {Torn}
<1>1. At(ent, attrsFileName(p, dt)) \in Sides \cup {None}
  BY AtOK DEF TypeOK
<1> QED
  BY <1>1, DefaultAttrs DEF readAttrs, TypeOK

LEMMA SweepOK ==
    ASSUME NEW T, NEW D \in [Sides -> Attrs \cup {Torn}]
    PROVE  Sweep(T, D) \in [Sides -> Attrs \cup {Torn}]
  BY DEF Sweep

-----------------------------------------------------------------------------
(* Threads *)

LEMMA ContinueOK ==
    ASSUME ThreadsOK, NEW t \in Threads, NEW next \in Steps, NEW c \in CallType,
           CallOK(next, c), Continue(t, next, c)
    PROVE  ThreadsOK'
<1>1. mutex' \in Threads \cup {None}
  BY DEF Continue, ThreadsOK
<1>2. pc' \in [Threads -> Steps \cup {"idle"}] /\ call' \in [Threads -> CallType]
  BY DEF Continue, ThreadsOK
<1>3. \A u \in Threads : CallOK(pc'[u], call'[u])
  BY DEF Continue, ThreadsOK
<1> QED
  BY <1>1, <1>2, <1>3 DEF ThreadsOK, CallOK

LEMMA NoCallOK == NoCall \in CallType /\ CallOK("idle", NoCall)
<1>1. RootPath \in AnyPath
  BY PathSets
<1> QED
  BY <1>1 DEF NoCall, Call, CallType, CallOK, Steps, Ops

LEMMA FinishOK ==
    ASSUME ThreadsOK, NEW t \in Threads, NEW rep, Finish(t, rep)
    PROVE  ThreadsOK'
<1>1. mutex' \in Threads \cup {None}
  BY DEF Finish, ThreadsOK
<1>2. pc' \in [Threads -> Steps \cup {"idle"}] /\ call' \in [Threads -> CallType]
  BY NoCallOK DEF Finish, ThreadsOK
<1>3. \A u \in Threads : CallOK(pc'[u], call'[u])
  BY NoCallOK DEF Finish, ThreadsOK
<1> QED
  BY <1>1, <1>2, <1>3 DEF ThreadsOK, CallOK

\* A new call on a client's path and a sidecar.
LEMMA CallIsOK ==
    ASSUME NEW op \in Ops, NEW p \in AnyPath, NEW q \in AnyPath, NEW s \in SidePath,
           NEW a \in Attrs \cup {Undef}
    PROVE  /\ Call(op, p, q, s, a, OK) \in CallType
           /\ CallOK("open", Call(op, p, q, s, a, OK))
           /\ p \in NamedPath => \A step \in Steps \ {"write"} :
                                    CallOK(step, Call(op, p, q, s, a, OK))
  BY DEF Call, CallType, CallOK

-----------------------------------------------------------------------------
(* Type correctness, one lemma for each kind of step *)

LEMMA InitType == Init => TypeOK
<1> SUFFICES ASSUME Init
             PROVE  TypeOK
  OBVIOUS
<1>1. TreeOK(ent)
  <2>1. \A d \in Dirs : InitEnt[d] \in [Entries -> Objects \cup {None}]
    BY EmuAttrAssumption
  <2>2. \A d \in Dirs, n \in Names : InitEnt[d][n] \in Objects \cup {None}
    BY <2>1, EntryNames
  <2>3. \A d \in Dirs, n \in Entries \ Names : InitEnt[d][n] \in Sides \cup {None}
    BY EmuAttrAssumption
  <2>4. InitEnt \in [Dirs -> [Entries -> Objects \cup Sides \cup {None}]]
    BY EmuAttrAssumption
  <2> QED
    BY <2>2, <2>3, <2>4 DEF TreeOK, Init
<1>2. data \in [Sides -> Attrs \cup {Torn}]
  BY DEF Init
<1>3. ThreadsOK
  BY NoCallOK DEF ThreadsOK, Init
<1>4. faults \in 0 .. MaxFaults
  BY EmuAttrAssumption DEF Init
<1> QED
  BY <1>1, <1>2, <1>3, <1>4 DEF TypeOK

\* The first step of a request that sets attributes: only the thread changes.
LEMMA SetAttrsType ==
    ASSUME TypeOK, NEW t \in Threads, Chown(t) \/ Chmod(t)
    PROVE  TypeOK'
<1>1. CASE Chown(t)
  <2>1. PICK p \in Existing(ent), uid \in ReqUids, gid \in ReqGids :
          LET dt == dirfile(p)
              a == readAttrs(p, dt)
              b == emu_chown(a, storedUid[uid], storedGid[gid])
          IN  /\ IF a = Torn THEN Finish(t, Reply("EIO"))
                 ELSE Continue(t, "open", Call("CHOWN", p, p, attrsFileName(p, dt), b, OK))
              /\ UNCHANGED <<ent, data, faults>>
    BY <1>1 DEF Chown
  <2> DEFINE a == readAttrs(p, dirfile(p))
             b == emu_chown(a, storedUid[uid], storedGid[gid])
             s == attrsFileName(p, dirfile(p))
             c == Call("CHOWN", p, p, s, b, OK)
  <2>2. s \in SidePath /\ p \in AnyPath
    BY ObjectSidecar, PathSets
  <2>3. a \in Attrs \cup {Torn}
    BY <2>2, ReadOK
  <2>4. CASE a = Torn
    BY <2>1, <2>4, FinishOK DEF TypeOK, TreeOK
  <2>5. CASE a # Torn
    <3>1. storedUid[uid] \in Id /\ storedGid[gid] \in Id
      BY StoredIds
    <3>2. b \in Attrs
      BY <2>3, <2>5, <3>1 DEF emu_chown, Attrs
    <3>3. c \in CallType /\ CallOK("open", c)
      BY <2>2, <3>2, CallIsOK DEF Ops
    <3>4. Continue(t, "open", c)
      BY <2>1, <2>5
    <3>5. ThreadsOK'
      BY <3>3, <3>4, ContinueOK DEF TypeOK, Steps
    <3> QED
      BY <2>1, <3>5 DEF TypeOK, TreeOK
  <2> QED
    BY <2>4, <2>5
<1>2. CASE Chmod(t)
  <2>1. PICK p \in Existing(ent), mode \in ReqModes :
          LET dt == dirfile(p)
              a == readAttrs(p, dt)
          IN  /\ IF a = Torn THEN Finish(t, Reply("EIO"))
                 ELSE Continue(t, "open", Call("CHMOD", p, p, attrsFileName(p, dt),
                                               [a EXCEPT !.mode = mode], OK))
              /\ UNCHANGED <<ent, data, faults>>
    BY <1>2 DEF Chmod
  <2> DEFINE a == readAttrs(p, dirfile(p))
             b == [a EXCEPT !.mode = mode]
             s == attrsFileName(p, dirfile(p))
             c == Call("CHMOD", p, p, s, b, OK)
  <2>2. s \in SidePath /\ p \in AnyPath
    BY ObjectSidecar, PathSets
  <2>3. a \in Attrs \cup {Torn}
    BY <2>2, ReadOK
  <2>4. CASE a = Torn
    BY <2>1, <2>4, FinishOK DEF TypeOK, TreeOK
  <2>5. CASE a # Torn
    <3>1. mode \in SUBSET Bits
      BY EmuAttrAssumption
    <3>2. b \in Attrs
      BY <2>3, <2>5, <3>1 DEF Attrs
    <3>3. c \in CallType /\ CallOK("open", c)
      BY <2>2, <3>2, CallIsOK DEF Ops
    <3>4. Continue(t, "open", c)
      BY <2>1, <2>5
    <3>5. ThreadsOK'
      BY <3>3, <3>4, ContinueOK DEF TypeOK, Steps
    <3> QED
      BY <2>1, <3>5 DEF TypeOK, TreeOK
  <2> QED
    BY <2>4, <2>5
<1> QED
  BY <1>1, <1>2

\* The attributes of a new object, whatever the state of its directory's.
LEMMA NewObjectType ==
    ASSUME TypeOK, NEW t \in Threads, NEW op \in Ops, NEW p \in NamedPath, NEW s \in SidePath,
           NEW mode \in SUBSET Bits, NEW uid \in ReqUids, NEW gid \in ReqGids,
           emu_creat_mkdir(t, op, p, s, mode, uid, gid)
    PROVE  ThreadsOK'
<1> DEFINE dirA == readAttrs(dirOf(p), "DIRECTORY")
           a == [mode |-> mode, uid |-> storedUid[uid],
                 gid |-> IF "sgid" \in dirA.mode THEN dirA.gid ELSE storedGid[gid]]
           c == Call(op, p, p, s, a, OK)
<1>1. At(ent, dirOf(p)) \in Dirs
  BY DEF dirOf, At, NamedPath
<1>2. dirA \in Attrs \cup {Torn}
  BY <1>1, DirSidecar, ReadOK
<1>3. CASE dirA = Torn
  BY <1>3, FinishOK DEF emu_creat_mkdir, TypeOK
<1>4. CASE dirA # Torn
  <2>1. storedUid[uid] \in Id /\ storedGid[gid] \in Id
    BY StoredIds
  <2>2. a \in Attrs
    BY <1>2, <1>4, <2>1 DEF Attrs
  <2>3. c \in CallType /\ CallOK("open", c)
    BY <2>2, PathSets, CallIsOK
  <2>4. Continue(t, "open", c)
    BY <1>4 DEF emu_creat_mkdir
  <2> QED
    BY <2>3, <2>4, ContinueOK DEF TypeOK, Steps
<1> QED
  BY <1>3, <1>4

LEMMA FreshInodes ==
    /\ CanCreate(Files) => FreshFile \in Files \ Preexisting
    /\ CanCreate(Dirs) => FreshDir \in Dirs \ Preexisting
    /\ CanCreate(Sides) => FreshSide \in Sides
  BY DEF CanCreate, FreshFile, FreshDir, FreshSide

LEMMA CreateType ==
    ASSUME TypeOK, NEW t \in Threads, Creat(t) \/ Mkdir(t)
    PROVE  TypeOK'
<1>1. CASE Creat(t)
  <2>1. PICK p \in Absent(ent), uid \in ReqUids \ {NoId}, gid \in ReqGids \ {NoId},
             mode \in ReqModes, op \in {"CREAT", "MKNOD", "SYMLINK"} :
          /\ CanCreate(Files)
          /\ ent' = Put(ent, p, FreshFile)
          /\ emu_creat_mkdir(t, op, p, attrsFileName(p, "FILE"),
                             IF op = "SYMLINK" THEN linkmode ELSE mode, uid, gid)
          /\ UNCHANGED <<data, faults>>
    BY <1>1 DEF Creat
  <2>2. p \in NamedPath /\ attrsFileName(p, "FILE") \in SidePath
    BY PathSets, FileSidecar
  <2>3. (IF op = "SYMLINK" THEN linkmode ELSE mode) \in SUBSET Bits
    BY EmuAttrAssumption DEF linkmode, Bits
  <2>4. ThreadsOK'
    BY <2>1, <2>2, <2>3, NewObjectType DEF Ops
  <2>5. FreshFile \in Objects
    BY <2>1, FreshInodes DEF Objects
  <2>6. TreeOK(ent')
    BY <2>1, <2>2, <2>5, PutOK DEF TypeOK
  <2> QED
    BY <2>1, <2>4, <2>6 DEF TypeOK, TreeOK
<1>2. CASE Mkdir(t)
  <2>1. PICK p \in Absent(ent), uid \in ReqUids \ {NoId}, gid \in ReqGids \ {NoId},
             mode \in ReqModes :
          /\ CanCreate(Dirs)
          /\ ent' = Put(ent, p, FreshDir)
          /\ emu_creat_mkdir(t, "MKDIR", p, [dir |-> FreshDir, name |-> DirSide],
                             mode, uid, gid)
          /\ UNCHANGED <<data, faults>>
    BY <1>2 DEF Mkdir
  <2>2. p \in NamedPath
    BY PathSets
  <2>3. mode \in SUBSET Bits
    BY EmuAttrAssumption
  <2>4. FreshDir \in Dirs
    BY <2>1, FreshInodes
  <2>5. [dir |-> FreshDir, name |-> DirSide] \in SidePath
    BY <2>4, EntryNames DEF SidePath
  <2>6. ThreadsOK'
    BY <2>1, <2>2, <2>3, <2>5, NewObjectType DEF Ops
  <2>7. TreeOK(ent')
    BY <2>1, <2>2, <2>4, PutOK DEF TypeOK, Objects
  <2> QED
    BY <2>1, <2>6, <2>7 DEF TypeOK, TreeOK
<1> QED
  BY <1>1, <1>2

LEMMA LinkType ==
    ASSUME TypeOK, NEW t \in Threads, Link(t) \/ Unlink(t) \/ Rename(t)
    PROVE  TypeOK'
<1>1. CASE Link(t)
  <2>1. PICK p \in FilePaths(ent), q \in Absent(ent) :
          /\ ent' = link(ent, p, q)
          /\ Continue(t, "link", Call("LINK", p, q, attrsFileName(q, "FILE"), Undef, OK))
          /\ UNCHANGED <<data, faults>>
    BY <1>1 DEF Link
  <2>2. p \in NamedPath /\ q \in NamedPath /\ At(ent, p) \in Objects
    BY PathSets DEF Objects
  <2>3. TreeOK(ent')
    BY <2>1, <2>2, PutOK DEF link, TypeOK
  <2>4. ThreadsOK'
    BY <2>1, <2>2, FileSidecar, PathSets, CallIsOK, ContinueOK DEF TypeOK, Steps, Ops
  <2> QED
    BY <2>1, <2>3, <2>4 DEF TypeOK, TreeOK
<1>2. CASE Unlink(t)
  <2>1. PICK p \in FilePaths(ent) :
          /\ ent' = unlink(ent, p)
          /\ Continue(t, "unlink", Call("UNLINK", p, p, attrsFileName(p, "FILE"), Undef, OK))
          /\ UNCHANGED <<data, faults>>
    BY <1>2 DEF Unlink
  <2>2. p \in NamedPath
    BY PathSets
  <2>3. TreeOK(ent')
    BY <2>1, <2>2, PutOK DEF unlink, TypeOK
  <2>4. ThreadsOK'
    BY <2>1, <2>2, FileSidecar, PathSets, CallIsOK, ContinueOK DEF TypeOK, Steps, Ops
  <2> QED
    BY <2>1, <2>3, <2>4 DEF TypeOK, TreeOK
<1>3. CASE Rename(t)
  <2>1. PICK p \in Existing(ent), q \in Paths(ent) :
          LET err == renameError(ent, p, q)
          IN  /\ MayRename(ent, p, q)
              /\ ent' = rename(ent, p, q)
              /\ IF err = OK /\ At(ent', q) \in Files
                 THEN Continue(t, "rename",
                               Call("RENAME", p, q, attrsFileName(q, "FILE"), Undef, OK))
                 ELSE Finish(t, Reply(err))
              /\ UNCHANGED <<data, faults>>
    BY <1>3 DEF Rename
  <2>2. p \in NamedPath /\ q \in NamedPath /\ p \in AnyPath /\ q \in AnyPath
    BY <2>1, PathSets DEF MayRename
  <2>3. TreeOK(ent')
    <3>1. At(ent, p) \in Objects \cup {None}
      BY <2>2, AtOK DEF TypeOK
    <3>2. TreeOK(Put(ent, q, At(ent, p)))
      BY <2>2, <3>1, PutOK DEF TypeOK
    <3>3. TreeOK(Put(Put(ent, q, At(ent, p)), p, None))
      BY <2>2, <3>2, PutOK
    <3> QED
      BY <2>1, <3>3 DEF rename, TypeOK
  <2>4. ThreadsOK'
    <3> DEFINE c == Call("RENAME", p, q, attrsFileName(q, "FILE"), Undef, OK)
    <3>1. c \in CallType /\ CallOK("rename", c)
      BY <2>2, FileSidecar, CallIsOK DEF Steps, Ops
    <3>2. Continue(t, "rename", c) \/ \E rep : Finish(t, rep)
      BY <2>1
    <3> QED
      BY <3>1, <3>2, ContinueOK, FinishOK DEF TypeOK, Steps
  <2> QED
    BY <2>1, <2>3, <2>4 DEF TypeOK, TreeOK
<1> QED
  BY <1>1, <1>2, <1>3

LEMMA RmdirType ==
    ASSUME TypeOK, NEW t \in Threads, Rmdir(t)
    PROVE  TypeOK'
<1>1. PICK p \in DirPaths(ent) \ {RootPath} :
        LET a == readAttrs(p, "DIRECTORY")
            s == attrsFileName(p, "DIRECTORY")
        IN  /\ ent' = unlink(ent, s)
            /\ data' = Sweep(ent', data)
            /\ Continue(t, "rmdir", Call("RMDIR", p, p, s, IF a = Torn THEN Undef ELSE a, OK))
            /\ UNCHANGED faults
  BY DEF Rmdir
<1> DEFINE a == readAttrs(p, "DIRECTORY")
           s == attrsFileName(p, "DIRECTORY")
           b == IF a = Torn THEN Undef ELSE a
           c == Call("RMDIR", p, p, s, b, OK)
<1>2. p \in NamedPath /\ p \in AnyPath /\ At(ent, p) \in Dirs
  BY PathSets
<1>3. s \in SidePath
  BY <1>2, DirSidecar
<1>4. b \in Attrs \cup {Undef}
  BY <1>3, ReadOK
<1>5. c \in CallType /\ CallOK("rmdir", c)
  BY <1>2, <1>3, <1>4, CallIsOK DEF Steps, Ops
<1>6. ThreadsOK'
  BY <1>1, <1>5, ContinueOK DEF TypeOK, Steps
<1>7. TreeOK(ent')
  BY <1>1, <1>3, PutOK DEF unlink, TypeOK
<1>8. data' \in [Sides -> Attrs \cup {Torn}]
  BY <1>1, SweepOK DEF TypeOK
<1> QED
  BY <1>1, <1>6, <1>7, <1>8 DEF TypeOK, TreeOK

\* The steps after the first one of a request.
LEMMA StepType ==
    ASSUME TypeOK, NEW t \in Threads, Step(t)
    PROVE  TypeOK'
<1> DEFINE c == call[t]
<1>1. c \in CallType /\ CallOK(pc[t], c)
  BY DEF TypeOK, ThreadsOK
<1>2. CASE OpenSidecar(t)
  <2> DEFINE s == IF At(ent, c.sidecar) = None THEN FreshSide ELSE At(ent, c.sidecar)
             d == [c EXCEPT !.fd = s]
  <2>1. c.sidecar \in SidePath
    BY <1>1, <1>2 DEF OpenSidecar, CallOK
  <2>2. s \in Sides
    BY <1>2, <2>1, AtOK, FreshInodes DEF OpenSidecar, TypeOK
  <2>3. TreeOK(ent')
    BY <1>2, <2>1, <2>2, PutOK DEF OpenSidecar, TypeOK
  <2>4. data' \in [Sides -> Attrs \cup {Torn}]
    BY <1>2, <2>2 DEF OpenSidecar, TypeOK
  <2>5. d \in CallType /\ CallOK("write", d)
    BY <1>1, <2>1, <2>2 DEF CallType, CallOK
  <2>6. Continue(t, "write", d)
    BY <1>2 DEF OpenSidecar
  <2>7. ThreadsOK'
    BY <2>5, <2>6, ContinueOK DEF TypeOK, Steps
  <2> QED
    BY <1>2, <2>3, <2>4, <2>7 DEF OpenSidecar, TypeOK, TreeOK
<1>3. CASE WriteSidecar(t)
  <2>1. PICK a \in IF c.attrs = Undef THEN Garbage ELSE {c.attrs} :
            data' = [data EXCEPT ![c.fd] = a]
    BY <1>3 DEF WriteSidecar
  <2>2. a \in Attrs
    BY <1>1, <2>1, EmuAttrAssumption DEF CallType
  <2>3. data' \in [Sides -> Attrs \cup {Torn}]
    BY <2>1, <2>2 DEF TypeOK
  <2>4. ThreadsOK'
    BY <1>3, FinishOK DEF WriteSidecar, TypeOK
  <2> QED
    BY <1>3, <2>3, <2>4 DEF WriteSidecar, TypeOK, TreeOK
<1>4. CASE LinkSidecar(t)
  <2> DEFINE s == attrsFileName(c.path, "FILE")
  <2>1. c.sidecar \in SidePath /\ s \in SidePath
    BY <1>1, <1>4, FileSidecar DEF LinkSidecar, CallOK
  <2>2. At(ent, s) \in Sides \cup {None}
    BY <2>1, AtOK DEF TypeOK
  <2>3. TreeOK(ent')
    BY <1>4, <2>1, <2>2, PutOK DEF LinkSidecar, link, TypeOK
  <2>4. ThreadsOK'
    BY <1>4, FinishOK DEF LinkSidecar, TypeOK
  <2> QED
    BY <1>4, <2>3, <2>4 DEF LinkSidecar, TypeOK, TreeOK
<1>5. CASE UnlinkSidecar(t)
  <2>1. c.sidecar \in SidePath
    BY <1>1, <1>5 DEF UnlinkSidecar, CallOK
  <2>2. TreeOK(ent')
    BY <1>5, <2>1, PutOK DEF UnlinkSidecar, unlink, TypeOK
  <2>3. data' \in [Sides -> Attrs \cup {Torn}]
    BY <1>5, SweepOK DEF UnlinkSidecar, TypeOK
  <2>4. ThreadsOK'
    BY <1>5, FinishOK DEF UnlinkSidecar, TypeOK
  <2> QED
    BY <1>5, <2>2, <2>3, <2>4 DEF UnlinkSidecar, TypeOK, TreeOK
<1>6. CASE RemoveDir(t)
  <2> DEFINE err == rmdirError(ent, c.path)
             d == [c EXCEPT !.err = err]
  <2>1. c.path \in NamedPath /\ c.sidecar \in SidePath
    BY <1>1, <1>6 DEF RemoveDir, CallOK
  <2>2. TreeOK(ent')
    BY <1>6, <2>1, PutOK DEF RemoveDir, rmdir, TypeOK
  <2>3. err \in {OK, "ENOTEMPTY"}
    BY DEF rmdirError
  <2>4. d \in CallType /\ CallOK("open", d)
    BY <1>1, <2>1, <2>3 DEF CallType, CallOK
  <2>5. Continue(t, "open", d) \/ Finish(t, Reply(OK))
    BY <1>6 DEF RemoveDir
  <2>6. ThreadsOK'
    BY <2>4, <2>5, ContinueOK, FinishOK DEF TypeOK, Steps
  <2> QED
    BY <1>6, <2>2, <2>6 DEF RemoveDir, TypeOK, TreeOK
<1>7. CASE RenameSidecar(t)
  <2> DEFINE s == attrsFileName(c.path, "FILE")
  <2>1. c.sidecar \in SidePath /\ s \in SidePath
    BY <1>1, <1>7, FileSidecar DEF RenameSidecar, CallOK
  <2>2. At(ent, s) \in Sides \cup {None}
    BY <2>1, AtOK DEF TypeOK
  <2>3. TreeOK(Put(ent, c.sidecar, At(ent, s)))
    BY <2>1, <2>2, PutOK DEF TypeOK
  <2>4. TreeOK(ent')
    BY <1>7, <2>1, <2>3, PutOK DEF RenameSidecar, rename, TypeOK
  <2>5. data' \in [Sides -> Attrs \cup {Torn}]
    BY <1>7, SweepOK DEF RenameSidecar, TypeOK
  <2>6. ThreadsOK'
    BY <1>7, FinishOK DEF RenameSidecar, TypeOK
  <2> QED
    BY <1>7, <2>4, <2>5, <2>6 DEF RenameSidecar, TypeOK, TreeOK
<1> QED
  BY <1>2, <1>3, <1>4, <1>5, <1>6, <1>7 DEF Step

\* Requests of one system call, or of none that changes the host tree.
LEMMA ReadType ==
    ASSUME TypeOK, NEW t \in Threads,
           Getattr(t) \/ Readdir(t) \/ PassThrough(t) \/ Refuse(t)
    PROVE  TypeOK'
<1>1. (\E rep : Finish(t, rep)) /\ UNCHANGED <<ent, data, faults>>
  BY DEF Getattr, Readdir, PassThrough, Refuse
<1> QED
  BY <1>1, FinishOK DEF TypeOK, TreeOK

LEMMA FaultType ==
    ASSUME TypeOK, Crash \/ \E t \in Threads : SidecarFault(t)
    PROVE  TypeOK'
<1>1. faults' \in 0 .. MaxFaults
  BY EmuAttrAssumption DEF Crash, SidecarFault, TypeOK
<1>2. CASE Crash
  <2>1. ThreadsOK'
    BY <1>2, NoCallOK DEF Crash, ThreadsOK, CallOK
  <2> QED
    BY <1>1, <1>2, <2>1 DEF Crash, TypeOK, TreeOK
<1>3. CASE \E t \in Threads : SidecarFault(t)
  BY <1>1, <1>3, FinishOK DEF SidecarFault, TypeOK, TreeOK
<1> QED
  BY <1>2, <1>3

LEMMA NextType == TypeOK /\ [Next]_vars => TypeOK'
<1> SUFFICES ASSUME TypeOK, [Next]_vars
             PROVE  TypeOK'
  OBVIOUS
<1>1. CASE Crash
  BY <1>1, FaultType
<1>2. ASSUME NEW t \in Threads, Request(t)
      PROVE  TypeOK'
  BY <1>2, ReadType, SetAttrsType, CreateType, LinkType, RmdirType DEF Request
<1>3. ASSUME NEW t \in Threads, Step(t)
      PROVE  TypeOK'
  BY <1>3, StepType
<1>4. ASSUME NEW t \in Threads, SidecarFault(t)
      PROVE  TypeOK'
  BY <1>4, FaultType
<1>5. CASE UNCHANGED vars
  BY <1>5 DEF vars, TypeOK, TreeOK, ThreadsOK, CallOK
<1> QED
  BY <1>1, <1>2, <1>3, <1>4, <1>5 DEF Next

\* Under every interleaving and every crash, the entries named like sidecars
\* hold sidecars and only those, and every thread inside a request knows the
\* sidecar it will touch (local.hh:93-111, local.cc:110-306).
THEOREM TypeCorrect == Spec => []TypeOK
<1>1. Init => TypeOK
  BY InitType
<1>2. TypeOK /\ [Next]_vars => TypeOK'
  BY NextType
<1> QED
  BY <1>1, <1>2, PTL DEF Spec

-----------------------------------------------------------------------------
(* Mutual exclusion *)

\* A request that goes on has the mutex, or could take it.
LEMMA ContinueInside ==
    ASSUME TypeOK, OneInside, NEW t \in Threads, NEW next \in Steps, NEW c,
           needsLock(c.op), mutex = None \/ Busy(t), Continue(t, next, c)
    PROVE  OneInside'
  BY EmuAttrAssumption DEF Continue, OneInside, Busy, TypeOK, ThreadsOK, Steps

LEMMA FinishInside ==
    ASSUME TypeOK, OneInside, NEW t \in Threads, NEW rep, Finish(t, rep)
    PROVE  OneInside'
  BY EmuAttrAssumption DEF Finish, OneInside, Busy, TypeOK, ThreadsOK

\* Every request that lasts longer than one system call needs the mutex.
LEMMA RequestInside ==
    ASSUME TypeOK, OneInside, NEW t \in Threads, Request(t)
    PROVE  OneInside'
<1>1. \/ \E rep : Finish(t, rep)
      \/ \E next \in Steps, op \in Ops \ {"NONE"} : \E p, q, s, a, err :
            Continue(t, next, Call(op, p, q, s, a, err)) /\ Enter(t, op)
  <2>1. CASE Getattr(t) \/ Readdir(t) \/ PassThrough(t) \/ Refuse(t)
    BY <2>1 DEF Getattr, Readdir, PassThrough, Refuse
  <2>2. CASE Chown(t)
    BY <2>2 DEF Chown, Steps, Ops
  <2>3. CASE Chmod(t)
    BY <2>3 DEF Chmod, Steps, Ops
  <2>4. CASE Creat(t)
    BY <2>4 DEF Creat, emu_creat_mkdir, Steps, Ops
  <2>5. CASE Mkdir(t)
    BY <2>5 DEF Mkdir, emu_creat_mkdir, Steps, Ops
  <2>6. CASE Link(t)
    BY <2>6 DEF Link, Steps, Ops
  <2>7. CASE Unlink(t)
    BY <2>7 DEF Unlink, Steps, Ops
  <2>8. CASE Rmdir(t)
    BY <2>8 DEF Rmdir, Steps, Ops
  <2>9. CASE Rename(t)
    BY <2>9 DEF Rename, Steps, Ops
  <2> QED
    BY <2>1, <2>2, <2>3, <2>4, <2>5, <2>6, <2>7, <2>8, <2>9 DEF Request
<1>2. CASE \E rep : Finish(t, rep)
  BY <1>2, FinishInside
<1>3. ASSUME NEW next \in Steps, NEW op \in Ops \ {"NONE"}, NEW p, NEW q, NEW s, NEW a, NEW err,
             Continue(t, next, Call(op, p, q, s, a, err)), Enter(t, op)
      PROVE  OneInside'
  <2>1. needsLock(op)
    BY DEF Ops, needsLock
  <2>2. mutex = None
    BY <1>3, <2>1 DEF Enter
  <2>3. needsLock(Call(op, p, q, s, a, err).op)
    BY <2>1 DEF Call
  <2> QED
    BY <1>3, <2>2, <2>3, ContinueInside
<1> QED
  BY <1>1, <1>2, <1>3

LEMMA StepInside ==
    ASSUME TypeOK, OneInside, NEW t \in Threads, Step(t)
    PROVE  OneInside'
<1>1. Busy(t)
  BY DEF Step, OpenSidecar, WriteSidecar, LinkSidecar, UnlinkSidecar, RemoveDir,
         RenameSidecar, Busy
<1>2. needsLock(call[t].op)
  BY DEF TypeOK, ThreadsOK, CallType, Ops, needsLock
<1>3. \/ \E rep : Finish(t, rep)
      \/ \E next \in Steps : \E c : Continue(t, next, c) /\ c.op = call[t].op
  <2>1. call[t] \in CallType
    BY DEF TypeOK, ThreadsOK
  <2>2. CASE OpenSidecar(t)
    <3> DEFINE c == call[t]
               s == IF At(ent, c.sidecar) = None THEN FreshSide ELSE At(ent, c.sidecar)
               d == [c EXCEPT !.fd = s]
    <3>1. Continue(t, "write", d) /\ d.op = call[t].op
      BY <2>1, <2>2 DEF OpenSidecar, CallType
    <3> QED
      BY <3>1 DEF Steps
  <2>3. CASE RemoveDir(t)
    <3> DEFINE c == call[t]
               d == [c EXCEPT !.err = rmdirError(ent, c.path)]
    <3>1. Finish(t, Reply(OK)) \/ Continue(t, "open", d)
      BY <2>3 DEF RemoveDir
    <3>2. d.op = call[t].op
      BY <2>1 DEF CallType
    <3> QED
      BY <3>1, <3>2 DEF Steps
  <2>4. CASE WriteSidecar(t) \/ LinkSidecar(t) \/ UnlinkSidecar(t) \/ RenameSidecar(t)
    BY <2>4 DEF WriteSidecar, LinkSidecar, UnlinkSidecar, RenameSidecar
  <2> QED
    BY <2>2, <2>3, <2>4 DEF Step
<1> QED
  BY <1>1, <1>2, <1>3, ContinueInside, FinishInside

LEMMA CrashInside ==
    ASSUME TypeOK, Crash
    PROVE  OneInside'
  BY EmuAttrAssumption DEF Crash, OneInside, Busy

LEMMA NextInside == TypeOK /\ OneInside /\ [Next]_vars => OneInside'
<1> SUFFICES ASSUME TypeOK, OneInside, [Next]_vars
             PROVE  OneInside'
  OBVIOUS
<1>1. ASSUME NEW t \in Threads, SidecarFault(t)
      PROVE  OneInside'
  BY <1>1, FinishInside DEF SidecarFault
<1>2. CASE UNCHANGED vars
  BY <1>2 DEF vars, OneInside, Busy
<1> QED
  BY <1>1, <1>2, RequestInside, StepInside, CrashInside DEF Next

\* A thread is between two system calls of a request exactly when it has the
\* mutex, so at most one request is half done (local.cc:110-120).
THEOREM MutualExclusion == Spec => []OneInside
<1>1. Init => OneInside
  BY EmuAttrAssumption DEF Init, OneInside, Busy
<1>2. TypeOK /\ OneInside /\ [Next]_vars => OneInside'
  BY NextInside
<1> QED
  BY <1>1, <1>2, TypeCorrect, PTL DEF Spec

-----------------------------------------------------------------------------
(* One thread at a time.  The mutex makes a request that takes several     *)
(* system calls atomic for all the others, as far as the tree goes.        *)

\* A step of either specification.
AnyRequest(t) == Request(t) \/ Mapped(t)
AnyNext ==
    Crash \/ \E t \in Threads : AnyRequest(t) \/ Step(t) \/ SidecarFault(t)

LEMMA RegionsStep == [Next \/ RegionsNext]_vars => [AnyNext]_vars
  BY DEF Next, RegionsNext, AnyNext, AnyRequest, Emulated, Request

Alone(t) == Busy(t) /\ \A u \in Threads \ {t} : ~Busy(u)

\* A request, while another is half done: it reads only.
Passes ==
    /\ UNCHANGED <<ent, data, faults, pc>>
    /\ \A t \in Threads : Busy(t) => UNCHANGED <<call[t], reply[t]>>

LEMMA OneThreadActs ==
    ASSUME TypeOK, OneInside, NEW t \in Threads, AnyRequest(t) \/ Step(t) \/ SidecarFault(t)
    PROVE  Quiet \/ Passes \/ (Alone(t) /\ (Step(t) \/ SidecarFault(t)))
<1>1. CASE Step(t) \/ SidecarFault(t)
  <2>1. Busy(t)
    BY <1>1 DEF Step, SidecarFault, OpenSidecar, WriteSidecar, LinkSidecar, UnlinkSidecar,
                RemoveDir, RenameSidecar, Busy
  <2> QED
    BY <1>1, <2>1 DEF Alone, OneInside
<1>2. CASE AnyRequest(t)
  <2>1. Quiet \/ mutex # None
    BY EmuAttrAssumption DEF OneInside, Quiet, TypeOK, ThreadsOK
  <2>2. CASE Readdir(t) \/ PassThrough(t)
    <3>1. pc[t] = "idle" /\ (\E rep : Finish(t, rep)) /\ UNCHANGED <<ent, data, faults>>
      BY <2>2 DEF Readdir, PassThrough, Enter
    <3> QED
      BY <3>1 DEF Finish, Passes, Busy, TypeOK, ThreadsOK
  <2>3. CASE ~(Readdir(t) \/ PassThrough(t))
    <3>1. CASE Request(t)
      <4>1. \/ Getattr(t) \/ Refuse(t) \/ Chown(t) \/ Chmod(t) \/ Creat(t) \/ Mkdir(t)
            \/ Link(t) \/ Unlink(t) \/ Rmdir(t) \/ Rename(t)
        BY <2>3, <3>1 DEF Request
      <4>2. mutex = None
        BY <4>1 DEF Getattr, Refuse, Chown, Chmod, Creat, Mkdir, Link, Unlink, Rmdir, Rename,
                    Enter, needsLock
      <4> QED
        BY <2>1, <4>2
    <3>2. CASE Mapped(t)
      <4>1. mutex = None
        BY <3>2 DEF Mapped, MappedCreat, MappedUnlink, MappedLink, MappedRename, Locally,
                    Enter, needsLock
      <4> QED
        BY <2>1, <4>1
    <3> QED
      BY <1>2, <3>1, <3>2 DEF AnyRequest
  <2> QED
    BY <2>2, <2>3
<1> QED
  BY <1>1, <1>2

-----------------------------------------------------------------------------
(* Changing one entry *)

LEMMA PutAt ==
    ASSUME NEW T, TreeOK(T), NEW p \in NamedPath \cup SidePath, NEW o,
           NEW q \in AnyPath \cup SidePath
    PROVE  At(Put(T, p, o), q) = IF q = p THEN o ELSE At(T, q)
<1>1. p.dir \in Dirs /\ p.name \in Entries /\ p.name # Dot
  BY EntryNames, HostTreeAssumption DEF NamedPath, SidePath
<1>2. Put(T, p, o) = [T EXCEPT ![p.dir] = [T[p.dir] EXCEPT ![p.name] = o]]
  BY DEF Put
<1>3. q.dir \in Dirs /\ q.name \in Entries \cup {Dot}
  BY EntryNames DEF AnyPath, SidePath
<1>4. ASSUME NEW d \in Dirs, NEW n \in Entries
      PROVE  Put(T, p, o)[d][n] = IF d = p.dir /\ n = p.name THEN o ELSE T[d][n]
  BY <1>1, <1>2 DEF TreeOK
<1>5. q = p <=> q.dir = p.dir /\ q.name = p.name
  BY DEF NamedPath, SidePath, AnyPath
<1> QED
  BY <1>1, <1>3, <1>4, <1>5 DEF At

\* The names of sidecars are no client's names.
LEMMA SidePaths == SidePath \cap AnyPath = {} /\ NamedPath \subseteq AnyPath
  BY EntryNames DEF SidePath, AnyPath, NamedPath

-----------------------------------------------------------------------------
(* Requests under mapped directories are of one system call *)

LEMMA RenameTree ==
    ASSUME TypeOK, NEW p \in NamedPath, NEW q \in NamedPath
    PROVE  TreeOK(rename(ent, p, q))
<1>1. At(ent, p) \in Objects \cup {None}
  BY AtOK DEF TypeOK
<1>2. TreeOK(Put(ent, q, At(ent, p)))
  BY <1>1, PutOK DEF TypeOK
<1>3. TreeOK(Put(Put(ent, q, At(ent, p)), p, None))
  BY <1>2, PutOK
<1> QED
  BY <1>3 DEF rename, TypeOK

LEMMA MappedEnds ==
    ASSUME NEW t \in Threads, Mapped(t)
    PROVE  (\E rep : Finish(t, rep)) /\ UNCHANGED <<data, faults>> /\ pc[t] = "idle"
  BY DEF Mapped, MappedCreat, MappedUnlink, MappedLink, MappedRename, Locally, Enter

LEMMA MappedType ==
    ASSUME TypeOK, NEW t \in Threads, Mapped(t)
    PROVE  TypeOK'
<1>1. ThreadsOK' /\ UNCHANGED <<data, faults>>
  BY MappedEnds, FinishOK DEF TypeOK
<1>2. CASE MappedCreat(t)
  <2>1. PICK p \in Absent(ent) : CanCreate(Files) /\ ent' = Put(ent, p, FreshFile)
    BY <1>2 DEF MappedCreat, Locally
  <2>2. p \in NamedPath /\ FreshFile \in Objects
    BY <2>1, PathSets, FreshInodes DEF Objects
  <2>3. TreeOK(ent')
    BY <2>1, <2>2, PutOK DEF TypeOK
  <2> QED
    BY <1>1, <2>3 DEF TypeOK, TreeOK
<1>3. CASE MappedUnlink(t)
  <2>1. PICK p \in FilePaths(ent) : ent' = unlink(ent, p)
    BY <1>3 DEF MappedUnlink, Locally
  <2>2. TreeOK(ent')
    BY <2>1, PathSets, PutOK DEF unlink, TypeOK
  <2> QED
    BY <1>1, <2>2 DEF TypeOK, TreeOK
<1>4. CASE MappedLink(t)
  <2>1. PICK p \in FilePaths(ent), q \in Absent(ent) : ent' = link(ent, p, q)
    BY <1>4 DEF MappedLink, Locally
  <2>2. q \in NamedPath /\ At(ent, p) \in Objects
    BY PathSets DEF Objects
  <2>3. TreeOK(ent')
    BY <2>1, <2>2, PutOK DEF link, TypeOK
  <2> QED
    BY <1>1, <2>3 DEF TypeOK, TreeOK
<1>5. CASE MappedRename(t)
  <2>1. PICK p \in FilePaths(ent), q \in Paths(ent) : ent' = rename(ent, p, q)
    BY <1>5 DEF MappedRename, Locally
  <2>2. TreeOK(ent')
    BY <2>1, PathSets, RenameTree
  <2> QED
    BY <1>1, <2>2 DEF TypeOK, TreeOK
<1> QED
  BY <1>2, <1>3, <1>4, <1>5 DEF Mapped

LEMMA AnyType == TypeOK /\ [AnyNext]_vars => TypeOK'
<1> SUFFICES ASSUME TypeOK, [AnyNext]_vars
             PROVE  TypeOK'
  OBVIOUS
<1>1. CASE [Next]_vars
  BY <1>1, NextType
<1>2. ASSUME NEW t \in Threads, Mapped(t)
      PROVE  TypeOK'
  BY <1>2, MappedType
<1> QED
  BY <1>1, <1>2 DEF AnyNext, AnyRequest, Next

LEMMA AnyInside == TypeOK /\ OneInside /\ [AnyNext]_vars => OneInside'
<1> SUFFICES ASSUME TypeOK, OneInside, [AnyNext]_vars
             PROVE  OneInside'
  OBVIOUS
<1>1. CASE [Next]_vars
  BY <1>1, NextInside
<1>2. ASSUME NEW t \in Threads, Mapped(t)
      PROVE  OneInside'
  BY <1>2, MappedEnds, FinishInside
<1> QED
  BY <1>1, <1>2 DEF AnyNext, AnyRequest, Next

LEMMA RegionsAlways == RegionsSpec => [](TypeOK /\ OneInside)
<1>1. Init => TypeOK /\ OneInside
  BY InitType, EmuAttrAssumption DEF Init, OneInside, Busy
<1>2. TypeOK /\ OneInside /\ [RegionsNext]_vars => TypeOK' /\ OneInside'
  BY RegionsStep, AnyType, AnyInside
<1> QED
  BY <1>1, <1>2, PTL DEF RegionsSpec

-----------------------------------------------------------------------------
(* The sidecar that a request is about *)

SideFile(p) == [dir |-> p.dir, name |-> SideOf(p.name)]

\* A request that sets attributes holds them, knows the sidecar that getattr
\* would read for its path and, once that is open, holds its inode.
SetsOwnSidecar(step, c) ==
    /\ step \in {"open", "write"} /\ c.op # "RMDIR" =>
        /\ c.attrs # Undef
        /\ c.path \in NamedPath \/ At(ent, c.path) \in Dirs
        /\ c.sidecar = attrsFileName(c.path, dirfile(c.path))
        /\ step = "write" => At(ent, c.sidecar) = c.fd
    /\ step = "rmdir" => c.op = "RMDIR"

\* One that links or renames a file knows the sidecars of both names.
MovesOwnSidecar(step, c) ==
    step \in {"link", "rename"} =>
        /\ c.path \in NamedPath /\ c.to \in NamedPath
        /\ At(ent, c.to) \in Files
        /\ c.sidecar = SideFile(c.to)
        /\ step = "rename" => c.err = OK

TargetInv ==
    \A t \in Threads : SetsOwnSidecar(pc[t], call[t]) /\ MovesOwnSidecar(pc[t], call[t])

LEMMA QuietEnd ==
    ASSUME TypeOK, NEW t \in Threads, Quiet \/ Alone(t), NEW rep, Finish(t, rep)
    PROVE  Quiet' /\ TargetInv'
<1>1. Quiet'
  BY DEF Finish, Quiet, Alone, Busy, TypeOK, ThreadsOK
<1> QED
  BY <1>1 DEF Quiet, Busy, TargetInv, SetsOwnSidecar, MovesOwnSidecar

LEMMA GoesOn ==
    ASSUME TypeOK, NEW t \in Threads, Quiet \/ Alone(t), NEW next \in Steps, NEW c,
           Continue(t, next, c)
    PROVE  /\ pc'[t] = next /\ call'[t] = c /\ Alone(t)'
           /\ SetsOwnSidecar(pc[t], call[t])' /\ MovesOwnSidecar(pc[t], call[t])' => TargetInv'
<1>1. pc'[t] = next /\ call'[t] = c /\ Alone(t)'
  BY DEF Continue, Quiet, Alone, Busy, TypeOK, ThreadsOK, Steps
<1> QED
  BY <1>1 DEF Alone, Busy, TargetInv, SetsOwnSidecar, MovesOwnSidecar

\* What chown, chmod and the creation of an object write.
LEMMA WrittenAttrs ==
    ASSUME NEW a \in Attrs, NEW uid \in ReqUids, NEW gid \in ReqGids, NEW mode \in SUBSET Bits
    PROVE  /\ emu_chown(a, storedUid[uid], storedGid[gid]) \in Attrs
           /\ [a EXCEPT !.mode = mode] \in Attrs
           /\ [mode |-> mode, uid |-> storedUid[uid],
               gid |-> IF "sgid" \in a.mode THEN a.gid ELSE storedGid[gid]] \in Attrs
           /\ Undef \notin Attrs
<1>1. storedUid[uid] \in Id /\ storedGid[gid] \in Id
  BY StoredIds
<1> QED
  BY <1>1, EmuAttrAssumption DEF emu_chown, Attrs

LEMMA SetAttrsTarget ==
    ASSUME TypeOK, Quiet, NEW t \in Threads, Chown(t) \/ Chmod(t)
    PROVE  TargetInv'
<1>1. \/ \E rep : Finish(t, rep)
      \/ \E p \in Existing(ent), b \in Attrs, op \in {"CHOWN", "CHMOD"} :
            /\ ent' = ent
            /\ Continue(t, "open", Call(op, p, p, attrsFileName(p, dirfile(p)), b, OK))
  <2>1. ASSUME NEW p \in Existing(ent)
        PROVE  readAttrs(p, dirfile(p)) \in Attrs \cup {Torn}
    BY ObjectSidecar, ReadOK
  <2>2. CASE Chown(t)
    <3>1. PICK p \in Existing(ent), uid \in ReqUids, gid \in ReqGids :
            LET a == readAttrs(p, dirfile(p))
                b == emu_chown(a, storedUid[uid], storedGid[gid])
            IN  /\ IF a = Torn THEN Finish(t, Reply("EIO"))
                   ELSE Continue(t, "open",
                                 Call("CHOWN", p, p, attrsFileName(p, dirfile(p)), b, OK))
                /\ ent' = ent
      BY <2>2 DEF Chown
    <3> DEFINE a == readAttrs(p, dirfile(p))
               b == emu_chown(a, storedUid[uid], storedGid[gid])
    <3>2. CASE a = Torn
      BY <3>1, <3>2
    <3>3. CASE a # Torn
      <4>1. b \in Attrs
        BY <2>1, <3>3, WrittenAttrs
      <4> QED
        BY <3>1, <3>3, <4>1
    <3> QED
      BY <3>2, <3>3
  <2>3. CASE Chmod(t)
    <3>1. PICK p \in Existing(ent), mode \in ReqModes :
            LET a == readAttrs(p, dirfile(p))
            IN  /\ IF a = Torn THEN Finish(t, Reply("EIO"))
                   ELSE Continue(t, "open", Call("CHMOD", p, p, attrsFileName(p, dirfile(p)),
                                                 [a EXCEPT !.mode = mode], OK))
                /\ ent' = ent
      BY <2>3 DEF Chmod
    <3> DEFINE a == readAttrs(p, dirfile(p))
               b == [a EXCEPT !.mode = mode]
    <3>2. CASE a = Torn
      BY <3>1, <3>2
    <3>3. CASE a # Torn
      <4>1. b \in Attrs
        BY <2>1, <3>3, EmuAttrAssumption DEF Attrs
      <4> QED
        BY <3>1, <3>3, <4>1
    <3> QED
      BY <3>2, <3>3
  <2> QED
    BY <2>2, <2>3
<1>2. ASSUME NEW p \in Existing(ent), NEW b \in Attrs, NEW op \in {"CHOWN", "CHMOD"},
             ent' = ent,
             Continue(t, "open", Call(op, p, p, attrsFileName(p, dirfile(p)), b, OK))
      PROVE  TargetInv'
  <2> DEFINE c == Call(op, p, p, attrsFileName(p, dirfile(p)), b, OK)
  <2>1. p \in NamedPath \/ At(ent, p) \in Dirs
    BY PathSets, HostTreeAssumption
  <2>2. pc'[t] = "open" /\ call'[t] = c
    BY <1>2, GoesOn DEF Steps
  <2>3. SetsOwnSidecar(pc[t], call[t])'
    BY <1>2, <2>1, <2>2, EmuAttrAssumption DEF SetsOwnSidecar, Call, attrsFileName, dirfile
  <2>4. MovesOwnSidecar(pc[t], call[t])'
    BY <2>2 DEF MovesOwnSidecar
  <2> QED
    BY <1>2, <2>3, <2>4, GoesOn DEF Steps
<1> QED
  BY <1>1, <1>2, QuietEnd

\* A new object is at its path when its sidecar is written.
LEMMA NewObjectTarget ==
    ASSUME TypeOK, Quiet, NEW t \in Threads, NEW op \in Ops, NEW p \in NamedPath, NEW s,
           NEW mode \in SUBSET Bits, NEW uid \in ReqUids, NEW gid \in ReqGids,
           emu_creat_mkdir(t, op, p, s, mode, uid, gid),
           s = attrsFileName(p, dirfile(p))'
    PROVE  TargetInv'
<1> DEFINE dirA == readAttrs(dirOf(p), "DIRECTORY")
           a == [mode |-> mode, uid |-> storedUid[uid],
                 gid |-> IF "sgid" \in dirA.mode THEN dirA.gid ELSE storedGid[gid]]
           c == Call(op, p, p, s, a, OK)
<1>1. CASE dirA = Torn
  BY <1>1, QuietEnd DEF emu_creat_mkdir
<1>2. CASE dirA # Torn
  <2>1. At(ent, dirOf(p)) \in Dirs
    BY DEF dirOf, At, NamedPath
  <2>2. dirA \in Attrs
    BY <1>2, <2>1, DirSidecar, ReadOK
  <2>3. a \in Attrs /\ a # Undef
    BY <2>2, WrittenAttrs
  <2>4. Continue(t, "open", c)
    BY <1>2 DEF emu_creat_mkdir
  <2>5. pc'[t] = "open" /\ call'[t] = c
    BY <2>4, GoesOn DEF Steps
  <2>6. call'[t].attrs = a /\ call'[t].path = p /\ call'[t].sidecar = s
    BY <2>5 DEF Call
  <2> HIDE DEF a, c
  <2>7. SetsOwnSidecar(pc[t], call[t])'
    BY <2>3, <2>5, <2>6 DEF SetsOwnSidecar
  <2>8. MovesOwnSidecar(pc[t], call[t])'
    BY <2>5 DEF MovesOwnSidecar
  <2> QED
    BY <2>4, <2>7, <2>8, GoesOn DEF Steps
<1> QED
  BY <1>1, <1>2

LEMMA CreateTarget ==
    ASSUME TypeOK, Quiet, NEW t \in Threads, Creat(t) \/ Mkdir(t)
    PROVE  TargetInv'
<1>1. CASE Creat(t)
  <2>1. PICK p \in Absent(ent), uid \in ReqUids \ {NoId}, gid \in ReqGids \ {NoId},
             mode \in ReqModes, op \in {"CREAT", "MKNOD", "SYMLINK"} :
          /\ CanCreate(Files)
          /\ ent' = Put(ent, p, FreshFile)
          /\ emu_creat_mkdir(t, op, p, attrsFileName(p, "FILE"),
                             IF op = "SYMLINK" THEN linkmode ELSE mode, uid, gid)
    BY <1>1 DEF Creat
  <2>2. p \in NamedPath /\ p \in AnyPath
    BY PathSets
  <2>3. (IF op = "SYMLINK" THEN linkmode ELSE mode) \in SUBSET Bits
    BY EmuAttrAssumption DEF linkmode, Bits
  <2>4. At(ent', p) = FreshFile /\ FreshFile \notin Dirs
    BY <2>1, <2>2, PutAt, FreshInodes, HostTreeAssumption DEF TypeOK
  <2>5. attrsFileName(p, "FILE") = attrsFileName(p, dirfile(p))'
    BY <2>4 DEF attrsFileName, dirfile
  <2> QED
    BY <2>1, <2>2, <2>3, <2>5, NewObjectTarget DEF Ops
<1>2. CASE Mkdir(t)
  <2>1. PICK p \in Absent(ent), uid \in ReqUids \ {NoId}, gid \in ReqGids \ {NoId},
             mode \in ReqModes :
          /\ CanCreate(Dirs)
          /\ ent' = Put(ent, p, FreshDir)
          /\ emu_creat_mkdir(t, "MKDIR", p, [dir |-> FreshDir, name |-> DirSide],
                             mode, uid, gid)
    BY <1>2 DEF Mkdir
  <2>2. p \in NamedPath /\ p \in AnyPath
    BY PathSets
  <2>3. mode \in SUBSET Bits
    BY EmuAttrAssumption
  <2>4. At(ent', p) = FreshDir /\ FreshDir \in Dirs
    BY <2>1, <2>2, PutAt, FreshInodes DEF TypeOK
  <2>5. [dir |-> FreshDir, name |-> DirSide] = attrsFileName(p, dirfile(p))'
    BY <2>4 DEF attrsFileName, dirfile
  <2> QED
    BY <2>1, <2>2, <2>3, <2>5, NewObjectTarget DEF Ops
<1> QED
  BY <1>1, <1>2

LEMMA MoveTarget ==
    ASSUME TypeOK, Quiet, NEW t \in Threads, Link(t) \/ Rename(t)
    PROVE  TargetInv'
<1>1. CASE Link(t)
  <2>1. PICK p \in FilePaths(ent), q \in Absent(ent) :
          /\ ent' = link(ent, p, q)
          /\ Continue(t, "link", Call("LINK", p, q, attrsFileName(q, "FILE"), Undef, OK))
    BY <1>1 DEF Link
  <2> DEFINE c == Call("LINK", p, q, attrsFileName(q, "FILE"), Undef, OK)
  <2>2. p \in NamedPath /\ q \in NamedPath /\ At(ent, p) \in Files /\ At(ent, q) = None
    BY PathSets DEF Absent
  <2>3. ent' = Put(ent, q, At(ent, p))
    BY <2>1, <2>2, HostTreeAssumption DEF link, linkError
  <2>4. At(ent', q) \in Files
    BY <2>2, <2>3, PutAt, PathSets DEF TypeOK
  <2>5. pc'[t] = "link" /\ call'[t] = c
    BY <2>1, GoesOn DEF Steps
  <2>6. SetsOwnSidecar(pc[t], call[t])' /\ MovesOwnSidecar(pc[t], call[t])'
    BY <2>2, <2>4, <2>5 DEF SetsOwnSidecar, MovesOwnSidecar, Call, attrsFileName, SideFile
  <2> QED
    BY <2>1, <2>6, GoesOn DEF Steps
<1>2. CASE Rename(t)
  <2>1. PICK p \in Existing(ent), q \in Paths(ent) :
          LET err == renameError(ent, p, q)
          IN  /\ MayRename(ent, p, q)
              /\ IF err = OK /\ At(ent', q) \in Files
                 THEN Continue(t, "rename",
                               Call("RENAME", p, q, attrsFileName(q, "FILE"), Undef, OK))
                 ELSE Finish(t, Reply(err))
    BY <1>2 DEF Rename
  <2> DEFINE c == Call("RENAME", p, q, attrsFileName(q, "FILE"), Undef, OK)
  <2>2. p \in NamedPath /\ q \in NamedPath
    BY <2>1, PathSets DEF MayRename
  <2>3. CASE renameError(ent, p, q) = OK /\ At(ent', q) \in Files
    <3>1. pc'[t] = "rename" /\ call'[t] = c
      BY <2>1, <2>3, GoesOn DEF Steps
    <3>2. SetsOwnSidecar(pc[t], call[t])' /\ MovesOwnSidecar(pc[t], call[t])'
      BY <2>2, <2>3, <3>1 DEF SetsOwnSidecar, MovesOwnSidecar, Call, attrsFileName, SideFile
    <3> QED
      BY <2>1, <2>3, <3>2, GoesOn DEF Steps
  <2>4. CASE ~(renameError(ent, p, q) = OK /\ At(ent', q) \in Files)
    BY <2>1, <2>4, QuietEnd
  <2> QED
    BY <2>3, <2>4
<1> QED
  BY <1>1, <1>2

LEMMA RequestTarget ==
    ASSUME TypeOK, Quiet, NEW t \in Threads, AnyRequest(t)
    PROVE  TargetInv'
<1>1. CASE Getattr(t) \/ Readdir(t) \/ PassThrough(t) \/ Refuse(t) \/ Mapped(t)
  <2>1. \E rep : Finish(t, rep)
    BY <1>1, MappedEnds DEF Getattr, Readdir, PassThrough, Refuse
  <2> QED
    BY <2>1, QuietEnd
<1>2. CASE Unlink(t)
  <2>1. PICK c : Continue(t, "unlink", c)
    BY <1>2 DEF Unlink
  <2> QED
    BY <2>1, GoesOn DEF Steps, SetsOwnSidecar, MovesOwnSidecar
<1>3. CASE Rmdir(t)
  <2>1. PICK c : Continue(t, "rmdir", c) /\ c.op = "RMDIR"
    BY <1>3 DEF Rmdir, Call
  <2> QED
    BY <2>1, GoesOn DEF Steps, SetsOwnSidecar, MovesOwnSidecar
<1> QED
  BY <1>1, <1>2, <1>3, SetAttrsTarget, CreateTarget, MoveTarget DEF AnyRequest, Request

LEMMA StepTarget ==
    ASSUME TypeOK, TargetInv, NEW t \in Threads, Alone(t), Step(t) \/ SidecarFault(t)
    PROVE  TargetInv'
<1>1. CASE OpenSidecar(t)
  <2> DEFINE c == call[t]
             s == IF At(ent, c.sidecar) = None THEN FreshSide ELSE At(ent, c.sidecar)
             d == [c EXCEPT !.fd = s]
  <2>1. c \in CallType /\ c.sidecar \in SidePath /\ SetsOwnSidecar("open", c)
    BY <1>1 DEF OpenSidecar, TypeOK, ThreadsOK, CallOK, TargetInv
  <2>2. d.op = c.op /\ d.attrs = c.attrs /\ d.path = c.path /\ d.sidecar = c.sidecar /\ d.fd = s
    BY <2>1 DEF CallType
  <2>3. ent' = Put(ent, c.sidecar, s) /\ Continue(t, "write", d)
    BY <1>1 DEF OpenSidecar
  <2>4. At(ent', c.path) = At(ent, c.path)
    BY <2>1, <2>3, PutAt, SidePaths DEF TypeOK, CallType
  <2>5. At(ent', c.sidecar) = s
    BY <2>1, <2>3, PutAt DEF TypeOK
  <2>6. pc'[t] = "write" /\ call'[t] = d
    BY <2>3, GoesOn DEF Steps
  <2> HIDE DEF d, s
  <2>7. SetsOwnSidecar(pc[t], call[t])'
    <3>1. SUFFICES ASSUME c.op # "RMDIR"
                   PROVE  SetsOwnSidecar(pc[t], call[t])'
      BY <2>2, <2>6 DEF SetsOwnSidecar
    <3>2. /\ c.attrs # Undef
          /\ c.path \in NamedPath \/ At(ent, c.path) \in Dirs
          /\ c.sidecar = attrsFileName(c.path, dirfile(c.path))
      BY <2>1, <3>1 DEF SetsOwnSidecar
    <3>3. attrsFileName(c.path, dirfile(c.path)) = attrsFileName(call[t].path, dirfile(call[t].path))'
      BY <2>2, <2>4, <2>6 DEF attrsFileName, dirfile
    <3> QED
      BY <2>2, <2>4, <2>5, <2>6, <3>2, <3>3 DEF SetsOwnSidecar
  <2>8. MovesOwnSidecar(pc[t], call[t])'
    BY <2>6 DEF MovesOwnSidecar
  <2> QED
    BY <2>3, <2>7, <2>8, GoesOn DEF Steps
<1>2. CASE RemoveDir(t)
  <2> DEFINE c == call[t]
             d == [c EXCEPT !.err = rmdirError(ent, c.path)]
  <2>1. Finish(t, Reply(OK)) \/ Continue(t, "open", d)
    BY <1>2 DEF RemoveDir
  <2>2. c \in CallType /\ c.op = "RMDIR"
    BY <1>2 DEF RemoveDir, TypeOK, ThreadsOK, TargetInv, SetsOwnSidecar
  <2> QED
    BY <2>1, <2>2, QuietEnd, GoesOn DEF Steps, CallType, SetsOwnSidecar, MovesOwnSidecar
<1>3. CASE \E rep : Finish(t, rep)
  BY <1>3, QuietEnd
<1> QED
  BY <1>1, <1>2, <1>3 DEF Step, WriteSidecar, LinkSidecar, UnlinkSidecar, RenameSidecar,
                          SidecarFault

LEMMA TargetStep == TypeOK /\ OneInside /\ TargetInv /\ [AnyNext]_vars => TargetInv'
<1> SUFFICES ASSUME TypeOK, OneInside, TargetInv, [AnyNext]_vars
             PROVE  TargetInv'
  OBVIOUS
<1>1. CASE Crash
  BY <1>1 DEF Crash, TargetInv, SetsOwnSidecar, MovesOwnSidecar
<1>2. CASE UNCHANGED <<ent, pc>> /\ \A t \in Threads : Busy(t) => call'[t] = call[t]
  BY <1>2 DEF TargetInv, SetsOwnSidecar, MovesOwnSidecar, Busy, attrsFileName, dirfile
<1>3. ASSUME NEW t \in Threads, AnyRequest(t) \/ Step(t) \/ SidecarFault(t)
      PROVE  TargetInv'
  <2>1. CASE Quiet
    <3>1. AnyRequest(t)
      BY <1>3, <2>1 DEF Quiet, Busy, Step, SidecarFault, OpenSidecar, WriteSidecar,
                        LinkSidecar, UnlinkSidecar, RemoveDir, RenameSidecar
    <3> QED
      BY <2>1, <3>1, RequestTarget
  <2>2. CASE Passes
    BY <1>2, <2>2 DEF Passes
  <2>3. CASE Alone(t) /\ (Step(t) \/ SidecarFault(t))
    BY <2>3, StepTarget
  <2> QED
    BY <1>3, <2>1, <2>2, <2>3, OneThreadActs
<1>4. CASE UNCHANGED vars
  BY <1>2, <1>4 DEF vars
<1> QED
  BY <1>1, <1>3, <1>4 DEF AnyNext

TargetIInv == TypeOK /\ OneInside /\ TargetInv /\ reply = [t \in Threads |-> reply[t]]

LEMMA RepliesStep == reply = [t \in Threads |-> reply[t]] /\ [AnyNext]_vars =>
                         reply' = [t \in Threads |-> reply'[t]]
<1> SUFFICES ASSUME reply = [t \in Threads |-> reply[t]], [AnyNext]_vars
             PROVE  reply' = [t \in Threads |-> reply'[t]]
  OBVIOUS
<1>1. ASSUME NEW t \in Threads, Request(t) \/ Mapped(t) \/ Step(t) \/ SidecarFault(t)
      PROVE  (\E rep : Finish(t, rep)) \/ (\E next, c : Continue(t, next, c))
  BY <1>1, MappedEnds
     DEF Request, Getattr, Readdir, PassThrough, Refuse, Chown, Chmod, Creat, Mkdir,
         emu_creat_mkdir, Link, Unlink, Rmdir, Rename, Step, OpenSidecar, WriteSidecar,
         LinkSidecar, UnlinkSidecar, RemoveDir, RenameSidecar, SidecarFault
<1>2. ASSUME NEW t \in Threads, (\E rep : Finish(t, rep)) \/ (\E next, c : Continue(t, next, c))
      PROVE  reply' = [u \in Threads |-> reply'[u]]
  <2>1. PICK e : reply' = [reply EXCEPT ![t] = e]
    BY <1>2 DEF Finish, Continue
  <2> QED
    BY <2>1
<1>3. CASE Crash
  BY <1>3 DEF Crash
<1>4. CASE UNCHANGED vars
  BY <1>4 DEF vars
<1> QED
  BY <1>1, <1>2, <1>3, <1>4 DEF AnyNext, AnyRequest

LEMMA TargetInit == Init => TargetIInv
  BY InitType, EmuAttrAssumption DEF Init, TargetIInv, OneInside, Busy, TargetInv,
     SetsOwnSidecar, MovesOwnSidecar

LEMMA TargetAlways ==
    /\ Spec => []TargetIInv
    /\ RegionsSpec => []TargetIInv
<1>1. TargetIInv /\ [Next]_vars => TargetIInv'
  BY RegionsStep, AnyType, AnyInside, TargetStep, RepliesStep DEF TargetIInv
<1>2. TargetIInv /\ [RegionsNext]_vars => TargetIInv'
  BY RegionsStep, AnyType, AnyInside, TargetStep, RepliesStep DEF TargetIInv
<1>3. Spec => []TargetIInv
  BY <1>1, TargetInit, PTL DEF Spec
<1>4. RegionsSpec => []TargetIInv
  BY <1>2, TargetInit, PTL DEF RegionsSpec
<1> QED
  BY <1>3, <1>4

\* A request that reports success ends with its own last step.
LEMMA EndsItself ==
    ASSUME TargetIInv, [AnyNext]_vars, NEW t \in Threads, Busy(t), pc'[t] = "idle",
           reply'[t].err = OK
    PROVE  Step(t) \/ SidecarFault(t)
<1>1. CASE Crash
  BY <1>1 DEF Crash, Reply, OK
<1>2. CASE UNCHANGED vars
  BY <1>2 DEF vars, Busy
<1>3. ASSUME NEW u \in Threads, AnyRequest(u) \/ Step(u) \/ SidecarFault(u)
      PROVE  Step(t) \/ SidecarFault(t)
  BY <1>3, OneThreadActs DEF TargetIInv, Quiet, Passes, Alone, Busy
<1> QED
  BY <1>1, <1>2, <1>3 DEF AnyNext

DoneStep ==
    \A t \in Threads :
        /\ pc[t] \in {"open", "write"} /\ call[t].op # "RMDIR"
        /\ pc'[t] = "idle" /\ reply'[t].err = OK
        => \A p \in AnyPath : p = call[t].path =>
                PathView(p)' = shown(At(ent, p), call[t].attrs)

LEMMA SuccessIsDone ==
    ASSUME TargetIInv, [AnyNext]_vars
    PROVE  DoneStep
<1> SUFFICES ASSUME NEW t \in Threads, pc[t] \in {"open", "write"}, call[t].op # "RMDIR",
                    pc'[t] = "idle", reply'[t].err = OK, NEW p \in AnyPath, p = call[t].path
             PROVE  PathView(p)' = shown(At(ent, p), call[t].attrs)
  BY DEF DoneStep
<1>1. WriteSidecar(t)
  <2>1. Step(t) \/ SidecarFault(t)
    BY EndsItself DEF Busy
  <2>2. ~SidecarFault(t)
    BY DEF SidecarFault, Finish, Reply, OK, TargetIInv, TypeOK, ThreadsOK
  <2>3. ~OpenSidecar(t)
    BY DEF OpenSidecar, Continue, TargetIInv, TypeOK, ThreadsOK
  <2> QED
    BY <2>1, <2>2, <2>3 DEF Step, LinkSidecar, UnlinkSidecar, RemoveDir, RenameSidecar
<1>2. pc[t] = "write" /\ SetsOwnSidecar("write", call[t])
  BY <1>1 DEF WriteSidecar, TargetIInv, TargetInv
<1>3. /\ call[t].attrs # Undef
      /\ At(ent, attrsFileName(p, dirfile(p))) = call[t].fd
  BY <1>2 DEF SetsOwnSidecar
<1>4. call[t].fd \in Sides /\ call[t].fd # None
  BY <1>2, EntryNames DEF TargetIInv, TypeOK, ThreadsOK, CallOK
<1>5. ent' = ent /\ data' = [data EXCEPT ![call[t].fd] = call[t].attrs]
  BY <1>1, <1>3 DEF WriteSidecar
<1>6. data'[call[t].fd] = call[t].attrs
  BY <1>4, <1>5 DEF TargetIInv, TypeOK
<1>7. readAttrs(p, dirfile(p))' = call[t].attrs
  BY <1>3, <1>4, <1>5, <1>6 DEF readAttrs, attrsFileName, dirfile
<1> QED
  BY <1>5, <1>7 DEF PathView, shown

\* A chown, a chmod or a creation that writes a sidecar and reports success is what a
\* getattr shows next, whatever crashes and failed writes have left behind before, whatever
\* other threads read and whether or not a part of the tree is mapped (local.hh:163-199).
THEOREM OkIsDone ==
    /\ Spec => OkMeansDone
    /\ RegionsSpec => OkMeansDone
<1>1. TargetIInv /\ [Next]_vars => DoneStep
  BY RegionsStep, SuccessIsDone
<1>2. TargetIInv /\ [RegionsNext]_vars => DoneStep
  BY RegionsStep, SuccessIsDone
<1>3. Spec => OkMeansDone
  BY <1>1, TargetAlways, PTL DEF Spec, OkMeansDone, DoneStep
<1>4. RegionsSpec => OkMeansDone
  BY <1>2, TargetAlways, PTL DEF RegionsSpec, OkMeansDone, DoneStep
<1> QED
  BY <1>3, <1>4

MoveStep ==
    \A t \in Threads :
        /\ pc[t] \in {"link", "rename"} /\ pc'[t] = "idle" /\ reply'[t].err = OK
        /\ ~InMapped(call[t].to) /\ SideEntry(call[t].path) # None
        => \A q \in AnyPath : q = call[t].to =>
                PathView(q)' = shown(At(ent', q), data[SideEntry(call[t].path)])

LEMMA MovesTakeAttrs ==
    ASSUME TargetIInv, [AnyNext]_vars
    PROVE  MoveStep
<1> SUFFICES ASSUME NEW t \in Threads, pc[t] \in {"link", "rename"}, pc'[t] = "idle",
                    reply'[t].err = OK, SideEntry(call[t].path) # None,
                    NEW q \in AnyPath, q = call[t].to
             PROVE  PathView(q)' = shown(At(ent', q), data[SideEntry(call[t].path)])
  BY Zenon DEF MoveStep
<1> DEFINE c == call[t]
           old == attrsFileName(c.path, "FILE")
           s == SideEntry(c.path)
<1>1. LinkSidecar(t) \/ RenameSidecar(t)
  <2>1. Step(t) \/ SidecarFault(t)
    BY EndsItself DEF Busy
  <2> QED
    BY <2>1 DEF Step, OpenSidecar, WriteSidecar, UnlinkSidecar, RemoveDir, SidecarFault
<1>2. /\ c.path \in NamedPath /\ c.to \in NamedPath /\ c.to \in AnyPath
      /\ At(ent, c.to) \in Files /\ c.sidecar = SideFile(c.to)
  BY SidePaths DEF TargetIInv, TargetInv, MovesOwnSidecar
<1>3. old \in SidePath /\ c.sidecar \in SidePath /\ At(ent, old) = s
  BY <1>2, FileSidecar, EntryNames, HostTreeAssumption
     DEF attrsFileName, SideFile, SideEntry, At, NamedPath
<1>4. s \in Sides
  BY <1>3, AtOK DEF TargetIInv, TypeOK
<1>5. At(ent', c.to) = At(ent, c.to) /\ At(ent', c.sidecar) = s /\ data'[s] = data[s]
  <2>1. CASE LinkSidecar(t)
    <3>1. linkError(ent, old, c.sidecar) = OK
      BY <2>1 DEF LinkSidecar, Finish, Reply, OK, TargetIInv, TypeOK, ThreadsOK
    <3>2. ent' = Put(ent, c.sidecar, s) /\ data' = data
      BY <1>3, <2>1, <3>1 DEF LinkSidecar, link
    <3> HIDE DEF s
    <3> QED
      BY <1>2, <1>3, <3>2, PutAt, SidePaths DEF TargetIInv, TypeOK
  <2>2. CASE RenameSidecar(t)
    <3>1. s # None /\ s \notin Dirs
      BY <1>4, EntryNames DEF Objects
    <3>2. At(ent, c.sidecar) \notin Dirs
      BY <1>3, AtOK, EntryNames DEF TargetIInv, TypeOK, Objects
    <3>3. renameError(ent, old, c.sidecar) = OK
      BY <1>3, <3>1, <3>2 DEF renameError
    <3>4. At(ent', c.to) = At(ent, c.to) /\ At(ent', c.sidecar) = s
      <4>1. CASE s = At(ent, c.sidecar)
        <5>1. ent' = ent
          BY <1>3, <2>2, <4>1 DEF RenameSidecar, rename
        <5> QED
          BY <4>1, <5>1
      <4>2. CASE s # At(ent, c.sidecar)
        <5>1. ent' = Put(Put(ent, c.sidecar, s), old, None)
          BY <1>3, <2>2, <3>3, <4>2 DEF RenameSidecar, rename
        <5>2. TreeOK(Put(ent, c.sidecar, s))
          BY <1>3, <1>4, PutOK DEF TargetIInv, TypeOK
        <5>3. old # c.sidecar
          BY <1>3, <4>2
        <5> HIDE DEF s
        <5> QED
          BY <1>2, <1>3, <5>1, <5>2, <5>3, PutAt, SidePaths DEF TargetIInv, TypeOK
      <4> QED
        BY <4>1, <4>2
    <3>5. Linked(ent', s)
      <4>1. TypeOK'
        BY AnyType DEF TargetIInv
      <4>2. c.sidecar.dir \in Dirs /\ c.sidecar.name \in Entries /\ c.sidecar.name # Dot
        BY <1>3, EntryNames DEF SidePath
      <4> QED
        BY <3>4, <4>1, <4>2 DEF Linked, At, TypeOK, TreeOK
    <3>6. data'[s] = data[s]
      BY <1>4, <2>2, <3>5 DEF RenameSidecar, Sweep
    <3> QED
      BY <3>4, <3>6
  <2> QED
    BY <1>1, <2>1, <2>2
<1>6. dirfile(q)' = "FILE"
  BY <1>2, <1>5, HostTreeAssumption DEF dirfile
<1>7. readAttrs(q, dirfile(q))' = data[s]
  BY <1>2, <1>4, <1>5, <1>6, EntryNames DEF readAttrs, attrsFileName, SideFile
<1> QED
  BY <1>5, <1>7 DEF PathView, shown

\* A link or a rename that reports success shows under the new name the attributes that
\* the old name had, after any crashes and any use of mapped directories
\* (local.cc:180-187, 257-265).
THEOREM MovesKeepAttrs == RegionsSpec => MovesWithAttrs
<1>1. TargetIInv /\ [RegionsNext]_vars => MoveStep
  BY RegionsStep, MovesTakeAttrs
<1> QED
  BY <1>1, TargetAlways, PTL DEF RegionsSpec, MovesWithAttrs, MoveStep

-----------------------------------------------------------------------------
(* Files and their sidecars in a tree T, also in the middle of a request:  *)
(* X, Y and Z are the paths and directories that the request works on.     *)

SideIn(T, p) == At(T, SideFile(p))
FilesIn(T) == {p \in NamedPath : At(T, p) \in Files}

\* Every file but those at X has a sidecar; two names share it as they share the file.
FilesHave(T, X) ==
    /\ \A p \in FilesIn(T) \ X : SideIn(T, p) # None
    /\ \A p, q \in FilesIn(T) \ X : At(T, p) = At(T, q) <=> SideIn(T, p) = SideIn(T, q)

\* Every sidecar but those of Y has its file.
FilesOnly(T, Y) == \A p \in NamedPath \ Y : SideIn(T, p) # None => p \in FilesIn(T)

\* Every directory in the tree but those of Z has a sidecar.
DirsHave(T, Z) ==
    \A p \in NamedPath : At(T, p) \in Dirs \ Z => T[At(T, p)][DirSide] # None

AllHave(T) == FilesHave(T, {}) /\ FilesOnly(T, {}) /\ DirsHave(T, {})

\* A directory has one name, the root has none.
DirsOnce(T) ==
    /\ \A p, q \in NamedPath : At(T, p) = At(T, q) /\ At(T, p) \in Dirs => p = q
    /\ \A p \in NamedPath : At(T, p) # Root

\* Every sidecar in the tree but those of S can be read.
Readable(T, D, S) ==
    /\ \A p \in NamedPath : SideIn(T, p) \in Sides \ S => D[SideIn(T, p)] # Torn
    /\ \A d \in Dirs : T[d][DirSide] \in Sides \ S => D[T[d][DirSide]] # Torn

\* What a thread in the middle of the request c knows of the tree.
Opening(T, c) ==
    /\ c.attrs # Undef
    /\ \/ AllHave(T) /\ c.path \in FilesIn(T) /\ c.sidecar = SideFile(c.path)
       \/ /\ FilesHave(T, {}) /\ FilesOnly(T, {})
          /\ DirsHave(T, {c.sidecar.dir}) /\ c.sidecar.name = DirSide
       \/ /\ FilesHave(T, {c.path}) /\ FilesOnly(T, {}) /\ DirsHave(T, {})
          /\ c.path \in FilesIn(T) /\ SideIn(T, c.path) = None /\ c.sidecar = SideFile(c.path)
          /\ \A q \in FilesIn(T) : At(T, q) = At(T, c.path) => q = c.path

Linking(T, c) ==
    /\ FilesHave(T, {c.to}) /\ FilesOnly(T, {}) /\ DirsHave(T, {})
    /\ c.path \in FilesIn(T) /\ c.to \in NamedPath /\ c.to # c.path
    /\ At(T, c.to) = At(T, c.path)
    /\ SideIn(T, c.to) = None /\ c.sidecar = SideFile(c.to)

Unlinking(T, c) ==
    /\ FilesHave(T, {}) /\ FilesOnly(T, {c.path}) /\ DirsHave(T, {})
    /\ c.path \in NamedPath /\ c.path \notin FilesIn(T) /\ c.sidecar = SideFile(c.path)

Removing(T, c) ==
    /\ c.path \in NamedPath /\ At(T, c.path) \in Dirs
    /\ FilesHave(T, {}) /\ FilesOnly(T, {}) /\ DirsHave(T, {At(T, c.path)})
    /\ c.attrs # Undef /\ c.sidecar = [dir |-> At(T, c.path), name |-> DirSide]

Renaming(T, c) ==
    /\ c.path \in NamedPath /\ c.to \in FilesIn(T) /\ c.sidecar = SideFile(c.to)
    /\ DirsHave(T, {})
    /\ \/ AllHave(T) /\ At(T, c.path) = At(T, c.to)
       \/ /\ FilesHave(T, {c.to}) /\ FilesOnly(T, {c.path})
          /\ c.path \notin FilesIn(T) /\ SideIn(T, c.path) # None
          /\ SideIn(T, c.path) # SideIn(T, c.to)
          /\ \A q \in FilesIn(T) \ {c.to} :
                At(T, q) = At(T, c.to) <=> SideIn(T, q) = SideIn(T, c.path)

HalfDone(T, D, step, c) ==
    /\ step = "open" => Opening(T, c)
    /\ step = "link" => Linking(T, c)
    /\ step = "unlink" => Unlinking(T, c)
    /\ step = "rmdir" => Removing(T, c)
    /\ step = "rename" => Renaming(T, c)
    /\ step = "write" => AllHave(T) /\ c.attrs # Undef /\ Readable(T, D, {c.fd})
    /\ step # "write" => Readable(T, D, {})

SidecarInv ==
    /\ DirsOnce(ent)
    /\ Quiet => AllHave(ent) /\ Readable(ent, data, {})
    /\ \A t \in Threads : Busy(t) => HalfDone(ent, data, pc[t], call[t])

\* erlent alone has filled the tree, and the host never fails it.
NewTree == MaxFaults = 0 /\ \A d \in Dirs, n \in Entries : InitEnt[d][n] = None

-----------------------------------------------------------------------------
(* What one changed entry does to the three tables that make up a tree:    *)
(* objects by path, sidecars of files by path, sidecars of directories.    *)

SetObject(T, U, p, o) ==
    /\ \A q \in NamedPath : At(U, q) = IF q = p THEN o ELSE At(T, q)
    /\ \A q \in NamedPath : SideIn(U, q) = SideIn(T, q)
    /\ \A d \in Dirs : U[d][DirSide] = T[d][DirSide]

SetSide(T, U, p, s) ==
    /\ \A q \in NamedPath : At(U, q) = At(T, q)
    /\ \A q \in NamedPath : SideIn(U, q) = IF q = p THEN s ELSE SideIn(T, q)
    /\ \A d \in Dirs : U[d][DirSide] = T[d][DirSide]

SetDirSide(T, U, d, s) ==
    /\ \A q \in NamedPath : At(U, q) = At(T, q) /\ SideIn(U, q) = SideIn(T, q)
    /\ \A e \in Dirs : U[e][DirSide] = IF e = d THEN s ELSE T[e][DirSide]

LEMMA SideNames ==
    /\ \A p \in NamedPath : SideFile(p) \in SidePath /\ SideFile(p).name # DirSide
    /\ \A p, q \in NamedPath : SideFile(p) = SideFile(q) => p = q
    /\ \A d \in Dirs : [dir |-> d, name |-> DirSide] \in SidePath
    /\ \A n \in Entries \ Names : n = DirSide \/ \E m \in Names : n = SideOf(m)
<1>1. \A n, m : SideOf(n) # DirSide /\ (SideOf(n) = SideOf(m) => n = m)
  BY DEF SideOf, DirSide
<1>2. \A p, q \in NamedPath : SideFile(p) = SideFile(q) => p = q
  <2> SUFFICES ASSUME NEW p \in NamedPath, NEW q \in NamedPath, SideFile(p) = SideFile(q)
               PROVE  p = q
    OBVIOUS
  <2>1. p.dir = q.dir /\ SideOf(p.name) = SideOf(q.name)
    BY DEF SideFile
  <2> QED
    BY <1>1, <2>1 DEF NamedPath
<1>3. \A p \in NamedPath : SideFile(p) \in SidePath /\ SideFile(p).name # DirSide
  BY <1>1, EntryNames DEF SideFile, SidePath, NamedPath
<1> QED
  BY <1>2, <1>3, EntryNames DEF SidePath, Entries

LEMMA PutObject ==
    ASSUME NEW T, TreeOK(T), NEW p \in NamedPath, NEW o
    PROVE  SetObject(T, Put(T, p, o), p, o)
<1>1. \A q \in NamedPath : At(Put(T, p, o), q) = IF q = p THEN o ELSE At(T, q)
  BY PutAt, SidePaths
<1>2. \A s \in SidePath : At(Put(T, p, o), s) = At(T, s)
  BY PutAt, SidePaths
<1>3. \A d \in Dirs : LET s == [dir |-> d, name |-> DirSide]
                      IN  \A U : At(U, s) = U[d][DirSide]
  BY EntryNames DEF At
<1>4. \A d \in Dirs : Put(T, p, o)[d][DirSide] = T[d][DirSide]
  BY <1>2, <1>3, SideNames
<1> QED
  BY <1>1, <1>2, <1>4, SideNames DEF SetObject, SideIn

LEMMA PutSide ==
    ASSUME NEW T, TreeOK(T), NEW p \in NamedPath, NEW s
    PROVE  SetSide(T, Put(T, SideFile(p), s), p, s)
<1> DEFINE U == Put(T, SideFile(p), s)
<1>1. \A q \in NamedPath : At(U, q) = At(T, q)
  BY PutAt, SidePaths, SideNames
<1>2. \A q \in SidePath : At(U, q) = IF q = SideFile(p) THEN s ELSE At(T, q)
  BY PutAt, SideNames
<1>3. \A d \in Dirs : U[d][DirSide] = T[d][DirSide]
  <2> SUFFICES ASSUME NEW d \in Dirs
               PROVE  U[d][DirSide] = T[d][DirSide]
    OBVIOUS
  <2> DEFINE q == [dir |-> d, name |-> DirSide]
  <2>1. q \in SidePath /\ q # SideFile(p)
    BY SideNames
  <2>2. At(U, q) = U[d][DirSide] /\ At(T, q) = T[d][DirSide]
    BY EntryNames DEF At
  <2> QED
    BY <1>2, <2>1, <2>2
<1>4. \A q \in NamedPath : SideIn(U, q) = IF q = p THEN s ELSE SideIn(T, q)
  BY <1>2, SideNames DEF SideIn
<1> QED
  BY <1>1, <1>3, <1>4 DEF SetSide

LEMMA PutDirSide ==
    ASSUME NEW T, TreeOK(T), NEW d \in Dirs, NEW s
    PROVE  SetDirSide(T, Put(T, [dir |-> d, name |-> DirSide], s), d, s)
<1> DEFINE p == [dir |-> d, name |-> DirSide]
           U == Put(T, p, s)
<1>1. p \in SidePath
  BY SideNames
<1>2. \A q \in NamedPath : At(U, q) = At(T, q)
  BY <1>1, PutAt, SidePaths
<1>3. \A q \in SidePath : At(U, q) = IF q = p THEN s ELSE At(T, q)
  BY <1>1, PutAt
<1>4. \A e \in Dirs : U[e][DirSide] = IF e = d THEN s ELSE T[e][DirSide]
  <2> SUFFICES ASSUME NEW e \in Dirs
               PROVE  U[e][DirSide] = IF e = d THEN s ELSE T[e][DirSide]
    OBVIOUS
  <2> DEFINE q == [dir |-> e, name |-> DirSide]
  <2>1. q \in SidePath /\ (q = p <=> e = d)
    BY SideNames
  <2>2. At(U, q) = U[e][DirSide] /\ At(T, q) = T[e][DirSide]
    BY EntryNames DEF At
  <2> QED
    BY <1>3, <2>1, <2>2
<1>5. \A q \in NamedPath : SideIn(U, q) = SideIn(T, q)
  BY <1>3, SideNames DEF SideIn
<1> QED
  BY <1>2, <1>4, <1>5 DEF SetDirSide

LEMMA SideTypes ==
    ASSUME NEW T, TreeOK(T)
    PROVE  /\ \A p \in NamedPath : SideIn(T, p) \in Sides \cup {None}
           /\ \A d \in Dirs : T[d][DirSide] \in Sides \cup {None}
           /\ \A p \in NamedPath : At(T, p) \in Dirs \cup Files \cup {None}
  BY SideNames, AtOK, EntryNames DEF SideIn, TreeOK, Objects

\* What the tree refers to is in one of its three tables.
LEMMA Links ==
    ASSUME NEW T, TreeOK(T)
    PROVE  /\ \A p \in NamedPath : Linked(T, At(T, p)) /\ Linked(T, SideIn(T, p))
           /\ \A d \in Dirs : Linked(T, T[d][DirSide])
           /\ \A o \in Objects : Linked(T, o) => \E p \in NamedPath : At(T, p) = o
<1>1. DOMAIN T = Dirs /\ \A d \in Dirs : DOMAIN T[d] = Entries
  BY DEF TreeOK
<1>2. \A d \in Dirs, n \in Entries : Linked(T, T[d][n])
  BY <1>1 DEF Linked
<1>3. \A p \in NamedPath \cup SidePath : At(T, p) = T[p.dir][p.name]
  BY EntryNames, HostTreeAssumption DEF At, NamedPath, SidePath
<1>4. \A p \in NamedPath \cup SidePath : Linked(T, At(T, p))
  BY <1>2, <1>3, EntryNames DEF NamedPath, SidePath
<1>5. ASSUME NEW o \in Objects, Linked(T, o)
      PROVE  \E p \in NamedPath : At(T, p) = o
  <2>1. PICK d \in Dirs, n \in Entries : T[d][n] = o
    BY <1>1, <1>5 DEF Linked
  <2>2. n \in Names
    BY <2>1, EntryNames DEF TreeOK
  <2>3. [dir |-> d, name |-> n] \in NamedPath
    BY <2>2 DEF NamedPath
  <2> QED
    BY <1>3, <2>1, <2>3
<1> QED
  BY <1>2, <1>4, <1>5, SideNames, EntryNames DEF SideIn

LEMMA SweepReadable ==
    ASSUME NEW T, TreeOK(T), NEW D, NEW S, Readable(T, D, S)
    PROVE  Readable(T, Sweep(T, D), S)
  BY Links DEF Readable, Sweep

-----------------------------------------------------------------------------
(* Requests, from a tree where nothing is missing *)

\* The attributes of a directory can be read then.
LEMMA DirAttrs ==
    ASSUME TypeOK, Readable(ent, data, {}), NEW p, At(ent, p) \in Dirs
    PROVE  readAttrs(p, "DIRECTORY") \in Attrs
<1> DEFINE d == At(ent, p)
<1>1. attrsFileName(p, "DIRECTORY") \in SidePath
  BY DirSidecar
<1>2. At(ent, attrsFileName(p, "DIRECTORY")) = ent[d][DirSide]
  BY EntryNames DEF attrsFileName, At
<1>3. readAttrs(p, "DIRECTORY") \in Attrs \cup {Torn}
  BY <1>1, ReadOK
<1>4. ent[d][DirSide] \in Sides \cup {None}
  BY SideTypes DEF TypeOK
<1>5. defaultAttrs(At(ent, p)) # Torn
  BY DefaultAttrs, EmuAttrAssumption
<1>6. readAttrs(p, "DIRECTORY") # Torn
  BY <1>2, <1>4, <1>5 DEF readAttrs, Readable
<1> QED
  BY <1>3, <1>6

\* The tree, and what thread t has left to do on it, as SidecarInv of the next state.
LEMMA GoesOnSidecars ==
    ASSUME TypeOK, NEW t \in Threads, Quiet \/ Alone(t), NEW next \in Steps, NEW c,
           Continue(t, next, c), DirsOnce(ent'), HalfDone(ent', data', next, c)
    PROVE  SidecarInv'
<1>1. pc'[t] = next /\ call'[t] = c /\ Alone(t)'
  BY GoesOn
<1> QED
  BY <1>1 DEF SidecarInv, Quiet, Alone

LEMMA EndsSidecars ==
    ASSUME TypeOK, NEW t \in Threads, Quiet \/ Alone(t), NEW rep, Finish(t, rep),
           DirsOnce(ent'), AllHave(ent'), Readable(ent', data', {})
    PROVE  SidecarInv'
<1>1. Quiet'
  BY QuietEnd
<1> QED
  BY <1>1 DEF SidecarInv, Quiet

\* A request that finds the tree as it should be.
Begins(t) ==
    TypeOK /\ Quiet /\ DirsOnce(ent) /\ AllHave(ent) /\ Readable(ent, data, {})

LEMMA SetAttrsSidecars ==
    ASSUME NEW t \in Threads, Begins(t), Chown(t) \/ Chmod(t)
    PROVE  SidecarInv'
<1>1. UNCHANGED <<ent, data>>
  BY DEF Chown, Chmod
<1>2. TargetInv' /\ TypeOK'
  BY SetAttrsTarget, SetAttrsType DEF Begins
<1>3. (\E rep : Finish(t, rep)) \/ \E c : /\ Continue(t, "open", c) /\ c.op # "RMDIR"
                                         /\ c.path \in Existing(ent)
  <2>1. \/ \E rep : Finish(t, rep)
        \/ \E p \in Existing(ent), op \in {"CHOWN", "CHMOD"} : \E s, b :
              Continue(t, "open", Call(op, p, p, s, b, OK))
    <3>1. CASE Chown(t)
      BY <3>1 DEF Chown
    <3>2. CASE Chmod(t)
      BY <3>2 DEF Chmod
    <3> QED
      BY <3>1, <3>2
  <2>2. ASSUME NEW p \in Existing(ent), NEW op \in {"CHOWN", "CHMOD"}, NEW s, NEW b
        PROVE  Call(op, p, p, s, b, OK).op # "RMDIR" /\ Call(op, p, p, s, b, OK).path = p
    BY DEF Call
  <2> QED
    BY <2>1, <2>2
<1>4. CASE \E rep : Finish(t, rep)
  BY <1>1, <1>4, EndsSidecars DEF Begins
<1>5. ASSUME NEW c, Continue(t, "open", c), c.op # "RMDIR", c.path \in Existing(ent)
      PROVE  SidecarInv'
  <2>1. pc'[t] = "open" /\ call'[t] = c
    BY <1>5, GoesOn DEF Begins, Steps
  <2>2. SetsOwnSidecar(pc[t], call[t])'
    BY <1>2 DEF TargetInv
  <2>3. /\ c.attrs # Undef
        /\ c.path \in NamedPath \/ At(ent, c.path) \in Dirs
        /\ c.sidecar = attrsFileName(c.path, dirfile(c.path))
    BY <1>1, <1>5, <2>1, <2>2 DEF SetsOwnSidecar, attrsFileName, dirfile
  <2>4. Opening(ent, c)
    <3>1. CASE At(ent, c.path) \in Dirs
      <4>1. c.sidecar.name = DirSide
        BY <2>3, <3>1 DEF attrsFileName, dirfile
      <4> QED
        BY <2>3, <4>1 DEF Opening, Begins, AllHave, DirsHave
    <3>2. CASE At(ent, c.path) \notin Dirs
      <4>1. c.path \in NamedPath /\ c.sidecar = SideFile(c.path)
        BY <2>3, <3>2 DEF attrsFileName, dirfile, SideFile
      <4>2. At(ent, c.path) # None
        BY <1>5, <3>2, PathSets, HostTreeAssumption DEF Existing
      <4> QED
        BY <2>3, <3>2, <4>1, <4>2, SideTypes DEF Opening, Begins, AllHave, FilesIn, TypeOK
    <3> QED
      BY <3>1, <3>2
  <2> QED
    BY <1>1, <1>5, <2>4, GoesOnSidecars DEF HalfDone, Begins, Steps
<1> QED
  BY <1>3, <1>4, <1>5

\* A new object, at p, still without its sidecar s.
LEMMA NewObjectSidecars ==
    ASSUME NEW t \in Threads, Begins(t), NEW op \in Ops, NEW p \in NamedPath, NEW s,
           NEW mode \in SUBSET Bits, NEW uid \in ReqUids, NEW gid \in ReqGids,
           emu_creat_mkdir(t, op, p, s, mode, uid, gid), data' = data,
           DirsOnce(ent'), Readable(ent', data, {}),
           \A c : c.path = p /\ c.sidecar = s /\ c.attrs # Undef => Opening(ent', c)
    PROVE  SidecarInv'
<1> DEFINE dirA == readAttrs(dirOf(p), "DIRECTORY")
           a == [mode |-> mode, uid |-> storedUid[uid],
                 gid |-> IF "sgid" \in dirA.mode THEN dirA.gid ELSE storedGid[gid]]
           c == Call(op, p, p, s, a, OK)
<1>1. At(ent, dirOf(p)) \in Dirs
  BY DEF dirOf, At, NamedPath
<1>2. dirA \in Attrs /\ dirA # Torn
  BY <1>1, DirAttrs, EmuAttrAssumption DEF Begins
<1>3. a \in Attrs /\ a # Undef
  BY <1>2, WrittenAttrs
<1>4. Continue(t, "open", c)
  BY <1>2 DEF emu_creat_mkdir
<1> HIDE DEF a
<1>5. Opening(ent', c)
  BY <1>3 DEF Call
<1> HIDE DEF c
<1> QED
  BY <1>4, <1>5, GoesOnSidecars DEF HalfDone, Begins, Steps

LEMMA CreatSidecars ==
    ASSUME NEW t \in Threads, Begins(t), Creat(t)
    PROVE  SidecarInv'
<1>1. PICK p \in Absent(ent), uid \in ReqUids \ {NoId}, gid \in ReqGids \ {NoId},
           mode \in ReqModes, op \in {"CREAT", "MKNOD", "SYMLINK"} :
        /\ CanCreate(Files)
        /\ ent' = Put(ent, p, FreshFile)
        /\ emu_creat_mkdir(t, op, p, attrsFileName(p, "FILE"),
                           IF op = "SYMLINK" THEN linkmode ELSE mode, uid, gid)
        /\ data' = data
  BY DEF Creat
<1>2. p \in NamedPath /\ At(ent, p) = None
  BY PathSets DEF Absent
<1>3. (IF op = "SYMLINK" THEN linkmode ELSE mode) \in SUBSET Bits
  BY EmuAttrAssumption DEF linkmode, Bits
<1>4. SetObject(ent, ent', p, FreshFile)
  BY <1>1, <1>2, PutObject DEF Begins, TypeOK
<1>5. FreshFile \in Files /\ ~Linked(ent, FreshFile)
  BY <1>1 DEF CanCreate, FreshFile
<1>6. FreshFile \notin Dirs /\ FreshFile # Root /\ FreshFile # None
  BY <1>5, HostTreeAssumption
<1>7. \A q \in NamedPath : At(ent, q) # FreshFile
  BY <1>5, Links DEF Begins, TypeOK
<1> HIDE DEF FreshFile
<1>8. DirsOnce(ent')
  BY <1>2, <1>4, <1>6 DEF DirsOnce, SetObject, Begins
<1>9. Readable(ent', data, {})
  BY <1>4 DEF Readable, SetObject, Begins
<1>10. FilesIn(ent') = FilesIn(ent) \cup {p} /\ p \notin FilesIn(ent)
  BY <1>2, <1>4, <1>5, HostTreeAssumption DEF FilesIn, SetObject
<1>11. FilesHave(ent', {p}) /\ FilesOnly(ent', {}) /\ SideIn(ent', p) = None
  BY <1>2, <1>4, <1>10 DEF FilesHave, FilesOnly, FilesIn, SetObject, Begins, AllHave
<1>12. DirsHave(ent', {})
  <2>1. \A q \in NamedPath : At(ent', q) \in Dirs => At(ent, q) = At(ent', q)
    BY <1>4, <1>6 DEF SetObject
  <2>2. \A d \in Dirs : ent'[d][DirSide] = ent[d][DirSide]
    BY <1>4 DEF SetObject
  <2> QED
    BY <2>1, <2>2 DEF DirsHave, Begins, AllHave
<1>13. \A q \in FilesIn(ent') : At(ent', q) = At(ent', p) => q = p
  BY <1>2, <1>4, <1>7 DEF SetObject, FilesIn
<1>14. attrsFileName(p, "FILE") = SideFile(p)
  BY DEF attrsFileName, SideFile
<1>15. \A c : c.path = p /\ c.sidecar = SideFile(p) /\ c.attrs # Undef => Opening(ent', c)
  BY <1>10, <1>11, <1>12, <1>13 DEF Opening
<1> QED
  BY <1>1, <1>2, <1>3, <1>8, <1>9, <1>14, <1>15, NewObjectSidecars DEF Ops

LEMMA MkdirSidecars ==
    ASSUME NEW t \in Threads, Begins(t), Mkdir(t)
    PROVE  SidecarInv'
<1>1. PICK p \in Absent(ent), uid \in ReqUids \ {NoId}, gid \in ReqGids \ {NoId},
           mode \in ReqModes :
        /\ CanCreate(Dirs)
        /\ ent' = Put(ent, p, FreshDir)
        /\ emu_creat_mkdir(t, "MKDIR", p, [dir |-> FreshDir, name |-> DirSide],
                           mode, uid, gid)
        /\ data' = data
  BY DEF Mkdir
<1>2. p \in NamedPath /\ At(ent, p) = None
  BY PathSets DEF Absent
<1>3. mode \in SUBSET Bits
  BY EmuAttrAssumption
<1>4. SetObject(ent, ent', p, FreshDir)
  BY <1>1, <1>2, PutObject DEF Begins, TypeOK
<1>5. FreshDir \in Dirs /\ FreshDir # Root /\ ~Linked(ent, FreshDir)
  BY <1>1, EmuAttrAssumption DEF CanCreate, FreshDir
<1>6. FreshDir \notin Files
  BY <1>5, HostTreeAssumption
<1>7. \A q \in NamedPath : At(ent, q) # FreshDir
  BY <1>5, Links DEF Begins, TypeOK
<1> HIDE DEF FreshDir
<1>8. DirsOnce(ent')
  BY <1>4, <1>5, <1>7 DEF DirsOnce, SetObject, Begins
<1>9. Readable(ent', data, {})
  BY <1>4 DEF Readable, SetObject, Begins
<1>10. FilesIn(ent') = FilesIn(ent)
  BY <1>2, <1>4, <1>6, HostTreeAssumption DEF FilesIn, SetObject
<1>11. FilesHave(ent', {}) /\ FilesOnly(ent', {})
  BY <1>2, <1>4, <1>6, <1>10, HostTreeAssumption
     DEF FilesHave, FilesOnly, FilesIn, SetObject, Begins, AllHave
<1>12. DirsHave(ent', {FreshDir})
  <2>1. \A q \in NamedPath : At(ent', q) \in Dirs \ {FreshDir} => At(ent, q) = At(ent', q)
    BY <1>4 DEF SetObject
  <2>2. \A d \in Dirs : ent'[d][DirSide] = ent[d][DirSide]
    BY <1>4 DEF SetObject
  <2> QED
    BY <2>1, <2>2 DEF DirsHave, Begins, AllHave
<1>13. \A c : /\ c.path = p /\ c.attrs # Undef
              /\ c.sidecar = [dir |-> FreshDir, name |-> DirSide]
              => Opening(ent', c)
  BY <1>11, <1>12 DEF Opening
<1> QED
  BY <1>1, <1>2, <1>3, <1>8, <1>9, <1>13, NewObjectSidecars DEF Ops

LEMMA LinkSidecars ==
    ASSUME NEW t \in Threads, Begins(t), Link(t)
    PROVE  SidecarInv'
<1>1. PICK p \in FilePaths(ent), q \in Absent(ent) :
        /\ ent' = link(ent, p, q)
        /\ Continue(t, "link", Call("LINK", p, q, attrsFileName(q, "FILE"), Undef, OK))
        /\ data' = data
  BY DEF Link
<1> DEFINE o == At(ent, p)
           c == Call("LINK", p, q, attrsFileName(q, "FILE"), Undef, OK)
<1>2. /\ p \in NamedPath /\ q \in NamedPath /\ At(ent, q) = None
      /\ o \in Files /\ o # None /\ o \notin Dirs /\ o # Root
  BY PathSets, HostTreeAssumption DEF Absent
<1>3. ent' = Put(ent, q, o)
  BY <1>1, <1>2 DEF link, linkError
<1>4. SetObject(ent, ent', q, o)
  BY <1>2, <1>3, PutObject DEF Begins, TypeOK
<1>5. c.path = p /\ c.to = q /\ c.sidecar = SideFile(q)
  BY DEF Call, attrsFileName, SideFile
<1>6. p # q /\ At(ent', p) = o /\ At(ent', q) = o
  BY <1>2, <1>4 DEF SetObject
<1> HIDE DEF c, o
<1>7. DirsOnce(ent')
  BY <1>2, <1>4 DEF DirsOnce, SetObject, Begins
<1>8. Readable(ent', data, {})
  BY <1>4 DEF Readable, SetObject, Begins
<1>9. FilesIn(ent') = FilesIn(ent) \cup {q} /\ q \notin FilesIn(ent)
  BY <1>2, <1>4, HostTreeAssumption DEF FilesIn, SetObject
<1>10. FilesHave(ent', {q}) /\ FilesOnly(ent', {}) /\ SideIn(ent', q) = None
  BY <1>2, <1>4, <1>9 DEF FilesHave, FilesOnly, FilesIn, SetObject, Begins, AllHave
<1>11. DirsHave(ent', {})
  <2>1. \A x \in NamedPath : At(ent', x) \in Dirs => At(ent, x) = At(ent', x)
    BY <1>2, <1>4 DEF SetObject
  <2>2. \A d \in Dirs : ent'[d][DirSide] = ent[d][DirSide]
    BY <1>4 DEF SetObject
  <2> QED
    BY <2>1, <2>2 DEF DirsHave, Begins, AllHave
<1>12. Linking(ent', c)
  BY <1>2, <1>5, <1>6, <1>10, <1>11 DEF Linking, FilesIn
<1> QED
  BY <1>1, <1>7, <1>8, <1>12, GoesOnSidecars DEF HalfDone, Begins, Steps, c

LEMMA UnlinkSidecars ==
    ASSUME NEW t \in Threads, Begins(t), Unlink(t)
    PROVE  SidecarInv'
<1>1. PICK p \in FilePaths(ent) :
        /\ ent' = unlink(ent, p)
        /\ Continue(t, "unlink", Call("UNLINK", p, p, attrsFileName(p, "FILE"), Undef, OK))
        /\ data' = data
  BY DEF Unlink
<1> DEFINE c == Call("UNLINK", p, p, attrsFileName(p, "FILE"), Undef, OK)
<1>2. p \in NamedPath /\ At(ent, p) \in Files /\ None \notin Dirs /\ None \notin Files
  BY PathSets, HostTreeAssumption
<1>3. SetObject(ent, ent', p, None)
  BY <1>1, <1>2, PutObject DEF Begins, TypeOK, unlink
<1>4. c.path = p /\ c.sidecar = SideFile(p)
  BY DEF Call, attrsFileName, SideFile
<1> HIDE DEF c
<1>5. DirsOnce(ent')
  BY <1>2, <1>3, HostTreeAssumption DEF DirsOnce, SetObject, Begins
<1>6. Readable(ent', data, {})
  BY <1>3 DEF Readable, SetObject, Begins
<1>7. FilesIn(ent') = FilesIn(ent) \ {p}
  BY <1>2, <1>3 DEF FilesIn, SetObject
<1>8. FilesHave(ent', {}) /\ FilesOnly(ent', {p})
  BY <1>2, <1>3, <1>7 DEF FilesHave, FilesOnly, FilesIn, SetObject, Begins, AllHave
<1>9. DirsHave(ent', {})
  <2>1. \A x \in NamedPath : At(ent', x) \in Dirs => At(ent, x) = At(ent', x)
    BY <1>2, <1>3 DEF SetObject
  <2>2. \A d \in Dirs : ent'[d][DirSide] = ent[d][DirSide]
    BY <1>3 DEF SetObject
  <2> QED
    BY <2>1, <2>2 DEF DirsHave, Begins, AllHave
<1>10. Unlinking(ent', c)
  BY <1>2, <1>4, <1>7, <1>8, <1>9 DEF Unlinking
<1> QED
  BY <1>1, <1>5, <1>6, <1>10, GoesOnSidecars DEF HalfDone, Begins, Steps, c

LEMMA RmdirSidecars ==
    ASSUME NEW t \in Threads, Begins(t), Rmdir(t)
    PROVE  SidecarInv'
<1>1. PICK p \in DirPaths(ent) \ {RootPath} :
        LET a == readAttrs(p, "DIRECTORY")
            s == attrsFileName(p, "DIRECTORY")
        IN  /\ ent' = unlink(ent, s)
            /\ data' = Sweep(ent', data)
            /\ Continue(t, "rmdir", Call("RMDIR", p, p, s, IF a = Torn THEN Undef ELSE a, OK))
  BY DEF Rmdir
<1> DEFINE d == At(ent, p)
           a == readAttrs(p, "DIRECTORY")
           s == [dir |-> d, name |-> DirSide]
           c == Call("RMDIR", p, p, s, a, OK)
<1>2. p \in NamedPath /\ d \in Dirs
  BY PathSets
<1>3. a \in Attrs /\ a # Torn /\ a # Undef
  BY <1>2, DirAttrs, EmuAttrAssumption DEF Begins
<1>4. s = attrsFileName(p, "DIRECTORY")
  BY DEF attrsFileName
<1>5. ent' = Put(ent, s, None) /\ data' = Sweep(ent', data) /\ Continue(t, "rmdir", c)
  BY <1>1, <1>3, <1>4 DEF unlink
<1>6. SetDirSide(ent, ent', d, None)
  BY <1>2, <1>5, PutDirSide DEF Begins, TypeOK
<1>7. c.path = p /\ c.sidecar = s /\ c.attrs = a
  BY DEF Call
<1>8. TypeOK'
  BY RmdirType DEF Begins
<1> HIDE DEF c, a, d
<1>9. DirsOnce(ent')
  BY <1>6 DEF DirsOnce, SetDirSide, Begins
<1>10. Readable(ent', data', {})
  <2>1. Readable(ent', data, {})
    BY <1>6, EntryNames DEF Readable, SetDirSide, Begins
  <2> QED
    BY <1>5, <1>8, <2>1, SweepReadable DEF TypeOK
<1>11. FilesHave(ent', {}) /\ FilesOnly(ent', {})
  BY <1>6 DEF FilesHave, FilesOnly, FilesIn, SetDirSide, Begins, AllHave
<1>12. DirsHave(ent', {d})
  BY <1>6 DEF DirsHave, SetDirSide, Begins, AllHave
<1>13. At(ent', p) = d
  BY <1>2, <1>6 DEF SetDirSide, d
<1>14. Removing(ent', c)
  BY <1>2, <1>3, <1>7, <1>11, <1>12, <1>13 DEF Removing
<1> QED
  BY <1>5, <1>9, <1>10, <1>14, GoesOnSidecars DEF HalfDone, Begins, Steps

LEMMA RenameSidecars ==
    ASSUME NEW t \in Threads, Begins(t), Rename(t)
    PROVE  SidecarInv'
<1>1. PICK p \in Existing(ent), q \in Paths(ent) :
        LET err == renameError(ent, p, q)
        IN  /\ MayRename(ent, p, q)
            /\ ent' = rename(ent, p, q)
            /\ IF err = OK /\ At(ent', q) \in Files
               THEN Continue(t, "rename",
                             Call("RENAME", p, q, attrsFileName(q, "FILE"), Undef, OK))
               ELSE Finish(t, Reply(err))
            /\ data' = data
  BY DEF Rename
<1> DEFINE o == At(ent, p)
           c == Call("RENAME", p, q, attrsFileName(q, "FILE"), Undef, OK)
<1>2. p \in NamedPath /\ q \in NamedPath /\ o # None
  BY <1>1, PathSets DEF MayRename, Existing
<1>3. c.path = p /\ c.to = q /\ c.sidecar = SideFile(q)
  BY DEF Call, attrsFileName, SideFile
<1> HIDE DEF c
<1>4. CASE ent' = ent
  <2>1. CASE renameError(ent, p, q) = OK /\ At(ent, q) \in Files
    <3>1. At(ent, q) = o
      <4>1. SUFFICES ASSUME o # At(ent, q)
                     PROVE  FALSE
        OBVIOUS
      <4>2. ent = Put(Put(ent, q, o), p, None)
        BY <1>1, <1>4, <2>1, <4>1 DEF rename
      <4>3. TreeOK(Put(ent, q, o))
        BY <1>2, AtOK, PutOK DEF Begins, TypeOK
      <4> QED
        BY <1>2, <4>2, <4>3, PutObject DEF SetObject
    <3>2. Renaming(ent, c)
      BY <1>2, <1>3, <2>1, <3>1 DEF Renaming, FilesIn, Begins, AllHave
    <3> QED
      BY <1>1, <1>4, <2>1, <3>2, GoesOnSidecars DEF HalfDone, Begins, Steps, c
  <2>2. CASE ~(renameError(ent, p, q) = OK /\ At(ent, q) \in Files)
    BY <1>1, <1>4, <2>2, EndsSidecars DEF Begins
  <2> QED
    BY <2>1, <2>2
<1>5. CASE ent' # ent
  <2>1. renameError(ent, p, q) = OK /\ o # At(ent, q)
    BY <1>1, <1>5 DEF rename
  <2>2. ent' = Put(Put(ent, q, o), p, None)
    BY <1>1, <2>1 DEF rename
  <2> DEFINE T == Put(ent, q, o)
  <2>3. TreeOK(T)
    BY <1>2, AtOK, PutOK DEF Begins, TypeOK
  <2>4. SetObject(ent, T, q, o) /\ SetObject(T, ent', p, None)
    BY <1>2, <2>2, <2>3, PutObject DEF Begins, TypeOK
  <2> HIDE DEF T
  <2>5. /\ \A x \in NamedPath :
              At(ent', x) = IF x = p THEN None ELSE IF x = q THEN o ELSE At(ent, x)
        /\ \A x \in NamedPath : SideIn(ent', x) = SideIn(ent, x)
        /\ \A d \in Dirs : ent'[d][DirSide] = ent[d][DirSide]
    BY <2>4 DEF SetObject
  <2>6. p # q /\ At(ent', p) = None /\ At(ent', q) = o
    BY <1>2, <2>1, <2>5
  <2>7. At(ent, q) \notin Dirs
    <3>1. SUFFICES ASSUME At(ent, q) \in Dirs
                   PROVE  FALSE
      OBVIOUS
    <3>2. EmptyDir(ent, At(ent, q))
      BY <2>1, <3>1 DEF renameError, OK
    <3>3. ent[At(ent, q)][DirSide] = None
      BY <3>1, <3>2, EntryNames DEF EmptyDir, Begins, TypeOK, TreeOK
    <3> QED
      BY <1>2, <3>1, <3>3 DEF Begins, AllHave, DirsHave
  <2>8. None \notin Dirs /\ None \notin Files /\ None # Root /\ Dirs \cap Files = {}
    BY HostTreeAssumption
  <2>9. DirsOnce(ent')
    <3>1. \A x \in NamedPath : At(ent', x) # Root
      BY <1>2, <2>5, <2>8 DEF DirsOnce, Begins
    <3>2. \A x, y \in NamedPath : At(ent', x) = At(ent', y) /\ At(ent', x) \in Dirs => x = y
      BY <1>2, <2>5, <2>8 DEF DirsOnce, Begins
    <3> QED
      BY <3>1, <3>2 DEF DirsOnce
  <2>10. Readable(ent', data, {})
    BY <2>5 DEF Readable, Begins
  <2>11. DirsHave(ent', {})
    BY <1>2, <2>5, <2>8 DEF DirsHave, Begins, AllHave
  <2>12. CASE o \in Files
    <3>1. FilesIn(ent') = (FilesIn(ent) \ {p}) \cup {q}
      BY <1>2, <2>5, <2>6, <2>8, <2>12 DEF FilesIn
    <3>2. FilesHave(ent', {q}) /\ FilesOnly(ent', {p})
      BY <1>2, <2>5, <2>6, <3>1 DEF FilesHave, FilesOnly, FilesIn, Begins, AllHave
    <3>3. p \in FilesIn(ent) /\ SideIn(ent, p) # None
      BY <1>2, <2>12 DEF FilesIn, FilesHave, Begins, AllHave
    <3>4. SideIn(ent, p) # SideIn(ent, q)
      <4>1. CASE q \in FilesIn(ent)
        BY <2>1, <3>3, <4>1 DEF FilesHave, Begins, AllHave
      <4>2. CASE q \notin FilesIn(ent)
        BY <1>2, <3>3, <4>2 DEF FilesOnly, Begins, AllHave
      <4> QED
        BY <4>1, <4>2
    <3>5. \A x \in FilesIn(ent') \ {q} :
              At(ent', x) = At(ent', q) <=> SideIn(ent', x) = SideIn(ent', p)
      BY <1>2, <2>5, <2>6, <3>1, <3>3 DEF FilesHave, FilesIn, Begins, AllHave
    <3>6. Renaming(ent', c)
      <4>1. q \in FilesIn(ent') /\ p \notin FilesIn(ent')
        BY <2>6, <3>1
      <4> QED
        BY <1>2, <1>3, <2>5, <2>11, <3>2, <3>3, <3>4, <3>5, <4>1 DEF Renaming
    <3>7. Continue(t, "rename", c)
      BY <1>1, <2>1, <2>6, <2>12 DEF c
    <3> QED
      BY <1>1, <2>9, <2>10, <3>6, <3>7, GoesOnSidecars DEF HalfDone, Begins, Steps
  <2>13. CASE o \notin Files
    <3>1. o \in Dirs /\ At(ent, q) = None
      BY <1>1, <1>2, <2>7, <2>13, SideTypes DEF MayRename, Begins, TypeOK
    <3>2. FilesIn(ent') = FilesIn(ent)
      BY <1>2, <2>5, <2>8, <2>13, <3>1 DEF FilesIn
    <3>3. FilesHave(ent', {}) /\ FilesOnly(ent', {})
      BY <1>2, <2>5, <2>8, <2>13, <3>1, <3>2 DEF FilesHave, FilesOnly, FilesIn, Begins, AllHave
    <3>4. Finish(t, Reply(OK))
      BY <1>1, <2>1, <2>6, <2>13
    <3> QED
      BY <1>1, <2>9, <2>10, <2>11, <3>3, <3>4, EndsSidecars DEF AllHave, Begins
  <2> QED
    BY <2>12, <2>13
<1> QED
  BY <1>4, <1>5

LEMMA RequestSidecars ==
    ASSUME NEW t \in Threads, Begins(t), Request(t)
    PROVE  SidecarInv'
<1>1. CASE Getattr(t) \/ Readdir(t) \/ PassThrough(t) \/ Refuse(t)
  <2>1. (\E rep : Finish(t, rep)) /\ UNCHANGED <<ent, data>>
    BY <1>1 DEF Getattr, Readdir, PassThrough, Refuse
  <2> QED
    BY <2>1, EndsSidecars DEF Begins
<1> QED
  BY <1>1, SetAttrsSidecars, CreatSidecars, MkdirSidecars, LinkSidecars, UnlinkSidecars,
     RmdirSidecars, RenameSidecars DEF Request

-----------------------------------------------------------------------------
(* The steps after the first one *)

\* A thread in the middle of a request, and what it knows.
Goes(t) == TypeOK /\ Alone(t) /\ DirsOnce(ent) /\ HalfDone(ent, data, pc[t], call[t])

LEMMA OpenSidecars ==
    ASSUME NEW t \in Threads, Goes(t), OpenSidecar(t)
    PROVE  SidecarInv'
<1> DEFINE s == IF At(ent, call[t].sidecar) = None THEN FreshSide ELSE At(ent, call[t].sidecar)
<1>1. PICK c : c = call[t]
  OBVIOUS
<1>2. c \in CallType /\ c.sidecar \in SidePath
  BY <1>1 DEF OpenSidecar, Goes, TypeOK, ThreadsOK, CallOK
<1>3. PICK d : d = [c EXCEPT !.fd = s]
  OBVIOUS
<1>4. d.fd = s /\ d.attrs = c.attrs /\ d.path = c.path /\ d.sidecar = c.sidecar
  BY <1>2, <1>3 DEF CallType
<1>5. /\ ent' = Put(ent, c.sidecar, s) /\ data' = [data EXCEPT ![s] = Torn]
      /\ Continue(t, "write", d)
  BY <1>1, <1>3 DEF OpenSidecar
<1>6. Opening(ent, c) /\ Readable(ent, data, {})
  BY <1>1 DEF OpenSidecar, Goes, HalfDone
<1>7. s \in Sides /\ s # None /\ (At(ent, c.sidecar) # None => s = At(ent, c.sidecar))
  BY <1>1, <1>2, AtOK, FreshInodes, EntryNames DEF OpenSidecar, Goes, TypeOK
<1>8. At(ent, c.sidecar) = None => ~Linked(ent, s)
  BY <1>1 DEF OpenSidecar, CanCreate, FreshSide
<1>9. \A x \in Sides : x # s => data'[x] = data[x]
  BY <1>5 DEF Goes, TypeOK
<1> HIDE DEF s
<1>10. /\ \/ c.sidecar.name = DirSide /\ SetDirSide(ent, ent', c.sidecar.dir, s)
             /\ c.sidecar.dir \in Dirs
          \/ /\ c.path \in FilesIn(ent) /\ c.sidecar = SideFile(c.path)
             /\ SetSide(ent, ent', c.path, s)
             /\ At(ent, c.sidecar) = SideIn(ent, c.path)
  <2>1. CASE c.sidecar.name = DirSide
    <3>1. c.sidecar = [dir |-> c.sidecar.dir, name |-> DirSide] /\ c.sidecar.dir \in Dirs
      BY <1>2, <2>1 DEF SidePath
    <3> QED
      BY <1>5, <2>1, <3>1, PutDirSide DEF Goes, TypeOK
  <2>2. CASE c.sidecar.name # DirSide
    <3>1. c.path \in FilesIn(ent) /\ c.sidecar = SideFile(c.path)
      BY <1>6, <2>2 DEF Opening
    <3> QED
      BY <1>5, <3>1, PutSide DEF Goes, TypeOK, FilesIn, SideIn
  <2> QED
    BY <2>1, <2>2
<1>11. FilesIn(ent') = FilesIn(ent) /\ \A p \in NamedPath : At(ent', p) = At(ent, p)
  BY <1>10 DEF FilesIn, SetSide, SetDirSide
<1>12. DirsOnce(ent')
  BY <1>11 DEF DirsOnce, Goes
<1>13. Readable(ent', data', {s})
  BY <1>6, <1>9, <1>10 DEF Readable, SetSide, SetDirSide
<1>14. AllHave(ent')
  <2>1. CASE c.sidecar.name = DirSide
    <3>1. SetDirSide(ent, ent', c.sidecar.dir, s) /\ c.sidecar.dir \in Dirs
      BY <1>10, <2>1, SideNames DEF FilesIn
    <3>2. FilesHave(ent, {}) /\ FilesOnly(ent, {}) /\ DirsHave(ent, {c.sidecar.dir})
      BY <1>6, <2>1, SideNames DEF Opening, AllHave, FilesIn
    <3>3. FilesHave(ent', {}) /\ FilesOnly(ent', {})
      BY <1>11, <3>1, <3>2 DEF FilesHave, FilesOnly, FilesIn, SetDirSide
    <3>4. DirsHave(ent', {})
      BY <1>7, <1>11, <3>1, <3>2 DEF DirsHave, SetDirSide
    <3> QED
      BY <3>3, <3>4 DEF AllHave
  <2>2. CASE c.sidecar.name # DirSide
    <3>1. /\ c.path \in FilesIn(ent) /\ SetSide(ent, ent', c.path, s)
          /\ At(ent, c.sidecar) = SideIn(ent, c.path)
      BY <1>10, <2>2
    <3>2. DirsHave(ent, {}) /\ FilesOnly(ent, {})
      BY <1>6, <2>2 DEF Opening, AllHave
    <3>3. DirsHave(ent', {})
      BY <1>11, <3>1, <3>2 DEF DirsHave, SetSide
    <3>4. FilesOnly(ent', {})
      BY <1>11, <3>1, <3>2 DEF FilesOnly, SetSide
    <3>5. FilesHave(ent', {})
      <4>1. CASE SideIn(ent, c.path) # None
        <5>1. FilesHave(ent, {})
          BY <1>6, <2>2, <4>1 DEF Opening, AllHave
        <5>2. \A p \in NamedPath : SideIn(ent', p) = SideIn(ent, p)
          BY <1>7, <3>1, <4>1 DEF SetSide
        <5> QED
          BY <1>11, <5>1, <5>2 DEF FilesHave, FilesIn
      <4>2. CASE SideIn(ent, c.path) = None
        <5>1. /\ FilesHave(ent, {c.path})
              /\ \A q \in FilesIn(ent) : At(ent, q) = At(ent, c.path) => q = c.path
          BY <1>6, <2>2, <4>2 DEF Opening, AllHave, FilesHave
        <5>2. \A p \in NamedPath : SideIn(ent, p) # s
          BY <1>8, <3>1, <4>2, Links DEF Goes, TypeOK
        <5> QED
          BY <1>7, <1>11, <3>1, <5>1, <5>2 DEF FilesHave, FilesIn, SetSide
      <4> QED
        BY <4>1, <4>2
    <3> QED
      BY <3>3, <3>4, <3>5 DEF AllHave
  <2> QED
    BY <2>1, <2>2
<1>15. d.attrs # Undef
  BY <1>4, <1>6 DEF Opening
<1> QED
  BY <1>4, <1>5, <1>12, <1>13, <1>14, <1>15, GoesOnSidecars DEF HalfDone, Goes, Steps

LEMMA WriteSidecars ==
    ASSUME NEW t \in Threads, Goes(t), WriteSidecar(t)
    PROVE  SidecarInv'
<1> DEFINE c == call[t]
<1>1. AllHave(ent) /\ c.attrs # Undef /\ Readable(ent, data, {c.fd})
  BY DEF WriteSidecar, Goes, HalfDone
<1>2. data' = [data EXCEPT ![c.fd] = c.attrs] /\ ent' = ent
  BY <1>1 DEF WriteSidecar
<1>3. c.fd \in Sides /\ c.attrs # Torn
  BY <1>1, EmuAttrAssumption DEF WriteSidecar, Goes, TypeOK, ThreadsOK, CallOK, CallType
<1>4. \A x \in Sides : data'[x] = IF x = c.fd THEN c.attrs ELSE data[x]
  BY <1>2, <1>3 DEF Goes, TypeOK
<1>5. Readable(ent', data', {})
  BY <1>1, <1>2, <1>3, <1>4 DEF Readable
<1> QED
  BY <1>1, <1>2, <1>5, EndsSidecars DEF WriteSidecar, Goes

LEMMA LinkedSidecars ==
    ASSUME NEW t \in Threads, Goes(t), LinkSidecar(t)
    PROVE  SidecarInv'
<1> DEFINE c == call[t]
           s == SideIn(ent, c.path)
<1>1. Linking(ent, c) /\ Readable(ent, data, {})
  BY DEF LinkSidecar, Goes, HalfDone
<1>2. attrsFileName(c.path, "FILE") = SideFile(c.path)
  BY DEF attrsFileName, SideFile
<1>3. s # None
  BY <1>1 DEF Linking, FilesHave
<1>4. c.to \in NamedPath /\ ent' = Put(ent, SideFile(c.to), s) /\ data' = data
  BY <1>1, <1>2, <1>3 DEF LinkSidecar, link, linkError, Linking, SideIn
<1>5. SetSide(ent, ent', c.to, s)
  BY <1>4, PutSide DEF Goes, TypeOK
<1>6. FilesIn(ent') = FilesIn(ent) /\ \A p \in NamedPath : At(ent', p) = At(ent, p)
  BY <1>5 DEF FilesIn, SetSide
<1>7. DirsOnce(ent') /\ DirsHave(ent', {})
  BY <1>1, <1>5, <1>6 DEF DirsOnce, DirsHave, SetSide, Goes, Linking
<1>8. Readable(ent', data', {})
  <2>1. c.path \in NamedPath
    BY <1>1 DEF Linking, FilesIn
  <2> QED
    BY <1>1, <1>4, <1>5, <2>1 DEF Readable, SetSide
<1>9. FilesHave(ent', {})
  BY <1>1, <1>3, <1>5, <1>6 DEF FilesHave, FilesIn, SetSide, Linking
<1>10. FilesOnly(ent', {})
  BY <1>1, <1>5, <1>6 DEF FilesOnly, FilesIn, SetSide, Linking
<1> QED
  BY <1>7, <1>8, <1>9, <1>10, EndsSidecars DEF LinkSidecar, Goes, AllHave

LEMMA UnlinkedSidecars ==
    ASSUME NEW t \in Threads, Goes(t), UnlinkSidecar(t)
    PROVE  SidecarInv'
<1> DEFINE c == call[t]
<1>1. Unlinking(ent, c) /\ Readable(ent, data, {})
  BY DEF UnlinkSidecar, Goes, HalfDone
<1>2. /\ c.path \in NamedPath /\ ent' = Put(ent, SideFile(c.path), None)
      /\ data' = Sweep(ent', data)
  BY <1>1 DEF UnlinkSidecar, unlink, Unlinking
<1>3. SetSide(ent, ent', c.path, None)
  BY <1>2, PutSide DEF Goes, TypeOK
<1>4. FilesIn(ent') = FilesIn(ent) /\ \A p \in NamedPath : At(ent', p) = At(ent, p)
  BY <1>3 DEF FilesIn, SetSide
<1>5. DirsOnce(ent') /\ DirsHave(ent', {})
  BY <1>1, <1>3, <1>4 DEF DirsOnce, DirsHave, SetSide, Goes, Unlinking
<1>6. Readable(ent', data', {})
  <2>1. Readable(ent', data, {})
    BY <1>1, <1>3, EntryNames DEF Readable, SetSide
  <2>2. TypeOK'
    BY StepType DEF Step, Goes
  <2> QED
    BY <1>2, <2>1, <2>2, SweepReadable DEF TypeOK
<1>7. FilesHave(ent', {}) /\ FilesOnly(ent', {})
  BY <1>1, <1>3, <1>4 DEF FilesHave, FilesOnly, FilesIn, SetSide, Unlinking
<1> QED
  BY <1>5, <1>6, <1>7, EndsSidecars DEF UnlinkSidecar, Goes, AllHave

LEMMA RemoveSidecars ==
    ASSUME NEW t \in Threads, Goes(t), RemoveDir(t)
    PROVE  SidecarInv'
<1>1. PICK c : c = call[t]
  OBVIOUS
<1> DEFINE err == rmdirError(ent, c.path)
           d == At(ent, c.path)
<1>2. Removing(ent, c) /\ Readable(ent, data, {})
  BY <1>1 DEF RemoveDir, Goes, HalfDone
<1>3. data' = data
  BY DEF RemoveDir
<1>4. CASE err = OK
  <2>1. ent' = Put(ent, c.path, None) /\ c.path \in NamedPath /\ Finish(t, Reply(OK))
    BY <1>1, <1>2, <1>4 DEF RemoveDir, rmdir, Removing
  <2>2. SetObject(ent, ent', c.path, None)
    BY <2>1, PutObject DEF Goes, TypeOK
  <2>3. None \notin Dirs /\ None \notin Files /\ None # Root /\ d \notin Files
    BY <1>2, HostTreeAssumption DEF Removing
  <2>4. FilesIn(ent') = FilesIn(ent)
    BY <2>2, <2>3 DEF FilesIn, SetObject
  <2>5. FilesHave(ent', {}) /\ FilesOnly(ent', {})
    BY <1>2, <2>2, <2>3, <2>4 DEF FilesHave, FilesOnly, FilesIn, SetObject, Removing
  <2>6. DirsOnce(ent')
    BY <2>2, <2>3 DEF DirsOnce, SetObject, Goes
  <2>7. DirsHave(ent', {})
    BY <1>2, <2>1, <2>2, <2>3 DEF DirsHave, DirsOnce, SetObject, Goes, Removing
  <2>8. Readable(ent', data', {})
    BY <1>2, <1>3, <2>2 DEF Readable, SetObject
  <2> QED
    BY <2>1, <2>5, <2>6, <2>7, <2>8, EndsSidecars DEF Goes, AllHave
<1>5. CASE err # OK
  <2>1. PICK e : e = [c EXCEPT !.err = err]
    OBVIOUS
  <2>2. c \in CallType
    BY <1>1 DEF Goes, TypeOK, ThreadsOK
  <2>3. e.attrs = c.attrs /\ e.path = c.path /\ e.sidecar = c.sidecar
    BY <2>1, <2>2 DEF CallType
  <2>4. ent' = ent /\ Continue(t, "open", e)
    BY <1>1, <1>5, <2>1 DEF RemoveDir, rmdir
  <2>5. Opening(ent, e)
    BY <1>2, <2>3 DEF Removing, Opening
  <2> QED
    BY <1>2, <1>3, <2>4, <2>5, GoesOnSidecars DEF HalfDone, Goes, Steps
<1> QED
  BY <1>4, <1>5

LEMMA RenamedSidecars ==
    ASSUME NEW t \in Threads, Goes(t), RenameSidecar(t)
    PROVE  SidecarInv'
<1> DEFINE c == call[t]
           s == SideIn(ent, c.path)
<1>1. Renaming(ent, c) /\ Readable(ent, data, {})
  BY DEF RenameSidecar, Goes, HalfDone
<1>2. attrsFileName(c.path, "FILE") = SideFile(c.path)
  BY DEF attrsFileName, SideFile
<1>3. /\ c.path \in NamedPath /\ c.to \in NamedPath
      /\ ent' = rename(ent, SideFile(c.path), SideFile(c.to))
      /\ data' = Sweep(ent', data)
  BY <1>1, <1>2 DEF RenameSidecar, Renaming, FilesIn
<1>4. TypeOK'
  BY StepType DEF Step, Goes
<1>5. SUFFICES DirsOnce(ent') /\ AllHave(ent') /\ Readable(ent', data, {})
  BY <1>3, <1>4, SweepReadable, EndsSidecars DEF RenameSidecar, Goes, TypeOK
<1>6. CASE s = SideIn(ent, c.to)
  <2>1. ent' = ent
    BY <1>3, <1>6 DEF rename, SideIn
  <2>2. AllHave(ent)
    BY <1>1, <1>6 DEF Renaming
  <2> QED
    BY <1>1, <2>1, <2>2 DEF Goes
<1>7. CASE s # SideIn(ent, c.to)
  <2>1. /\ FilesHave(ent, {c.to}) /\ FilesOnly(ent, {c.path}) /\ DirsHave(ent, {})
        /\ c.path \notin FilesIn(ent) /\ s # None /\ c.to \in FilesIn(ent)
        /\ \A q \in FilesIn(ent) \ {c.to} :
              At(ent, q) = At(ent, c.to) <=> SideIn(ent, q) = s
    <3>1. ~(AllHave(ent) /\ At(ent, c.path) = At(ent, c.to))
      <4>1. SUFFICES ASSUME AllHave(ent), At(ent, c.path) = At(ent, c.to)
                     PROVE  FALSE
        OBVIOUS
      <4>2. c.to \in FilesIn(ent) /\ c.path \in FilesIn(ent)
        BY <1>1, <1>3, <4>1 DEF Renaming, FilesIn
      <4> QED
        BY <1>7, <4>1, <4>2 DEF AllHave, FilesHave
    <3> QED
      BY <1>1, <3>1 DEF Renaming
  <2>2. renameError(ent, SideFile(c.path), SideFile(c.to)) = OK
    <3>1. SideIn(ent, c.to) \notin Dirs
      BY <1>3, SideTypes, EntryNames, HostTreeAssumption DEF Goes, TypeOK, Objects
    <3> QED
      BY <2>1, <3>1 DEF renameError, SideIn
  <2> DEFINE T == Put(ent, SideFile(c.to), s)
  <2>3. ent' = Put(T, SideFile(c.path), None)
    BY <1>3, <1>7, <2>2 DEF rename, SideIn
  <2>4. TreeOK(T)
    BY <1>3, SideTypes, SideNames, PutOK DEF Goes, TypeOK
  <2>5. SetSide(ent, T, c.to, s) /\ SetSide(T, ent', c.path, None)
    BY <1>3, <2>3, <2>4, PutSide DEF Goes, TypeOK
  <2> HIDE DEF T
  <2>6. /\ \A p \in NamedPath : At(ent', p) = At(ent, p)
        /\ \A p \in NamedPath : SideIn(ent', p) =
              IF p = c.path THEN None ELSE IF p = c.to THEN s ELSE SideIn(ent, p)
        /\ \A d \in Dirs : ent'[d][DirSide] = ent[d][DirSide]
    BY <2>5 DEF SetSide
  <2>7. FilesIn(ent') = FilesIn(ent)
    BY <2>6 DEF FilesIn
  <2>8. DirsOnce(ent') /\ DirsHave(ent', {})
    BY <2>1, <2>6 DEF DirsOnce, DirsHave, Goes
  <2>9. FilesOnly(ent', {})
    BY <2>1, <2>6, <2>7 DEF FilesOnly
  <2>10. FilesHave(ent', {})
    BY <2>1, <2>6, <2>7 DEF FilesHave, FilesIn
  <2>11. Readable(ent', data, {})
    BY <1>1, <1>3, <2>6, EntryNames DEF Readable
  <2> QED
    BY <2>8, <2>9, <2>10, <2>11 DEF AllHave
<1> QED
  BY <1>6, <1>7

-----------------------------------------------------------------------------
LEMMA SidecarInit == NewTree /\ Init => SidecarInv
<1> SUFFICES ASSUME NewTree, Init
             PROVE  SidecarInv
  OBVIOUS
<1>1. \A d \in Dirs, n \in Entries : ent[d][n] = None
  BY DEF NewTree, Init
<1>2. \A p \in NamedPath \cup SidePath : At(ent, p) = None
  BY <1>1, EntryNames, HostTreeAssumption DEF At, NamedPath, SidePath
<1>3. \A p \in NamedPath : At(ent, p) = None /\ SideIn(ent, p) = None
  BY <1>2, SideNames DEF SideIn
<1>4. \A d \in Dirs : ent[d][DirSide] = None
  BY <1>1, EntryNames
<1>5. None \notin Dirs /\ None \notin Files /\ None # Root /\ None \notin Sides
  BY HostTreeAssumption, EntryNames
<1>6. DirsOnce(ent) /\ AllHave(ent) /\ Readable(ent, data, {})
  BY <1>3, <1>4, <1>5
     DEF DirsOnce, AllHave, FilesHave, FilesOnly, DirsHave, FilesIn, Readable
<1> QED
  BY <1>6 DEF SidecarInv, Init, Busy

LEMMA SidecarStep ==
    NewTree /\ TypeOK /\ OneInside /\ SidecarInv /\ [Next]_vars => SidecarInv'
<1> SUFFICES ASSUME NewTree, TypeOK, OneInside, SidecarInv, [Next]_vars
             PROVE  SidecarInv'
  OBVIOUS
<1>1. ~(faults < MaxFaults)
  BY DEF NewTree, TypeOK
<1>2. CASE UNCHANGED <<ent, data, pc>> /\ \A t \in Threads : Busy(t) => call'[t] = call[t]
  BY <1>2 DEF SidecarInv, Quiet, Busy
<1>3. ASSUME NEW t \in Threads, Request(t) \/ Step(t)
      PROVE  SidecarInv'
  <2>1. CASE Quiet
    <3>1. ~Step(t)
      BY <2>1 DEF Quiet, Busy, Step, OpenSidecar, WriteSidecar, LinkSidecar, UnlinkSidecar,
                  RemoveDir, RenameSidecar
    <3>2. Begins(t)
      BY <2>1 DEF Begins, SidecarInv
    <3> QED
      BY <1>3, <3>1, <3>2, RequestSidecars
  <2>2. CASE Passes
    BY <1>2, <2>2 DEF Passes
  <2>3. CASE Alone(t) /\ Step(t)
    <3>1. Goes(t)
      BY <2>3 DEF Goes, SidecarInv, Alone
    <3> QED
      BY <2>3, <3>1, OpenSidecars, WriteSidecars, LinkedSidecars, UnlinkedSidecars,
         RemoveSidecars, RenamedSidecars DEF Step
  <2>4. ~SidecarFault(t)
    BY <1>1 DEF SidecarFault
  <2> QED
    BY <1>3, <2>1, <2>2, <2>3, <2>4, OneThreadActs DEF AnyRequest
<1>4. CASE UNCHANGED vars
  BY <1>2, <1>4 DEF vars
<1> QED
  BY <1>1, <1>3, <1>4 DEF Next, Crash, SidecarFault

LEMMA SidecarInvImplies == TypeOK /\ SidecarInv => SidecarsFollowFiles
<1> SUFFICES ASSUME TypeOK, SidecarInv, Quiet
             PROVE  SidecarsFollowFiles
  BY DEF SidecarsFollowFiles
<1>1. AllHave(ent) /\ Readable(ent, data, {}) /\ TreeOK(ent)
  BY DEF SidecarInv, TypeOK
<1>2. FileEntries = FilesIn(ent) /\ FilesIn(ent) \subseteq NamedPath
  BY DEF FileEntries, FilesIn, NamedPath
<1>3. \A p \in NamedPath : SideEntry(p) = SideIn(ent, p)
  BY EntryNames DEF SideEntry, SideIn, At, SideFile, NamedPath
<1>4. \A p \in FileEntries : SideEntry(p) # None /\ data[SideEntry(p)] # Torn
  BY <1>1, <1>2, <1>3, SideTypes DEF AllHave, FilesHave, Readable
<1>5. \A p, q \in FileEntries : At(ent, p) = At(ent, q) <=> SideEntry(p) = SideEntry(q)
  BY <1>1, <1>2, <1>3 DEF AllHave, FilesHave
<1>6. \A p \in NamedPath : SideEntry(p) # None => p \in FileEntries
  BY <1>1, <1>2, <1>3 DEF AllHave, FilesOnly
<1>7. \A d \in Dirs : d # Root /\ Present(ent, d) => ent[d][DirSide] # None
  <2> SUFFICES ASSUME NEW d \in Dirs, d # Root, Present(ent, d)
               PROVE  ent[d][DirSide] # None
    OBVIOUS
  <2>1. PICK p \in NamedPath : At(ent, p) = d
    BY <1>1, Links DEF Present, Objects
  <2> QED
    BY <1>1, <2>1 DEF AllHave, DirsHave
<1> QED
  BY <1>4, <1>5, <1>6, <1>7 DEF SidecarsFollowFiles, NamedPath

\* On a tree that erlent alone fills and a host that does not fail it, every file has its
\* own readable sidecar between two requests, hard links share one, and no sidecar is left
\* without its file, for any number of threads (local.cc:160-194, 244-265).
THEOREM SidecarsFollow == ASSUME NewTree PROVE Spec => []SidecarsFollowFiles
<1>1. Init => SidecarInv
  BY SidecarInit
<1>2. TypeOK /\ OneInside /\ SidecarInv /\ [Next]_vars => SidecarInv'
  BY SidecarStep
<1>3. TypeOK /\ SidecarInv => SidecarsFollowFiles
  BY SidecarInvImplies
<1> QED
  BY <1>1, <1>2, <1>3, TypeCorrect, MutualExclusion, PTL DEF Spec

=============================================================================
