---------------------------- MODULE AttrFSProofs ----------------------------
(***************************************************************************)
(* The attribute emulation implements the file system of AttrFS: step by   *)
(* step, each system call of a request is either the abstract request or   *)
(* nothing that a client can see.                                          *)
(***************************************************************************)
EXTENDS EmuAttrProofs, FiniteSetTheorems, WellFoundedInduction

-----------------------------------------------------------------------------
(* The tree that the clients see has no sidecars; apart from that it is    *)
(* the host's.                                                             *)

NamesIn(T) == [d \in Dirs |-> [n \in Names |-> T[d][n]]]

LEMMA LeastNat ==
    ASSUME NEW S \in SUBSET Nat, S # {}
    PROVE  \E i \in S : \A j \in S : ~(j < i)
<1> DEFINE R == OpToRel(<, Nat)
<1>1. IsWellFoundedOn(R, Nat)
  BY NatLessThanWellFounded
<1>2. \A i, j \in Nat : <<j, i>> \in R <=> j < i
  BY DEF OpToRel
<1> HIDE DEF R
<1>3. S \subseteq Nat
  OBVIOUS
<1>4. \E i \in S : \A j \in S : ~(<<j, i>> \in R)
  BY <1>1, <1>3, WFMin, Zenon
<1> QED
  BY <1>2, <1>4

\* What is reached from a directory in steps of which each adds directories.
LEMMA LevelsAreDirs ==
    ASSUME NEW N \in Nat, NEW level, level[0] \subseteq Dirs,
           \A i \in 1 .. N : level[i] \subseteq level[i - 1] \cup Dirs
    PROVE  \A i \in 0 .. N : level[i] \subseteq Dirs
<1> SUFFICES ASSUME NEW k \in 0 .. N, ~(level[k] \subseteq Dirs)
             PROVE  FALSE
  OBVIOUS
<1> DEFINE S == {i \in Nat : i =< N /\ ~(level[i] \subseteq Dirs)}
<1>1. k \in S
  OBVIOUS
<1>2. PICK i \in S : \A j \in S : ~(j < i)
  BY <1>1, LeastNat
<1>3. i \in 1 .. N /\ i - 1 \in Nat /\ i - 1 < i /\ i - 1 =< N
  BY <1>2
<1>4. level[i - 1] \subseteq Dirs
  BY <1>2, <1>3
<1> QED
  BY <1>2, <1>3, <1>4

\* Directories are named by clients, so both trees have the same ones below each other.
Under(T, Y) == {x \in Dirs : \E y \in Y : \E n \in DOMAIN T[y] : T[y][n] = x}

LEMMA UnderView ==
    ASSUME NEW T, TreeOK(T), NEW Y \in SUBSET Dirs
    PROVE  Under(NamesIn(T), Y) = Under(T, Y)
<1>1. \A y \in Dirs : DOMAIN NamesIn(T)[y] = Names /\ DOMAIN T[y] = Entries
  BY DEF NamesIn, TreeOK
<1>2. \A y \in Dirs, n \in Names : NamesIn(T)[y][n] = T[y][n]
  BY DEF NamesIn
<1>3. \A y \in Dirs, n \in Entries : T[y][n] \in Dirs => n \in Names
  BY EntryNames, HostTreeAssumption DEF TreeOK, Objects
<1> QED
  BY <1>1, <1>2, <1>3, EntryNames DEF Under

Levels(T, d, N, level) ==
    level = [i \in 0 .. N |-> IF i = 0 THEN {d} ELSE level[i - 1] \cup Under(T, level[i - 1])]

LEMMA BelowLevels ==
    ASSUME NEW T, NEW d
    PROVE  Below(T, d) = (CHOOSE level : Levels(T, d, Cardinality(Dirs), level))[Cardinality(Dirs)]
  BY DEF Below, Levels, Under

LEMMA BelowView ==
    ASSUME NEW T, TreeOK(T), NEW d \in Dirs
    PROVE  Below(NamesIn(T), d) = Below(T, d)
<1> DEFINE N == Cardinality(Dirs)
           U == NamesIn(T)
<1>1. N \in Nat
  BY HostTreeAssumption, FS_CardinalityType
<1> HIDE DEF N
<1>2. ASSUME NEW level, NEW V \in {T, U}, Levels(V, d, N, level)
      PROVE  \A i \in 0 .. N : level[i] \subseteq Dirs
  <2>1. level[0] = {d}
    BY <1>1, <1>2 DEF Levels
  <2>2. \A i \in 1 .. N : level[i] = level[i - 1] \cup Under(V, level[i - 1])
    BY <1>1, <1>2 DEF Levels
  <2>3. \A i \in 1 .. N : level[i] \subseteq level[i - 1] \cup Dirs
    BY <2>2 DEF Under
  <2> QED
    BY <1>1, <2>1, <2>3, LevelsAreDirs
<1>3. ASSUME NEW level, \A i \in 0 .. N : level[i] \subseteq Dirs
      PROVE  Levels(T, d, N, level) <=> Levels(U, d, N, level)
  <2>1. \A i \in 0 .. N : i # 0 => level[i - 1] \subseteq Dirs
    BY <1>1, <1>3
  <2>2. \A i \in 0 .. N : i # 0 => Under(T, level[i - 1]) = Under(U, level[i - 1])
    BY <2>1, UnderView
  <2>3. [i \in 0 .. N |-> IF i = 0 THEN {d} ELSE level[i - 1] \cup Under(T, level[i - 1])] =
        [i \in 0 .. N |-> IF i = 0 THEN {d} ELSE level[i - 1] \cup Under(U, level[i - 1])]
    BY <2>2
  <2> QED
    BY <2>3 DEF Levels
<1>4. \A level : Levels(T, d, N, level) <=> Levels(U, d, N, level)
  BY <1>2, <1>3
<1>5. (CHOOSE level : Levels(T, d, N, level)) = (CHOOSE level : Levels(U, d, N, level))
  BY <1>4
<1> QED
  BY <1>5, BelowLevels DEF N

\* What a path leads to, and what is in the tree, for the clients and for the host.
LEMMA ClientPaths ==
    ASSUME NEW T, TreeOK(T)
    PROVE  /\ \A p \in AnyPath : At(NamesIn(T), p) = At(T, p)
           /\ \A o \in Objects : Present(NamesIn(T), o) <=> Present(T, o)
           /\ Paths(NamesIn(T)) = Paths(T)
           /\ Existing(NamesIn(T)) = Existing(T) /\ Absent(NamesIn(T)) = Absent(T)
           /\ FilePaths(NamesIn(T)) = FilePaths(T) /\ DirPaths(NamesIn(T)) = DirPaths(T)
<1>1. \A p \in AnyPath : At(NamesIn(T), p) = At(T, p)
  BY HostTreeAssumption DEF NamesIn, At, AnyPath
<1>2. ASSUME NEW o \in Objects
      PROVE  Linked(NamesIn(T), o) <=> Linked(T, o)
  <2>1. DOMAIN T = Dirs /\ \A d \in Dirs : DOMAIN T[d] = Entries
    BY DEF TreeOK
  <2>2. DOMAIN NamesIn(T) = Dirs /\ \A d \in Dirs : DOMAIN NamesIn(T)[d] = Names
    BY DEF NamesIn
  <2>3. \A d \in Dirs, n \in Names : NamesIn(T)[d][n] = T[d][n]
    BY DEF NamesIn
  <2>4. \A d \in Dirs, n \in Entries : T[d][n] = o => n \in Names
    BY EntryNames DEF TreeOK
  <2> QED
    BY <2>1, <2>2, <2>3, <2>4, EntryNames DEF Linked
<1>3. \A o \in Objects : Present(NamesIn(T), o) <=> Present(T, o)
  BY <1>2 DEF Present
<1>4. Paths(NamesIn(T)) = Paths(T) /\ Paths(T) \subseteq AnyPath
  BY <1>3 DEF Paths, AnyPath, Objects
<1>5. RootPath \in AnyPath
  BY PathSets
<1>6. Existing(NamesIn(T)) = Existing(T) /\ Absent(NamesIn(T)) = Absent(T)
  BY <1>1, <1>4 DEF Existing, Absent
<1>7. Existing(T) \subseteq AnyPath
  BY <1>4, <1>5 DEF Existing
<1>8. FilePaths(NamesIn(T)) = FilePaths(T) /\ DirPaths(NamesIn(T)) = DirPaths(T)
  BY <1>1, <1>6, <1>7 DEF FilePaths, DirPaths
<1> QED
  BY <1>1, <1>3, <1>4, <1>6, <1>8

\* The abstract specification has a host tree of its own, of the same operators.
LEMMA SameOperators ==
    /\ AFS!Objects = Objects /\ AFS!NoAttr = NoAttr /\ AFS!OK = OK /\ AFS!RootPath = RootPath
    /\ \A err : AFS!Reply(err) = Reply(err)
    /\ \A T, p : AFS!At(T, p) = At(T, p)
    /\ \A T, o : AFS!Present(T, o) <=> Present(T, o)
    /\ \A T, d : AFS!EmptyDir(T, d) <=> EmptyDir(T, d)
    /\ \A T, d : AFS!Below(T, d) = Below(T, d)
    /\ \A T, p, o : AFS!Put(T, p, o) = Put(T, p, o)
    /\ \A T : AFS!Paths(T) = Paths(T) /\ AFS!Existing(T) = Existing(T)
    /\ \A T : AFS!Absent(T) = Absent(T) /\ AFS!FilePaths(T) = FilePaths(T)
    /\ \A T : AFS!DirPaths(T) = DirPaths(T)
<1>1. /\ AFS!Objects = Objects /\ AFS!NoAttr = NoAttr /\ AFS!OK = OK
      /\ AFS!RootPath = RootPath
  BY DEF AFS!Objects, Objects, AFS!NoAttr, NoAttr, AFS!OK, OK, AFS!RootPath, RootPath
<1>2. \A err : AFS!Reply(err) = Reply(err)
  BY <1>1 DEF AFS!Reply, Reply
<1>3. \A T, p : AFS!At(T, p) = At(T, p)
  BY DEF AFS!At, At
<1>4. \A T, o : AFS!Present(T, o) <=> Present(T, o)
  BY DEF AFS!Present, Present, AFS!Linked, Linked
<1>5. \A T, d : AFS!EmptyDir(T, d) <=> EmptyDir(T, d)
  BY DEF AFS!EmptyDir, EmptyDir
<1>6. ASSUME NEW T, NEW d
      PROVE  AFS!Below(T, d) = Below(T, d)
  <2>1. AFS!Cardinality(Dirs) = Cardinality(Dirs)
    BY DEF AFS!Cardinality, Cardinality
  <2>2. AFS!Below(T, d) = (CHOOSE level : Levels(T, d, AFS!Cardinality(Dirs), level))
                               [AFS!Cardinality(Dirs)]
    BY DEF AFS!Below, Levels, Under
  <2> QED
    BY <2>1, <2>2, BelowLevels
<1>7. \A T, p, o : AFS!Put(T, p, o) = Put(T, p, o)
  BY DEF AFS!Put, Put
<1>8. \A T : AFS!Paths(T) = Paths(T)
  BY <1>4 DEF AFS!Paths, Paths
<1>9. \A T : AFS!Existing(T) = Existing(T) /\ AFS!Absent(T) = Absent(T)
  BY <1>1, <1>3, <1>8 DEF AFS!Existing, Existing, AFS!Absent, Absent
<1>10. \A T : AFS!FilePaths(T) = FilePaths(T) /\ AFS!DirPaths(T) = DirPaths(T)
  BY <1>3, <1>9 DEF AFS!FilePaths, FilePaths, AFS!DirPaths, DirPaths
<1> QED
  BY <1>1, <1>2, <1>3, <1>4, <1>5, <1>6, <1>7, <1>8, <1>9, <1>10

-----------------------------------------------------------------------------
(* The attributes that the clients see, as a function A of the tree T, the *)
(* sidecars' contents D and what the one thread in the middle of a request *)
(* has to do.                                                              *)

\* The sidecar of p: until the second rename it is under the old name.
Hold(T, step, c, p) == SideIn(T, IF step = "rename" /\ p = c.to THEN c.path ELSE p)

HasSide(T, step, c, f, s) ==
    \E p \in NamedPath : At(T, p) = f /\ s = Hold(T, step, c, p) /\ s # None

\* The thread has the attributes of o in memory.
InMemory(T, step, c, o) == step \in {"open", "write", "rmdir"} /\ At(T, c.path) = o

DirStored(T, D, d) == IF T[d][DirSide] = None THEN defaultAttrs(d) ELSE D[T[d][DirSide]]

Sees(T, D, step, c, A) ==
    /\ \A o \in Objects : ~Present(T, o) => A[o] = NoAttr
    /\ \A o \in Objects : Present(T, o) /\ InMemory(T, step, c, o) => A[o] = shown(o, c.attrs)
    /\ \A d \in Dirs : Present(T, d) /\ ~InMemory(T, step, c, d) =>
            A[d] = shown(d, DirStored(T, D, d))
    /\ \A f \in Files : Present(T, f) /\ ~InMemory(T, step, c, f) =>
            /\ \E s : HasSide(T, step, c, f, s)
            /\ \A s : HasSide(T, step, c, f, s) => A[f] = shown(f, D[s])

AttrsSeen == [o \in Objects |-> AttrView(o)]
RepliesSeen == [t \in Threads |-> ReplyView(t)]

\* Clients name things only in directories that are there.
NamedInDirs(T) == \A p \in NamedPath : At(T, p) # None => Present(T, p.dir)

\* In the middle of a request a file has one sidecar under all of its names.
OneSide(T, step, c) ==
    \A f \in Files : Present(T, f) /\ ~InMemory(T, step, c, f) =>
        /\ \E s : HasSide(T, step, c, f, s)
        /\ \A s, x : HasSide(T, step, c, f, s) /\ HasSide(T, step, c, f, x) => s = x

LEMMA QuietSides ==
    ASSUME NEW T, TreeOK(T), AllHave(T), NEW c
    PROVE  OneSide(T, "idle", c)
<1> SUFFICES ASSUME NEW f \in Files, Present(T, f)
             PROVE  /\ \E s : HasSide(T, "idle", c, f, s)
                    /\ \A s, x : HasSide(T, "idle", c, f, s) /\ HasSide(T, "idle", c, f, x)
                          => s = x
  BY DEF OneSide
<1>1. \A p : Hold(T, "idle", c, p) = SideIn(T, p)
  BY DEF Hold
<1>2. f # Root /\ f \in Objects
  BY HostTreeAssumption DEF Objects
<1>3. PICK p \in NamedPath : At(T, p) = f
  BY <1>2, Links DEF Present
<1>4. SideIn(T, p) # None
  BY <1>3 DEF AllHave, FilesHave, FilesIn
<1>5. \A q, r \in NamedPath : At(T, q) = f /\ At(T, r) = f => SideIn(T, q) = SideIn(T, r)
  BY DEF AllHave, FilesHave, FilesIn
<1> QED
  BY <1>1, <1>3, <1>4, <1>5 DEF HasSide

LEMMA BusySides ==
    ASSUME NEW T, TreeOK(T), NEW D, NEW step \in Steps, NEW c, HalfDone(T, D, step, c)
    PROVE  OneSide(T, step, c)
<1> SUFFICES ASSUME NEW f \in Files, Present(T, f), ~InMemory(T, step, c, f)
             PROVE  /\ \E p \in NamedPath : At(T, p) = f /\ Hold(T, step, c, p) # None
                    /\ \A q, r \in NamedPath :
                          /\ At(T, q) = f /\ Hold(T, step, c, q) # None
                          /\ At(T, r) = f /\ Hold(T, step, c, r) # None
                          => Hold(T, step, c, q) = Hold(T, step, c, r)
  BY DEF OneSide, HasSide
<1>2. f # Root /\ f \in Objects
  BY HostTreeAssumption DEF Objects
<1>3. PICK p \in NamedPath : At(T, p) = f
  BY <1>2, Links DEF Present
<1>4. CASE step \in {"unlink", "rmdir", "write"}
  <2>1. FilesHave(T, {})
    BY <1>4 DEF HalfDone, Unlinking, Removing, AllHave
  <2>2. \A q : Hold(T, step, c, q) = SideIn(T, q)
    BY <1>4 DEF Hold
  <2> QED
    BY <1>3, <2>1, <2>2 DEF FilesHave, FilesIn
<1>5. CASE step = "open"
  <2>1. FilesHave(T, {}) \/ FilesHave(T, {c.path})
    BY <1>5 DEF HalfDone, Opening, AllHave
  <2>2. \A q : Hold(T, step, c, q) = SideIn(T, q)
    BY <1>5 DEF Hold
  <2>3. At(T, c.path) # f
    BY <1>5 DEF InMemory
  <2> QED
    BY <1>3, <2>1, <2>2, <2>3 DEF FilesHave, FilesIn
<1>6. CASE step = "link"
  <2>1. /\ FilesHave(T, {c.to}) /\ At(T, c.to) = At(T, c.path) /\ c.path \in NamedPath
        /\ c.to # c.path /\ SideIn(T, c.to) = None
    BY <1>6 DEF HalfDone, Linking, FilesIn
  <2>2. \A q : Hold(T, step, c, q) = SideIn(T, q)
    BY <1>6 DEF Hold
  <2> QED
    BY <1>3, <2>1, <2>2 DEF FilesHave, FilesIn
<1>7. CASE step = "rename"
  <2>1. Renaming(T, c)
    BY <1>7 DEF HalfDone
  <2>2. \A q : Hold(T, step, c, q) = SideIn(T, IF q = c.to THEN c.path ELSE q)
    BY <1>7 DEF Hold
  <2>3. CASE AllHave(T) /\ At(T, c.path) = At(T, c.to)
    BY <1>3, <2>1, <2>2, <2>3 DEF AllHave, FilesHave, FilesIn, Renaming
  <2>4. CASE ~(AllHave(T) /\ At(T, c.path) = At(T, c.to))
    <3>1. /\ FilesHave(T, {c.to}) /\ SideIn(T, c.path) # None /\ c.to \in FilesIn(T)
          /\ \A q \in FilesIn(T) \ {c.to} :
                At(T, q) = At(T, c.to) <=> SideIn(T, q) = SideIn(T, c.path)
      BY <2>1, <2>4 DEF Renaming
    <3>2. ASSUME NEW q \in NamedPath, At(T, q) = f
          PROVE  /\ Hold(T, step, c, q) # None
                 /\ q # c.to => Hold(T, step, c, q) = SideIn(T, q)
                 /\ q = c.to => Hold(T, step, c, q) = SideIn(T, c.path)
      BY <2>2, <3>1, <3>2 DEF FilesHave, FilesIn
    <3>3. \A q, r \in NamedPath : At(T, q) = f /\ At(T, r) = f
                => Hold(T, step, c, q) = Hold(T, step, c, r)
      <4> SUFFICES ASSUME NEW q \in NamedPath, NEW r \in NamedPath, At(T, q) = f, At(T, r) = f
                   PROVE  Hold(T, step, c, q) = Hold(T, step, c, r)
        OBVIOUS
      <4>1. q \in FilesIn(T) /\ r \in FilesIn(T)
        BY DEF FilesIn
      <4> QED
        BY <3>1, <3>2, <4>1 DEF FilesHave
    <3> QED
      BY <1>3, <3>2, <3>3
  <2> QED
    BY <2>3, <2>4
<1> QED
  BY <1>4, <1>5, <1>6, <1>7 DEF Steps

LEMMA SeesStored ==
    ASSUME TypeOK, NamedInDirs(ent), NEW step, NEW c, OneSide(ent, step, c),
           \A o \in Objects : InMemory(ent, step, c, o) =>
              c.attrs # Undef /\ Writers(o) # {} /\ \A u \in Writers(o) : call[u] = c,
           \A o \in Objects : ~InMemory(ent, step, c, o) => Writers(o) = {},
           \A p \in NamedPath : SidecarAt(p) = Hold(ent, step, c, p)
    PROVE  Sees(ent, data, step, c, AttrsSeen)
<1>1. \A o \in Objects : AttrsSeen[o] = AttrView(o)
  BY DEF AttrsSeen
<1>2. \A o \in Objects : ~Present(ent, o) => AttrsSeen[o] = NoAttr
  BY <1>1 DEF AttrView
<1>3. ASSUME NEW o \in Objects, Present(ent, o), InMemory(ent, step, c, o)
      PROVE  AttrsSeen[o] = shown(o, c.attrs)
  <2>1. StoredAttrs(o) = c.attrs
    BY <1>3 DEF StoredAttrs
  <2> QED
    BY <1>1, <1>3, <2>1 DEF AttrView
<1>4. ASSUME NEW d \in Dirs, Present(ent, d), ~InMemory(ent, step, c, d)
      PROVE  AttrsSeen[d] = shown(d, DirStored(ent, data, d))
  <2>1. d \in Objects /\ Writers(d) = {}
    BY <1>4 DEF Objects
  <2>2. SidecarsOf(d) = {ent[d][DirSide]} \ {None}
    BY DEF SidecarsOf
  <2>3. CASE ent[d][DirSide] = None
    <3>1. SidecarsOf(d) = {}
      BY <2>2, <2>3
    <3> QED
      BY <1>1, <1>4, <2>1, <2>3, <3>1 DEF AttrView, StoredAttrs, DirStored
  <2>4. CASE ent[d][DirSide] # None
    <3>1. SidecarsOf(d) = {ent[d][DirSide]}
      BY <2>2, <2>4
    <3>2. (CHOOSE s \in SidecarsOf(d) : TRUE) = ent[d][DirSide]
      BY <3>1
    <3>3. StoredAttrs(d) = data[ent[d][DirSide]]
      BY <2>1, <3>1, <3>2 DEF StoredAttrs
    <3> QED
      BY <1>1, <1>4, <2>1, <2>4, <3>3 DEF AttrView, DirStored
  <2> QED
    BY <2>3, <2>4
<1>5. ASSUME NEW f \in Files, Present(ent, f), ~InMemory(ent, step, c, f)
      PROVE  /\ \E s : HasSide(ent, step, c, f, s)
             /\ \A s : HasSide(ent, step, c, f, s) => AttrsSeen[f] = shown(f, data[s])
  <2>1. f \in Objects /\ Writers(f) = {} /\ f \notin Dirs /\ f # None
    BY <1>5, HostTreeAssumption DEF Objects
  <2>2. {p \in Paths(ent) : At(ent, p) = f} = {p \in NamedPath : At(ent, p) = f}
    BY <2>1 DEF NamedInDirs, Paths, NamedPath
  <2>3. SidecarsOf(f) = {SidecarAt(p) : p \in {q \in NamedPath : At(ent, q) = f}} \ {None}
    BY <2>1, <2>2 DEF SidecarsOf
  <2>4. \A s : s \in SidecarsOf(f) <=> HasSide(ent, step, c, f, s)
    BY <2>3 DEF HasSide
  <2>5. PICK s : HasSide(ent, step, c, f, s)
    BY <1>5 DEF OneSide
  <2>6. \A x : HasSide(ent, step, c, f, x) => x = s
    BY <1>5, <2>5 DEF OneSide
  <2>7. SidecarsOf(f) = {s}
    BY <2>4, <2>5, <2>6
  <2>8. (CHOOSE x \in SidecarsOf(f) : TRUE) = s
    BY <2>7
  <2>9. StoredAttrs(f) = data[s]
    BY <2>1, <2>7, <2>8 DEF StoredAttrs
  <2> QED
    BY <1>1, <1>5, <2>1, <2>5, <2>6, <2>9 DEF AttrView
<1> QED
  BY <1>2, <1>3, <1>4, <1>5 DEF Sees

SeesQuiet == Quiet => Sees(ent, data, "idle", NoCall, AttrsSeen)
SeesBusy == \A t \in Threads : Alone(t) => Sees(ent, data, pc[t], call[t], AttrsSeen)

LEMMA ViewSees ==
    TypeOK /\ SidecarInv /\ NamedInDirs(ent) => SeesQuiet /\ SeesBusy
<1> SUFFICES ASSUME TypeOK, SidecarInv, NamedInDirs(ent)
             PROVE  SeesQuiet /\ SeesBusy
  OBVIOUS
<1>1. SeesQuiet
  <2> SUFFICES ASSUME Quiet
               PROVE  Sees(ent, data, "idle", NoCall, AttrsSeen)
    BY DEF SeesQuiet
  <2>1. \A t \in Threads : pc[t] = "idle"
    BY DEF Quiet, Busy
  <2>2. OneSide(ent, "idle", NoCall)
    BY QuietSides DEF SidecarInv, TypeOK
  <2>3. \A o : ~InMemory(ent, "idle", NoCall, o) /\ Writers(o) = {}
    BY <2>1 DEF InMemory, Writers
  <2>4. ASSUME NEW p \in NamedPath
        PROVE  SidecarAt(p) = Hold(ent, "idle", NoCall, p)
    <3>1. {t \in Threads : pc[t] = "rename" /\ call[t].to = p} = {}
      BY <2>1
    <3> QED
      BY <3>1 DEF SidecarAt, Hold, SideIn, SideFile
  <2> QED
    BY <2>2, <2>3, <2>4, SeesStored
<1>2. ASSUME NEW t \in Threads, Alone(t)
      PROVE  Sees(ent, data, pc[t], call[t], AttrsSeen)
  <2> DEFINE c == call[t]
  <2>1. /\ pc[t] \in Steps /\ HalfDone(ent, data, pc[t], c)
        /\ \A u \in Threads \ {t} : pc[u] = "idle"
    BY <1>2 DEF Alone, Busy, TypeOK, ThreadsOK, SidecarInv
  <2>2. OneSide(ent, pc[t], c)
    BY <2>1, BusySides DEF TypeOK
  <2>3. ASSUME NEW o \in Objects
        PROVE  /\ InMemory(ent, pc[t], c, o) => c.attrs # Undef /\ Writers(o) = {t}
               /\ ~InMemory(ent, pc[t], c, o) => Writers(o) = {}
    <3>1. pc[t] \in {"open", "write", "rmdir"} => c.attrs # Undef
      BY <2>1 DEF HalfDone, Opening, Removing
    <3> QED
      BY <2>1, <3>1 DEF InMemory, Writers
  <2>4. ASSUME NEW p \in NamedPath
        PROVE  SidecarAt(p) = Hold(ent, pc[t], c, p)
    <3> DEFINE old == {u \in Threads : pc[u] = "rename" /\ call[u].to = p}
    <3>1. CASE pc[t] = "rename" /\ p = c.to
      <4>1. old = {t}
        BY <2>1, <3>1
      <4>2. (CHOOSE u \in old : TRUE) = t
        BY <4>1
      <4>3. SidecarAt(p) = At(ent, attrsFileName(c.path, "FILE"))
        BY <4>1, <4>2 DEF SidecarAt
      <4> QED
        BY <3>1, <4>3 DEF Hold, SideIn, SideFile, attrsFileName
    <3>2. CASE ~(pc[t] = "rename" /\ p = c.to)
      <4>1. old = {}
        BY <2>1, <3>2
      <4>2. SidecarAt(p) = At(ent, [dir |-> p.dir, name |-> SideOf(p.name)])
        BY <4>1 DEF SidecarAt
      <4> QED
        BY <3>2, <4>2 DEF Hold, SideIn, SideFile
    <3> QED
      BY <3>1, <3>2
  <2>5. \A o \in Objects : \A u \in Writers(o) : InMemory(ent, pc[t], c, o) => call[u] = c
    BY <2>3
  <2> HIDE DEF c
  <2>6. Sees(ent, data, pc[t], c, AttrsSeen)
    BY <2>2, <2>3, <2>4, <2>5, SeesStored
  <2> QED
    BY <2>6 DEF c
<1> QED
  BY <1>1, <1>2 DEF SeesBusy

LEMMA ViewSeesNext ==
    TypeOK' /\ SidecarInv' /\ NamedInDirs(ent)' => SeesQuiet' /\ SeesBusy'
  BY ViewSees, PTL

-----------------------------------------------------------------------------
(* What else is always so: the sidecar of a directory is its alone, and a  *)
(* request that sets attributes or removes a directory knows its sidecar.  *)

DirSidesOwn(T) ==
    /\ \A d, e \in Dirs : T[d][DirSide] # None /\ T[d][DirSide] = T[e][DirSide] => d = e
    /\ \A d \in Dirs, p \in NamedPath : T[d][DirSide] # None => T[d][DirSide] # SideIn(T, p)

OwnSide(T, p) ==
    IF At(T, p) \in Dirs THEN [dir |-> At(T, p), name |-> DirSide] ELSE SideFile(p)

Knows(T, step, c) ==
    /\ step \in {"open", "write"} =>
          /\ c.path \in AnyPath /\ c.sidecar = OwnSide(T, c.path)
          /\ step = "write" => At(T, c.sidecar) = c.fd
    /\ step = "rmdir" => T[At(T, c.path)][DirSide] = None
    /\ step = "link" => c.err = OK

ViewInv ==
    /\ NamedInDirs(ent) /\ DirSidesOwn(ent)
    /\ \A t \in Threads : Busy(t) => Knows(ent, pc[t], call[t])

LEMMA GoesOnKnows ==
    ASSUME TypeOK, NEW t \in Threads, Quiet \/ Alone(t), NEW next \in Steps, NEW c,
           Continue(t, next, c), NamedInDirs(ent'), DirSidesOwn(ent'), Knows(ent', next, c)
    PROVE  ViewInv'
<1>1. pc'[t] = next /\ call'[t] = c /\ Alone(t)'
  BY GoesOn
<1> QED
  BY <1>1 DEF ViewInv, Alone

LEMMA EndsKnows ==
    ASSUME TypeOK, NEW t \in Threads, Quiet \/ Alone(t), NEW rep, Finish(t, rep),
           NamedInDirs(ent'), DirSidesOwn(ent')
    PROVE  ViewInv'
<1>1. Quiet'
  BY QuietEnd
<1> QED
  BY <1>1 DEF ViewInv, Quiet

-----------------------------------------------------------------------------
(* Changes of one entry, as the clients see them *)

LEMMA PresentIs ==
    ASSUME NEW T, TreeOK(T), NEW o \in Objects
    PROVE  Present(T, o) <=> o = Root \/ \E p \in NamedPath : At(T, p) = o
  BY Links DEF Present

SameObjects(T, U) == \A p \in NamedPath : At(U, p) = At(T, p)

LEMMA SameObjectsSeen ==
    ASSUME NEW T, TreeOK(T), NEW U, TreeOK(U), SameObjects(T, U)
    PROVE  /\ NamesIn(U) = NamesIn(T)
           /\ \A o \in Objects : Present(U, o) <=> Present(T, o)
           /\ NamedInDirs(T) => NamedInDirs(U)
<1>1. \A d \in Dirs, n \in Names : U[d][n] = T[d][n]
  <2> SUFFICES ASSUME NEW d \in Dirs, NEW n \in Names
               PROVE  U[d][n] = T[d][n]
    OBVIOUS
  <2>1. PICK p \in NamedPath : p = [dir |-> d, name |-> n]
    BY DEF NamedPath
  <2>2. At(U, p) = U[d][n] /\ At(T, p) = T[d][n]
    BY <2>1, HostTreeAssumption DEF At
  <2> QED
    BY <2>2 DEF SameObjects
<1>2. NamesIn(U) = NamesIn(T)
  BY <1>1 DEF NamesIn
<1>3. \A o \in Objects : Present(U, o) <=> Present(T, o)
  BY PresentIs DEF SameObjects
<1>4. \A p \in NamedPath : p.dir \in Objects
  BY DEF NamedPath, Objects
<1> QED
  BY <1>2, <1>3, <1>4 DEF NamedInDirs, SameObjects

LEMMA PutNamed ==
    ASSUME NEW T, TreeOK(T), NEW p \in NamedPath, NEW o
    PROVE  NamesIn(Put(T, p, o)) = Put(NamesIn(T), p, o)
<1>1. p.dir \in Dirs /\ p.name \in Names
  BY DEF NamedPath
<1>2. \A d \in Dirs, n \in Entries :
          Put(T, p, o)[d][n] = IF d = p.dir /\ n = p.name THEN o ELSE T[d][n]
  BY <1>1, EntryNames DEF Put, TreeOK
<1>3. Put(NamesIn(T), p, o) =
          [d \in Dirs |-> [n \in Names |-> IF d = p.dir /\ n = p.name THEN o ELSE T[d][n]]]
  BY <1>1 DEF Put, NamesIn
<1> QED
  BY <1>1, <1>2, <1>3, EntryNames DEF NamesIn

LEMMA SetSideSame ==
    ASSUME NEW T, NEW U, NEW p, NEW s, SetSide(T, U, p, s) \/ SetDirSide(T, U, p, s)
    PROVE  SameObjects(T, U)
  BY DEF SetSide, SetDirSide, SameObjects

LEMMA TreeIs == tree = NamesIn(ent) /\ tree' = NamesIn(ent')
  BY DEF tree, NamesIn

-----------------------------------------------------------------------------
(* Answers *)

RepliesTyped == reply = [t \in Threads |-> reply[t]]

Answered(t, rep) == RepliesSeen' = [RepliesSeen EXCEPT ![t] = rep]

LEMMA GoesOnAnswer ==
    ASSUME TypeOK, RepliesTyped, NEW t \in Threads, NEW next \in Steps, NEW c,
           Continue(t, next, c)
    PROVE  Answered(t, IF next = "rmdir" THEN Reply("PENDING") ELSE Reply(c.err))
<1>1. /\ pc'[t] = next /\ call'[t] = c /\ reply'[t] = Reply("PENDING")
      /\ \A u \in Threads \ {t} : pc'[u] = pc[u] /\ call'[u] = call[u] /\ reply'[u] = reply[u]
  BY DEF Continue, TypeOK, ThreadsOK, RepliesTyped
<1>2. ReplyView(t)' = IF next = "rmdir" THEN Reply("PENDING") ELSE Reply(c.err)
  BY <1>1 DEF ReplyView, Steps
<1>3. \A u \in Threads \ {t} : ReplyView(u)' = ReplyView(u)
  BY <1>1 DEF ReplyView
<1> QED
  BY <1>2, <1>3 DEF Answered, RepliesSeen

LEMMA EndsAnswer ==
    ASSUME TypeOK, RepliesTyped, NEW t \in Threads, NEW rep, Finish(t, rep)
    PROVE  Answered(t, rep)
<1>1. /\ pc'[t] = "idle" /\ reply'[t] = rep
      /\ \A u \in Threads \ {t} : pc'[u] = pc[u] /\ call'[u] = call[u] /\ reply'[u] = reply[u]
  BY DEF Finish, TypeOK, ThreadsOK, RepliesTyped
<1>2. ReplyView(t)' = rep
  BY <1>1 DEF ReplyView
<1>3. \A u \in Threads \ {t} : ReplyView(u)' = ReplyView(u)
  BY <1>1 DEF ReplyView
<1> QED
  BY <1>2, <1>3 DEF Answered, RepliesSeen

\* An answer that was promised before changes nothing.
LEMMA SameAnswer ==
    ASSUME NEW t \in Threads, NEW rep, Answered(t, rep), ReplyView(t) = rep
    PROVE  RepliesSeen' = RepliesSeen
  BY DEF Answered, RepliesSeen


-----------------------------------------------------------------------------
(* Attributes from one state to the next *)

\* An object of which nothing changed that its attributes come from.
LEMMA SameSeen ==
    ASSUME NEW T, NEW D, NEW step, NEW c, NEW A, Sees(T, D, step, c, A),
           NEW U, NEW E, NEW next, NEW e, NEW B, Sees(U, E, next, e, B),
           NEW o \in Objects, Present(T, o) <=> Present(U, o),
           Present(U, o) =>
              \/ /\ InMemory(T, step, c, o) /\ InMemory(U, next, e, o)
                 /\ c.attrs = e.attrs
              \/ /\ ~InMemory(T, step, c, o) /\ ~InMemory(U, next, e, o)
                 /\ o \in Dirs => DirStored(T, D, o) = DirStored(U, E, o)
                 /\ o \in Files =>
                      \E s : /\ HasSide(T, step, c, o, s) /\ HasSide(U, next, e, o, s)
                             /\ D[s] = E[s]
    PROVE  A[o] = B[o]
<1>1. CASE ~Present(U, o)
  BY <1>1 DEF Sees
<1>2. CASE Present(U, o) /\ InMemory(U, next, e, o)
  BY <1>2 DEF Sees
<1>3. CASE Present(U, o) /\ ~InMemory(U, next, e, o) /\ o \in Dirs
  <2>1. A[o] = shown(o, DirStored(T, D, o)) /\ B[o] = shown(o, DirStored(U, E, o))
    BY <1>3 DEF Sees
  <2> QED
    BY <1>3, <2>1
<1>4. CASE Present(U, o) /\ ~InMemory(U, next, e, o) /\ o \in Files
  <2>1. PICK s : /\ HasSide(T, step, c, o, s) /\ HasSide(U, next, e, o, s)
                 /\ D[s] = E[s]
    BY <1>4
  <2>2. A[o] = shown(o, D[s]) /\ B[o] = shown(o, E[s])
    BY <1>4, <2>1 DEF Sees
  <2> QED
    BY <2>1, <2>2
<1> QED
  BY <1>1, <1>2, <1>3, <1>4 DEF Objects

LEMMA EqualSeen ==
    ASSUME NEW T, NEW D, NEW step, NEW c, Sees(T, D, step, c, AttrsSeen),
           Sees(T, D, step, c, AttrsSeen')
    PROVE  AttrsSeen' = AttrsSeen
<1>1. ASSUME NEW o \in Objects
      PROVE  AttrsSeen'[o] = AttrsSeen[o]
  <2>1. CASE Present(T, o) /\ o \in Files /\ ~InMemory(T, step, c, o)
    <3>1. PICK s : HasSide(T, step, c, o, s)
      BY <2>1 DEF Sees
    <3> QED
      BY <2>1, <3>1 DEF Sees
  <2>2. CASE ~(Present(T, o) /\ o \in Files /\ ~InMemory(T, step, c, o))
    BY <2>2 DEF Sees, Objects
  <2> QED
    BY <2>1, <2>2
<1> QED
  BY <1>1 DEF AttrsSeen

LEMMA AfterEnd ==
    ASSUME TypeOK, TypeOK', SidecarInv', NamedInDirs(ent'),
           NEW t \in Threads, Quiet \/ Alone(t), NEW rep, Finish(t, rep)
    PROVE  Sees(ent', data', "idle", NoCall, AttrsSeen')
<1>1. Quiet'
  BY QuietEnd
<1> QED
  BY <1>1, ViewSeesNext DEF SeesQuiet

LEMMA AfterStep ==
    ASSUME TypeOK, TypeOK', SidecarInv', NamedInDirs(ent'),
           NEW t \in Threads, Quiet \/ Alone(t), NEW next \in Steps, NEW c,
           Continue(t, next, c)
    PROVE  Sees(ent', data', next, c, AttrsSeen')
<1>1. pc'[t] = next /\ call'[t] = c /\ Alone(t)'
  BY GoesOn
<1> QED
  BY <1>1, ViewSeesNext DEF SeesBusy

\* Changes of the attributes.
LEMMA SetOne ==
    ASSUME NEW o \in Objects, NEW a, AttrsSeen'[o] = a,
           \A u \in Objects \ {o} : AttrsSeen'[u] = AttrsSeen[u]
    PROVE  AttrsSeen' = [AttrsSeen EXCEPT ![o] = a]
  BY DEF AttrsSeen

Kept == \A o \in Objects : Present(ent, o) /\ Present(ent', o) => AttrsSeen'[o] = AttrsSeen[o]

LEMMA ForgetSeen ==
    ASSUME TypeOK, TypeOK', SidecarInv', NamedInDirs(ent'), Kept,
           \A o \in Objects : Present(ent', o) => Present(ent, o)
    PROVE  AttrsSeen' = AFS!Forget(tree', AttrsSeen)
<1>1. \A o \in Objects : Present(tree', o) <=> Present(ent', o)
  BY ClientPaths, TreeIs DEF TypeOK
<1>2. \A o \in Objects : AttrsSeen'[o] = AttrView(o)'
  BY DEF AttrsSeen
<1>3. \A o \in Objects : ~Present(ent', o) => AttrsSeen'[o] = NoAttr
  BY <1>2 DEF AttrView
<1>4. AttrsSeen' = [o \in Objects |-> IF Present(tree', o) THEN AttrsSeen[o] ELSE NoAttr]
  BY <1>1, <1>3 DEF Kept, AttrsSeen
<1> QED
  BY <1>4, SameOperators DEF AFS!Forget


-----------------------------------------------------------------------------
(* Requests that read *)

LEMMA ReadIsView ==
    ASSUME NEW t \in Threads, Begins(t), SeesQuiet, NEW p \in Existing(ent)
    PROVE  /\ At(ent, p) \in Objects /\ Present(ent, At(ent, p))
           /\ AttrsSeen[At(ent, p)] = shown(At(ent, p), readAttrs(p, dirfile(p)))
<1> DEFINE o == At(ent, p)
<1>1. Sees(ent, data, "idle", NoCall, AttrsSeen) /\ TreeOK(ent)
  BY DEF SeesQuiet, Begins, TypeOK
<1>2. o = Root \/ (p \in NamedPath /\ o # None)
  BY PathSets DEF Existing
<1>3. o \in Objects
  BY <1>1, <1>2, SideTypes, HostTreeAssumption DEF Objects
<1>4. Present(ent, o)
  BY <1>1, <1>2, <1>3, PresentIs
<1>5. ~InMemory(ent, "idle", NoCall, o)
  BY DEF InMemory
<1>6. CASE o \in Dirs
  <2>1. AttrsSeen[o] = shown(o, DirStored(ent, data, o))
    BY <1>1, <1>4, <1>5, <1>6 DEF Sees
  <2>2. At(ent, attrsFileName(p, "DIRECTORY")) = ent[o][DirSide]
    BY EntryNames DEF attrsFileName, At
  <2>3. readAttrs(p, dirfile(p)) = DirStored(ent, data, o)
    BY <1>6, <2>2 DEF readAttrs, dirfile, DirStored
  <2> QED
    BY <1>3, <1>4, <2>1, <2>3
<1>7. CASE o \notin Dirs
  <2>1. o \in Files /\ p \in NamedPath /\ p \in FilesIn(ent)
    BY <1>2, <1>3, <1>7, HostTreeAssumption DEF Objects, FilesIn
  <2>2. SideIn(ent, p) # None
    BY <2>1 DEF Begins, AllHave, FilesHave
  <2>3. HasSide(ent, "idle", NoCall, o, SideIn(ent, p))
    BY <2>1, <2>2 DEF HasSide, Hold
  <2>4. AttrsSeen[o] = shown(o, data[SideIn(ent, p)])
    BY <1>1, <1>4, <1>5, <2>1, <2>3 DEF Sees
  <2>5. readAttrs(p, dirfile(p)) = data[SideIn(ent, p)]
    BY <1>7, <2>2 DEF readAttrs, dirfile, attrsFileName, SideIn, SideFile
  <2> QED
    BY <1>3, <1>4, <2>4, <2>5
<1> QED
  BY <1>6, <1>7

\* Nobody sees a request that changes neither tree nor sidecars; others may be half done.
LEMMA ReadsKeep ==
    ASSUME TypeOK, SidecarInv, TypeOK', SidecarInv', ViewInv, OneInside,
           NEW t \in Threads, pc[t] = "idle", NEW rep, Finish(t, rep), UNCHANGED <<ent, data>>
    PROVE  ViewInv' /\ AttrsSeen' = AttrsSeen
<1>1. pc' = pc /\ \A u \in Threads : Busy(u) => call'[u] = call[u]
  BY DEF Finish, TypeOK, ThreadsOK, Busy
<1>2. ViewInv'
  BY <1>1 DEF ViewInv, Busy
<1>3. SeesQuiet /\ SeesBusy /\ SeesQuiet' /\ SeesBusy'
  BY <1>2, ViewSees, ViewSeesNext DEF ViewInv
<1>4. CASE Quiet
  <2>1. Quiet'
    BY <1>1, <1>4 DEF Quiet, Busy
  <2> QED
    BY <1>2, <1>3, <1>4, <2>1, EqualSeen DEF SeesQuiet
<1>5. CASE ~Quiet
  <2>1. PICK u \in Threads : Alone(u)
    BY <1>5 DEF Quiet, Alone, OneInside
  <2>2. Alone(u)' /\ pc'[u] = pc[u] /\ call'[u] = call[u]
    BY <1>1, <2>1 DEF Alone, Busy
  <2>3. /\ Sees(ent, data, pc[u], call[u], AttrsSeen)
        /\ Sees(ent', data', pc'[u], call'[u], AttrsSeen')
    BY <1>3, <2>1, <2>2 DEF SeesBusy
  <2> QED
    BY <1>2, <2>2, <2>3, EqualSeen
<1> QED
  BY <1>4, <1>5

LEMMA VisibleView ==
    ASSUME TypeOK, NEW d \in Dirs
    PROVE  {n \in Entries : ent[d][n] # None /\ ~isEmuFile(n)} = AFS!Visible(d)
  BY EntryNames DEF AFS!Visible, tree, isEmuFile

LEMMA ReaddirView ==
    ASSUME TypeOK, RepliesTyped, NEW t \in Threads, Readdir(t), AttrsSeen' = AttrsSeen
    PROVE  AFS!Readdir(t)
<1>1. PICK p \in DirPaths(ent) :
        /\ Finish(t, [Reply(OK) EXCEPT !.names =
                {n \in Entries : ent[At(ent, p)][n] # None /\ ~isEmuFile(n)}])
        /\ UNCHANGED ent
  BY DEF Readdir
<1>2. p \in AnyPath /\ At(ent, p) \in Dirs
  BY PathSets DEF DirPaths
<1>3. p \in DirPaths(tree) /\ At(tree, p) = At(ent, p)
  BY <1>2, ClientPaths, TreeIs DEF TypeOK
<1>4. Answered(t, [Reply(OK) EXCEPT !.names = AFS!Visible(At(tree, p))])
  BY <1>1, <1>2, <1>3, VisibleView, EndsAnswer
<1>5. tree' = tree
  BY <1>1, TreeIs
<1> QED
  BY <1>3, <1>4, <1>5, SameOperators
     DEF AFS!Readdir, AFS!Answer, Answered, RepliesSeen, AttrsSeen

LEMMA GetattrView ==
    ASSUME RepliesTyped, SeesQuiet, NEW t \in Threads, Begins(t), Getattr(t),
           AttrsSeen' = AttrsSeen
    PROVE  AFS!Getattr(t)
<1>1. PICK p \in Existing(ent) :
        LET o == At(ent, p)
        IN  /\ Finish(t, [err |-> OK, attr |-> shown(o, readAttrs(p, dirfile(p))),
                  size |-> IF o \in Dirs
                           THEN 2 + Cardinality({n \in Entries : ent[o][n] # None /\ ~isEmuFile(n)})
                           ELSE 0,
                  names |-> {}])
            /\ UNCHANGED ent
  BY DEF Getattr
<1> DEFINE o == At(ent, p)
<1>2. p \in AnyPath /\ TypeOK
  BY PathSets DEF Begins
<1>3. p \in Existing(tree) /\ At(tree, p) = o
  BY <1>2, ClientPaths, TreeIs DEF TypeOK
<1>4. shown(o, readAttrs(p, dirfile(p))) = AttrsSeen[o]
  BY ReadIsView
<1>5. o \in Dirs => {n \in Entries : ent[o][n] # None /\ ~isEmuFile(n)} = AFS!Visible(o)
  BY <1>2, VisibleView
<1>6. \A S : AFS!Cardinality(S) = Cardinality(S)
  BY DEF AFS!Cardinality, Cardinality
<1>7. Answered(t, [err |-> OK, attr |-> AttrsSeen[o], names |-> {},
                   size |-> IF o \in Dirs THEN 2 + AFS!Cardinality(AFS!Visible(o)) ELSE 0])
  BY <1>1, <1>2, <1>4, <1>5, <1>6, EndsAnswer
<1>8. tree' = tree
  BY <1>1, TreeIs
<1> QED
  BY <1>3, <1>7, <1>8, SameOperators
     DEF AFS!Getattr, AFS!Answer, Answered, RepliesSeen, AttrsSeen

LEMMA OtherView ==
    ASSUME TypeOK, RepliesTyped, NEW t \in Threads, PassThrough(t) \/ Refuse(t),
           AttrsSeen' = AttrsSeen
    PROVE  AFS!Other(t)
<1>1. PICK err \in {OK, "EPERM"} : Finish(t, Reply(err)) /\ UNCHANGED ent
  BY DEF PassThrough, Refuse
<1>2. Answered(t, Reply(err))
  BY <1>1, EndsAnswer
<1>3. tree' = tree
  BY <1>1, TreeIs
<1> QED
  BY <1>2, <1>3, SameOperators DEF AFS!Other, AFS!Answer, Answered, RepliesSeen, AttrsSeen


-----------------------------------------------------------------------------
(* chown and chmod *)

LEMMA ReadableAttrs ==
    ASSUME NEW t \in Threads, Begins(t), NEW p \in Existing(ent)
    PROVE  readAttrs(p, dirfile(p)) \in Attrs
<1>1. TypeOK /\ Readable(ent, data, {})
  BY DEF Begins
<1>2. CASE At(ent, p) \in Dirs
  BY <1>1, <1>2, DirAttrs DEF dirfile
<1>3. CASE At(ent, p) \notin Dirs
  <2>1. p \in NamedPath
    BY <1>3, PathSets, HostTreeAssumption
  <2>2. readAttrs(p, dirfile(p)) \in Attrs \cup {Torn}
    BY <1>1, ObjectSidecar, ReadOK
  <2>3. SideIn(ent, p) # None => SideIn(ent, p) \in Sides
    BY <1>1, <2>1, SideTypes DEF TypeOK
  <2>4. defaultAttrs(At(ent, p)) # Torn
    BY DefaultAttrs, EmuAttrAssumption
  <2>5. At(ent, attrsFileName(p, "FILE")) = SideIn(ent, p)
    BY DEF attrsFileName, SideIn, SideFile
  <2>6. readAttrs(p, dirfile(p)) # Torn
    BY <1>1, <1>3, <2>1, <2>3, <2>4, <2>5 DEF readAttrs, dirfile, Readable
  <2> QED
    BY <2>2, <2>6
<1> QED
  BY <1>2, <1>3

LEMMA SetView ==
    ASSUME ViewInv, SeesQuiet, NEW t \in Threads, Begins(t), TypeOK', SidecarInv',
           NEW p \in Existing(ent), NEW op, NEW b, UNCHANGED <<ent, data>>,
           Continue(t, "open", Call(op, p, p, attrsFileName(p, dirfile(p)), b, OK))
    PROVE  /\ ViewInv'
           /\ AttrsSeen' = [AttrsSeen EXCEPT ![At(ent, p)] = shown(At(ent, p), b)]
           /\ call'[t].op = op /\ call'[t].path = p
<1> DEFINE o == At(ent, p)
<1>1. PICK c : c = Call(op, p, p, attrsFileName(p, dirfile(p)), b, OK)
  OBVIOUS
<1>2. /\ c.op = op /\ c.path = p /\ c.attrs = b /\ c.err = OK
      /\ c.sidecar = attrsFileName(p, dirfile(p))
  BY <1>1 DEF Call
<1>3. Continue(t, "open", c) /\ TypeOK /\ Quiet
  BY <1>1 DEF Begins
<1>4. call'[t] = c
  BY <1>3, GoesOn DEF Steps
<1>5. Knows(ent', "open", c)
  BY <1>2, PathSets DEF Knows, OwnSide, attrsFileName, dirfile, SideFile, Existing
<1>6. NamedInDirs(ent') /\ DirSidesOwn(ent')
  BY DEF ViewInv
<1>7. ViewInv'
  BY <1>3, <1>5, <1>6, GoesOnKnows DEF Steps
<1>8. /\ Sees(ent, data, "idle", NoCall, AttrsSeen)
      /\ Sees(ent, data, "open", c, AttrsSeen')
  BY <1>3, <1>6, AfterStep DEF SeesQuiet, Steps
<1>9. o \in Objects /\ Present(ent, o)
  BY ReadIsView
<1>10. AttrsSeen'[o] = shown(o, b)
  BY <1>2, <1>8, <1>9 DEF Sees, InMemory
<1>11. ASSUME NEW u \in Objects \ {o}
       PROVE  AttrsSeen'[u] = AttrsSeen[u]
  <2>1. ~InMemory(ent, "idle", NoCall, u) /\ ~InMemory(ent, "open", c, u)
    BY <1>2 DEF InMemory
  <2>2. ASSUME u \in Files, Present(ent, u)
        PROVE  \E s : HasSide(ent, "idle", NoCall, u, s) /\ HasSide(ent, "open", c, u, s)
    BY <1>8, <2>1, <2>2 DEF Sees, HasSide, Hold
  <2> QED
    BY <1>8, <2>1, <2>2, SameSeen
<1> QED
  BY <1>2, <1>4, <1>7, <1>9, <1>10, <1>11, SetOne

\* Ids are shown as they were asked for.
LEMMA ShownIds ==
    /\ \A id \in ReqUids \ {NoId} : shownUid[id] = id
    /\ \A id \in ReqGids \ {NoId} : shownGid[id] = id
<1>1. \A id \in ReqUids \ {NoId} : id \in InnerIds(UidMap) /\ id \in Id
  BY EmuAttrAssumption, StoredIds
<1>2. \A id \in ReqGids \ {NoId} : id \in InnerIds(GidMap) /\ id \in Id
  BY EmuAttrAssumption, StoredIds
<1>3. \A id \in ReqUids \ {NoId} : kernelIn(toOuter(id, UidMap), UidMap) = id
  BY <1>1, IdsRoundTrip, EmuAttrAssumption
<1>4. \A id \in ReqGids \ {NoId} : kernelIn(toOuter(id, GidMap), GidMap) = id
  BY <1>2, IdsRoundTrip, EmuAttrAssumption
<1> QED
  BY <1>1, <1>2, <1>3, <1>4 DEF shownUid, shownGid

LEMMA ShownChange ==
    ASSUME NEW o, NEW a \in Attrs, NEW uid \in ReqUids, NEW gid \in ReqGids
    PROVE  shown(o, emu_chown(a, storedUid[uid], storedGid[gid])) =
               AFS!NewOwner(shown(o, a), uid, gid)
<1>1. storedUid[uid] = uid /\ storedGid[gid] = gid
  BY StoredIds
<1>2. emu_chown(a, uid, gid) \in Attrs
  BY <1>1, WrittenAttrs DEF Bits
<1>3. Torn \notin Attrs
  BY EmuAttrAssumption
<1>4. shown(o, a) = [uid |-> shownUid[a.uid], gid |-> shownGid[a.gid], mode |-> a.mode]
  BY <1>3 DEF shown
<1>5. PICK b : b = emu_chown(a, uid, gid)
  OBVIOUS
<1>6. /\ b.uid = (IF uid = NoId THEN a.uid ELSE uid)
      /\ b.gid = (IF gid = NoId THEN a.gid ELSE gid) /\ b.mode = a.mode
  BY <1>5 DEF emu_chown, Attrs
<1>7. shown(o, b) = [uid |-> shownUid[b.uid], gid |-> shownGid[b.gid], mode |-> b.mode]
  BY <1>2, <1>3, <1>5 DEF shown
<1>8. /\ shownUid[b.uid] = (IF uid = NoId THEN shownUid[a.uid] ELSE uid)
      /\ shownGid[b.gid] = (IF gid = NoId THEN shownGid[a.gid] ELSE gid)
  BY <1>6, ShownIds
<1>9. shown(o, b) = AFS!NewOwner(shown(o, a), uid, gid)
  <2>1. PICK x : x = shown(o, a)
    OBVIOUS
  <2>2. x.uid = shownUid[a.uid] /\ x.gid = shownGid[a.gid] /\ x.mode = a.mode
    BY <1>4, <2>1
  <2>3. PICK u, g : /\ u = (IF uid = NoId THEN x.uid ELSE uid)
                    /\ g = (IF gid = NoId THEN x.gid ELSE gid)
    OBVIOUS
  <2>4. [x EXCEPT !.uid = u, !.gid = g] = [uid |-> u, gid |-> g, mode |-> a.mode]
    <3>1. PICK y : y = [x EXCEPT !.uid = u]
      OBVIOUS
    <3>2. y = [uid |-> u, gid |-> x.gid, mode |-> x.mode]
      BY <1>4, <2>1, <3>1
    <3>3. [y EXCEPT !.gid = g] = [uid |-> u, gid |-> g, mode |-> x.mode]
      BY <3>2
    <3>4. [x EXCEPT !.uid = u, !.gid = g] = [y EXCEPT !.gid = g]
      BY <3>1
    <3> QED
      BY <2>2, <3>3, <3>4
  <2>5. shown(o, b) = [uid |-> u, gid |-> g, mode |-> a.mode]
    BY <1>6, <1>7, <1>8, <2>2, <2>3
  <2> QED
    BY <2>1, <2>3, <2>4, <2>5 DEF AFS!NewOwner
<1> QED
  BY <1>1, <1>5, <1>9

LEMMA ShownMode ==
    ASSUME NEW o, NEW a \in Attrs, NEW mode \in SUBSET Bits
    PROVE  shown(o, [a EXCEPT !.mode = mode]) = [shown(o, a) EXCEPT !.mode = mode]
<1>1. PICK d : d = [a EXCEPT !.mode = mode]
  OBVIOUS
<1>2. d \in Attrs /\ d.uid = a.uid /\ d.gid = a.gid /\ d.mode = mode
  BY <1>1 DEF Attrs
<1>3. Torn \notin Attrs
  BY EmuAttrAssumption
<1>4. /\ shown(o, a) = [uid |-> shownUid[a.uid], gid |-> shownGid[a.gid], mode |-> a.mode]
      /\ shown(o, d) = [uid |-> shownUid[d.uid], gid |-> shownGid[d.gid], mode |-> d.mode]
  BY <1>2, <1>3 DEF shown
<1> QED
  BY <1>1, <1>2, <1>4


\* What AttrsOnlySet says of a step.
OnlySet ==
    \A o \in Changed : \E t \in Threads :
        call'[t].op \in {"CHOWN", "CHMOD"} /\ At(ent', call'[t].path) = o

LEMMA SetsOnly ==
    ASSUME NEW o \in Objects, NEW a, AttrsSeen' = [AttrsSeen EXCEPT ![o] = a],
           NEW t \in Threads, call'[t].op \in {"CHOWN", "CHMOD"},
           At(ent', call'[t].path) = o
    PROVE  OnlySet
<1>1. \A u \in Objects : AttrsSeen[u] = AttrView(u) /\ AttrsSeen'[u] = AttrView(u)'
  BY DEF AttrsSeen
<1>2. \A u \in Objects \ {o} : AttrsSeen'[u] = AttrsSeen[u]
  BY DEF AttrsSeen
<1>3. Changed \subseteq {o}
  BY <1>1, <1>2 DEF Changed
<1> QED
  BY <1>3 DEF OnlySet

LEMMA KeptOnly == Kept => OnlySet
<1>1. \A u \in Objects : AttrsSeen[u] = AttrView(u) /\ AttrsSeen'[u] = AttrView(u)'
  BY DEF AttrsSeen
<1> QED
  BY <1>1 DEF Kept, OnlySet, Changed

LEMMA ChownView ==
    ASSUME RepliesTyped, ViewInv, SeesQuiet, NEW t \in Threads, Begins(t), TypeOK', SidecarInv',
           Chown(t)
    PROVE  ViewInv' /\ AFS!Chown(t) /\ OnlySet
<1>1. PICK p \in Existing(ent), uid \in ReqUids, gid \in ReqGids :
        LET dt == dirfile(p)
            a == readAttrs(p, dt)
            b == emu_chown(a, storedUid[uid], storedGid[gid])
        IN  /\ IF a = Torn THEN Finish(t, Reply("EIO"))
               ELSE Continue(t, "open", Call("CHOWN", p, p, attrsFileName(p, dt), b, OK))
            /\ UNCHANGED <<ent, data>>
  BY DEF Chown
<1>2. PICK a : a = readAttrs(p, dirfile(p))
  OBVIOUS
<1>3. PICK o : o = At(ent, p)
  OBVIOUS
<1>4. PICK b : b = emu_chown(a, storedUid[uid], storedGid[gid])
  OBVIOUS
<1>5. a \in Attrs /\ a # Torn
  BY <1>2, ReadableAttrs, EmuAttrAssumption
<1>6. Continue(t, "open", Call("CHOWN", p, p, attrsFileName(p, dirfile(p)), b, OK))
  BY <1>1, <1>2, <1>4, <1>5
<1>7. /\ ViewInv' /\ AttrsSeen' = [AttrsSeen EXCEPT ![o] = shown(o, b)]
      /\ call'[t].op = "CHOWN" /\ call'[t].path = p
  BY <1>1, <1>3, <1>6, SetView
<1>8. o \in Objects /\ AttrsSeen[o] = shown(o, a)
  BY <1>2, <1>3, ReadIsView
<1>9. shown(o, b) = AFS!NewOwner(AttrsSeen[o], uid, gid)
  BY <1>4, <1>5, <1>8, ShownChange
<1>10. OnlySet
  BY <1>1, <1>3, <1>7, <1>8, SetsOnly
<1>11. p \in Existing(tree) /\ At(tree, p) = o
  BY <1>3, PathSets, ClientPaths, TreeIs DEF Begins, TypeOK
<1>12. tree' = tree
  BY <1>1, TreeIs
<1>13. Answered(t, Reply(OK))
  BY <1>6, GoesOnAnswer DEF Begins, Steps, Call
<1>14. AFS!Answer(t, AFS!Reply(AFS!OK))
  BY <1>13, SameOperators DEF AFS!Answer, Answered, RepliesSeen
<1>15. AttrsSeen' = [AttrsSeen EXCEPT ![AFS!At(tree, p)] =
                        AFS!NewOwner(AttrsSeen[AFS!At(tree, p)], uid, gid)]
  BY <1>7, <1>9, <1>11, SameOperators
<1>16. p \in AFS!Existing(tree)
  BY <1>11, SameOperators
<1>17. AFS!Chown(t)
  BY <1>12, <1>14, <1>15, <1>16 DEF AFS!Chown, AttrsSeen
<1> QED
  BY <1>7, <1>10, <1>17

LEMMA ChmodView ==
    ASSUME RepliesTyped, ViewInv, SeesQuiet, NEW t \in Threads, Begins(t), TypeOK', SidecarInv',
           Chmod(t)
    PROVE  ViewInv' /\ AFS!Chmod(t) /\ OnlySet
<1>1. PICK p \in Existing(ent), mode \in ReqModes :
        LET dt == dirfile(p)
            a == readAttrs(p, dt)
        IN  /\ IF a = Torn THEN Finish(t, Reply("EIO"))
               ELSE Continue(t, "open", Call("CHMOD", p, p, attrsFileName(p, dt),
                                             [a EXCEPT !.mode = mode], OK))
            /\ UNCHANGED <<ent, data>>
  BY DEF Chmod
<1>2. PICK a : a = readAttrs(p, dirfile(p))
  OBVIOUS
<1>3. PICK o : o = At(ent, p)
  OBVIOUS
<1>4. PICK b : b = [a EXCEPT !.mode = mode]
  OBVIOUS
<1>5. a \in Attrs /\ a # Torn /\ mode \in SUBSET Bits
  BY <1>2, ReadableAttrs, EmuAttrAssumption
<1>6. Continue(t, "open", Call("CHMOD", p, p, attrsFileName(p, dirfile(p)), b, OK))
  BY <1>1, <1>2, <1>4, <1>5
<1>7. /\ ViewInv' /\ AttrsSeen' = [AttrsSeen EXCEPT ![o] = shown(o, b)]
      /\ call'[t].op = "CHMOD" /\ call'[t].path = p
  BY <1>1, <1>3, <1>6, SetView
<1>8. o \in Objects /\ AttrsSeen[o] = shown(o, a)
  BY <1>2, <1>3, ReadIsView
<1>9. shown(o, b) = [AttrsSeen[o] EXCEPT !.mode = mode]
  BY <1>4, <1>5, <1>8, ShownMode
<1>10. OnlySet
  BY <1>1, <1>3, <1>7, <1>8, SetsOnly
<1>11. p \in Existing(tree) /\ At(tree, p) = o
  BY <1>3, PathSets, ClientPaths, TreeIs DEF Begins, TypeOK
<1>12. tree' = tree
  BY <1>1, TreeIs
<1>13. Answered(t, Reply(OK))
  BY <1>6, GoesOnAnswer DEF Begins, Steps, Call
<1>14. AFS!Answer(t, AFS!Reply(AFS!OK))
  BY <1>13, SameOperators DEF AFS!Answer, Answered, RepliesSeen
<1>15. AttrsSeen' = [AttrsSeen EXCEPT ![AFS!At(tree, p)].mode = mode]
  BY <1>7, <1>9, <1>11, SameOperators
<1>16. p \in AFS!Existing(tree)
  BY <1>11, SameOperators
<1>17. AFS!Chmod(t)
  BY <1>12, <1>14, <1>15, <1>16 DEF AFS!Chmod, AttrsSeen
<1> QED
  BY <1>7, <1>10, <1>17


-----------------------------------------------------------------------------
(* New objects *)

LEMMA NewObjectView ==
    ASSUME RepliesTyped, ViewInv, SeesQuiet, NEW t \in Threads, Begins(t), TypeOK', SidecarInv',
           NEW op, NEW p \in Absent(ent), NEW n \in Objects, ~Linked(ent, n), n # Root,
           ent' = Put(ent, p, n), data' = data, NEW s, s = OwnSide(ent', p),
           NEW mode \in SUBSET Bits, NEW uid \in ReqUids \ {NoId}, NEW gid \in ReqGids \ {NoId},
           emu_creat_mkdir(t, op, p, s, mode, uid, gid)
    PROVE  ViewInv' /\ AFS!Create(t, n, p, uid, gid, mode) /\ OnlySet
<1>1. /\ p \in NamedPath /\ p \in AnyPath /\ At(ent, p) = None /\ Present(ent, p.dir)
      /\ p.dir \in Dirs /\ p.dir \in Objects /\ p.dir # n
  <2>1. p \in NamedPath /\ p \in AnyPath /\ At(ent, p) = None /\ Present(ent, p.dir)
    BY PathSets DEF Absent, Paths
  <2> QED
    BY <2>1 DEF Present, NamedPath, Objects
<1>2. TreeOK(ent) /\ TypeOK /\ Quiet
  BY DEF Begins, TypeOK
<1>3. SetObject(ent, ent', p, n)
  BY <1>1, <1>2, PutObject
<1>4. PICK dirA : dirA = readAttrs(dirOf(p), "DIRECTORY")
  OBVIOUS
<1>5. dirA \in Attrs /\ dirA # Torn
  <2>1. At(ent, dirOf(p)) \in Dirs
    BY <1>1 DEF dirOf, At
  <2> QED
    BY <1>4, <2>1, DirAttrs, EmuAttrAssumption DEF Begins
<1>6. Sees(ent, data, "idle", NoCall, AttrsSeen)
  BY <1>2 DEF SeesQuiet
<1>7. AttrsSeen[p.dir] = shown(p.dir, dirA)
  <2>1. AttrsSeen[p.dir] = shown(p.dir, DirStored(ent, data, p.dir))
    BY <1>1, <1>6 DEF Sees, InMemory
  <2>2. At(ent, dirOf(p)) = p.dir
    BY DEF dirOf, At
  <2>3. At(ent, attrsFileName(dirOf(p), "DIRECTORY")) = ent[p.dir][DirSide]
    BY <2>2, EntryNames DEF attrsFileName, At
  <2>4. dirA = DirStored(ent, data, p.dir)
    BY <1>4, <2>2, <2>3 DEF readAttrs, DirStored
  <2> QED
    BY <2>1, <2>4
<1>8. PICK a : a = [mode |-> mode, uid |-> storedUid[uid],
                    gid |-> IF "sgid" \in dirA.mode THEN dirA.gid ELSE storedGid[gid]]
  OBVIOUS
<1>9. PICK c : c = Call(op, p, p, s, a, OK)
  OBVIOUS
<1>10. c.path = p /\ c.sidecar = s /\ c.attrs = a /\ c.err = OK
  BY <1>9 DEF Call
<1>11. Continue(t, "open", c)
  BY <1>4, <1>5, <1>8, <1>9 DEF emu_creat_mkdir
<1>12. a \in Attrs
  BY <1>5, <1>8, WrittenAttrs
<1>13. \A o \in Objects : Present(ent', o) <=> Present(ent, o) \/ o = n
  BY <1>1, <1>2, <1>3, PresentIs, EntryNames DEF SetObject, TypeOK
<1>14. ~Present(ent, n)
  BY DEF Present
<1>15. NamedInDirs(ent')
  BY <1>1, <1>3, <1>13 DEF ViewInv, NamedInDirs, SetObject, NamedPath, Objects
<1>16. DirSidesOwn(ent')
  BY <1>3 DEF ViewInv, DirSidesOwn, SetObject
<1>17. ViewInv'
  <2>1. Knows(ent', "open", c)
    BY <1>1, <1>10 DEF Knows
  <2> QED
    BY <1>2, <1>11, <1>15, <1>16, <2>1, GoesOnKnows DEF Steps
<1>18. Sees(ent', data', "open", c, AttrsSeen')
  BY <1>2, <1>11, <1>15, AfterStep DEF Steps
<1>19. At(ent', p) = n
  BY <1>1, <1>3 DEF SetObject
<1>20. AttrsSeen'[n] = shown(n, a)
  BY <1>10, <1>13, <1>18, <1>19 DEF Sees, InMemory
<1>21. ASSUME NEW u \in Objects \ {n}
       PROVE  AttrsSeen'[u] = AttrsSeen[u]
  <2>1. ~InMemory(ent, "idle", NoCall, u) /\ ~InMemory(ent', "open", c, u)
    BY <1>10, <1>19 DEF InMemory
  <2>2. ASSUME u \in Files, Present(ent, u)
        PROVE  \E x : HasSide(ent, "idle", NoCall, u, x) /\ HasSide(ent', "open", c, u, x)
    <3>1. PICK x : HasSide(ent, "idle", NoCall, u, x)
      BY <1>6, <2>1, <2>2 DEF Sees
    <3>2. PICK q \in NamedPath : At(ent, q) = u /\ x = SideIn(ent, q) /\ x # None
      BY <3>1 DEF HasSide, Hold
    <3>3. At(ent', q) = u /\ SideIn(ent', q) = x
      BY <1>1, <1>3, <2>2, <3>2, HostTreeAssumption DEF SetObject
    <3> QED
      BY <3>1, <3>2, <3>3 DEF HasSide, Hold
  <2>3. u \in Dirs => DirStored(ent', data', u) = DirStored(ent, data, u)
    BY <1>3 DEF SetObject, DirStored
  <2> QED
    BY <1>6, <1>13, <1>18, <2>1, <2>2, <2>3, SameSeen
<1>22. Kept
  BY <1>14, <1>21 DEF Kept
<1>23. shown(n, a) = [uid |-> uid, mode |-> mode,
                      gid |-> IF "sgid" \in AttrsSeen[p.dir].mode THEN AttrsSeen[p.dir].gid
                              ELSE gid]
  <2>1. storedUid[uid] = uid /\ storedGid[gid] = gid
    BY StoredIds
  <2>2. shownUid[uid] = uid /\ shownGid[gid] = gid
    BY ShownIds
  <2>3. Torn \notin Attrs
    BY EmuAttrAssumption
  <2>4. AttrsSeen[p.dir].mode = dirA.mode /\ AttrsSeen[p.dir].gid = shownGid[dirA.gid]
    BY <1>5, <1>7 DEF shown
  <2>5. shown(n, a) = [uid |-> shownUid[a.uid], gid |-> shownGid[a.gid], mode |-> a.mode]
    BY <1>12, <2>3 DEF shown
  <2>6. /\ a.uid = uid /\ a.mode = mode
        /\ a.gid = IF "sgid" \in dirA.mode THEN dirA.gid ELSE gid
    BY <1>8, <2>1
  <2> QED
    BY <2>2, <2>4, <2>5, <2>6
<1>24. tree' = Put(tree, p, n) /\ ~Present(tree, n)
  BY <1>1, <1>2, <1>14, TreeIs, PutNamed, ClientPaths
<1>25. Answered(t, Reply(OK))
  BY <1>2, <1>10, <1>11, GoesOnAnswer DEF Steps
<1>26. AFS!Answer(t, AFS!Reply(AFS!OK))
  BY <1>25, SameOperators DEF AFS!Answer, Answered, RepliesSeen
<1>27. AttrsSeen' = [AttrsSeen EXCEPT ![n] =
            [uid |-> uid, mode |-> mode,
             gid |-> IF "sgid" \in AttrsSeen[p.dir].mode THEN AttrsSeen[p.dir].gid ELSE gid]]
  BY <1>20, <1>21, <1>23, SetOne
<1>28. AFS!Create(t, n, p, uid, gid, mode)
  BY <1>24, <1>26, <1>27, SameOperators DEF AFS!Create, AttrsSeen
<1> QED
  BY <1>17, <1>22, <1>28, KeptOnly

LEMMA CreatView ==
    ASSUME RepliesTyped, ViewInv, SeesQuiet, NEW t \in Threads, Begins(t), TypeOK', SidecarInv',
           Creat(t)
    PROVE  ViewInv' /\ AFS!Creat(t) /\ OnlySet
<1>1. PICK p \in Absent(ent), uid \in ReqUids \ {NoId}, gid \in ReqGids \ {NoId},
           mode \in ReqModes, op \in {"CREAT", "MKNOD", "SYMLINK"} :
        /\ CanCreate(Files)
        /\ ent' = Put(ent, p, FreshFile)
        /\ emu_creat_mkdir(t, op, p, attrsFileName(p, "FILE"),
                           IF op = "SYMLINK" THEN linkmode ELSE mode, uid, gid)
        /\ data' = data
  BY DEF Creat
<1>2. PICK m : m = IF op = "SYMLINK" THEN linkmode ELSE mode
  OBVIOUS
<1>3. m \in SUBSET Bits /\ m \in ReqModes \cup {linkmode}
  BY <1>2, EmuAttrAssumption DEF linkmode, Bits
<1>4. FreshFile \in Files /\ ~Linked(ent, FreshFile)
  BY <1>1 DEF CanCreate, FreshFile
<1>5. FreshFile \in Objects /\ FreshFile # Root /\ FreshFile \notin Dirs
  BY <1>4, HostTreeAssumption DEF Objects
<1> HIDE DEF FreshFile
<1>6. p \in NamedPath
  BY PathSets
<1>7. At(ent', p) = FreshFile
  BY <1>1, <1>6, PutObject DEF SetObject, Begins, TypeOK
<1>8. attrsFileName(p, "FILE") = OwnSide(ent', p)
  BY <1>5, <1>7 DEF attrsFileName, OwnSide, SideFile
<1>9. ViewInv' /\ AFS!Create(t, FreshFile, p, uid, gid, m) /\ OnlySet
  BY <1>1, <1>2, <1>3, <1>4, <1>5, <1>8, NewObjectView
<1>10. p \in AFS!Absent(tree)
  BY ClientPaths, TreeIs, SameOperators DEF Begins, TypeOK
<1> QED
  BY <1>3, <1>4, <1>9, <1>10 DEF AFS!Creat

LEMMA MkdirView ==
    ASSUME RepliesTyped, ViewInv, SeesQuiet, NEW t \in Threads, Begins(t), TypeOK', SidecarInv',
           Mkdir(t)
    PROVE  ViewInv' /\ AFS!Mkdir(t) /\ OnlySet
<1>1. PICK p \in Absent(ent), uid \in ReqUids \ {NoId}, gid \in ReqGids \ {NoId},
           mode \in ReqModes :
        /\ CanCreate(Dirs)
        /\ ent' = Put(ent, p, FreshDir)
        /\ emu_creat_mkdir(t, "MKDIR", p, [dir |-> FreshDir, name |-> DirSide],
                           mode, uid, gid)
        /\ data' = data
  BY DEF Mkdir
<1>2. mode \in SUBSET Bits
  BY EmuAttrAssumption
<1>3. FreshDir \in Dirs /\ FreshDir # Root /\ ~Linked(ent, FreshDir) /\ FreshDir \in Objects
  BY <1>1, EmuAttrAssumption DEF CanCreate, FreshDir, Objects
<1> HIDE DEF FreshDir
<1>4. p \in NamedPath
  BY PathSets
<1>5. At(ent', p) = FreshDir
  BY <1>1, <1>4, PutObject DEF SetObject, Begins, TypeOK
<1>6. [dir |-> FreshDir, name |-> DirSide] = OwnSide(ent', p)
  BY <1>3, <1>5 DEF OwnSide
<1>7. ViewInv' /\ AFS!Create(t, FreshDir, p, uid, gid, mode) /\ OnlySet
  BY <1>1, <1>2, <1>3, <1>6, NewObjectView
<1>8. p \in AFS!Absent(tree)
  BY ClientPaths, TreeIs, SameOperators DEF Begins, TypeOK
<1> QED
  BY <1>3, <1>7, <1>8 DEF AFS!Mkdir


-----------------------------------------------------------------------------
(* Names of files *)

LEMMA AllSame ==
    ASSUME \A o \in Objects : AttrsSeen'[o] = AttrsSeen[o]
    PROVE  AttrsSeen' = AttrsSeen /\ Kept
  BY DEF AttrsSeen, Kept

LEMMA LinkView ==
    ASSUME RepliesTyped, ViewInv, SeesQuiet, NEW t \in Threads, Begins(t), TypeOK', SidecarInv',
           Link(t)
    PROVE  ViewInv' /\ AFS!Link(t) /\ OnlySet
<1>1. PICK p \in FilePaths(ent), q \in Absent(ent) :
        /\ ent' = link(ent, p, q)
        /\ Continue(t, "link", Call("LINK", p, q, attrsFileName(q, "FILE"), Undef, OK))
        /\ data' = data
  BY DEF Link
<1>2. PICK o : o = At(ent, p)
  OBVIOUS
<1>3. PICK c : c = Call("LINK", p, q, attrsFileName(q, "FILE"), Undef, OK)
  OBVIOUS
<1>4. /\ p \in NamedPath /\ q \in NamedPath /\ p \in AnyPath /\ q \in AnyPath
      /\ At(ent, q) = None /\ Present(ent, q.dir)
      /\ o \in Files /\ o # None /\ o \notin Dirs /\ o # Root /\ o \in Objects
  BY <1>2, PathSets, HostTreeAssumption DEF Absent, Paths, Objects
<1>5. ent' = Put(ent, q, o) /\ TreeOK(ent) /\ TypeOK /\ Quiet
  BY <1>1, <1>2, <1>4 DEF link, linkError, Begins, TypeOK
<1>6. SetObject(ent, ent', q, o)
  BY <1>4, <1>5, PutObject
<1>7. Continue(t, "link", c) /\ c.err = OK
  BY <1>1, <1>3 DEF Call
<1>8. \A u \in Objects : Present(ent', u) <=> Present(ent, u)
  BY <1>2, <1>4, <1>5, <1>6, PresentIs, EntryNames DEF SetObject, TypeOK
<1>9. NamedInDirs(ent')
  BY <1>4, <1>6, <1>8 DEF ViewInv, NamedInDirs, SetObject, NamedPath, Objects
<1>10. DirSidesOwn(ent')
  BY <1>6 DEF ViewInv, DirSidesOwn, SetObject
<1>11. ViewInv'
  <2>1. Knows(ent', "link", c)
    BY <1>7 DEF Knows
  <2> QED
    BY <1>5, <1>7, <1>9, <1>10, <2>1, GoesOnKnows DEF Steps
<1>12. Sees(ent', data', "link", c, AttrsSeen') /\ Sees(ent, data, "idle", NoCall, AttrsSeen)
  BY <1>5, <1>7, <1>9, AfterStep DEF Steps, SeesQuiet
<1>13. ASSUME NEW u \in Objects
       PROVE  AttrsSeen'[u] = AttrsSeen[u]
  <2>1. ~InMemory(ent, "idle", NoCall, u) /\ ~InMemory(ent', "link", c, u)
    BY DEF InMemory
  <2>2. ASSUME u \in Files, Present(ent, u)
        PROVE  \E x : HasSide(ent, "idle", NoCall, u, x) /\ HasSide(ent', "link", c, u, x)
    <3>1. PICK x : HasSide(ent, "idle", NoCall, u, x)
      BY <1>12, <2>1, <2>2 DEF Sees
    <3>2. PICK r \in NamedPath : At(ent, r) = u /\ x = SideIn(ent, r) /\ x # None
      BY <3>1 DEF HasSide, Hold
    <3>3. At(ent', r) = u /\ SideIn(ent', r) = x
      BY <1>4, <1>6, <2>2, <3>2, HostTreeAssumption DEF SetObject
    <3> QED
      BY <3>1, <3>2, <3>3 DEF HasSide, Hold
  <2>3. u \in Dirs => DirStored(ent', data', u) = DirStored(ent, data, u)
    BY <1>1, <1>6 DEF SetObject, DirStored
  <2> QED
    BY <1>1, <1>8, <1>12, <2>1, <2>2, <2>3, SameSeen
<1>14. AttrsSeen' = AttrsSeen /\ Kept
  BY <1>13, AllSame
<1>15. Answered(t, Reply(OK))
  BY <1>5, <1>7, GoesOnAnswer DEF Steps
<1>16. /\ p \in AFS!FilePaths(tree) /\ q \in AFS!Absent(tree)
       /\ At(tree, p) = o /\ At(tree, q) = None
  BY <1>2, <1>4, <1>5, ClientPaths, TreeIs, SameOperators
<1>17. tree' = Put(tree, q, o)
  BY <1>4, <1>5, TreeIs, PutNamed
<1>18. tree' = AFS!link(tree, p, q)
  BY <1>4, <1>16, <1>17, SameOperators DEF AFS!link, AFS!linkError
<1>19. AFS!Answer(t, AFS!Reply(AFS!OK))
  BY <1>15, SameOperators DEF AFS!Answer, Answered, RepliesSeen
<1>20. AFS!Link(t)
  BY <1>14, <1>16, <1>18, <1>19 DEF AFS!Link, AttrsSeen
<1> QED
  BY <1>11, <1>14, <1>20, KeptOnly

LEMMA UnlinkView ==
    ASSUME RepliesTyped, ViewInv, SeesQuiet, NEW t \in Threads, Begins(t), TypeOK', SidecarInv',
           Unlink(t)
    PROVE  ViewInv' /\ AFS!Unlink(t) /\ OnlySet
<1>1. PICK p \in FilePaths(ent) :
        /\ ent' = unlink(ent, p)
        /\ Continue(t, "unlink", Call("UNLINK", p, p, attrsFileName(p, "FILE"), Undef, OK))
        /\ data' = data
  BY DEF Unlink
<1>2. PICK c : c = Call("UNLINK", p, p, attrsFileName(p, "FILE"), Undef, OK)
  OBVIOUS
<1>3. /\ p \in NamedPath /\ p \in AnyPath /\ At(ent, p) \in Files
      /\ None \notin Objects /\ Dirs \cap Files = {}
  BY PathSets, HostTreeAssumption, EntryNames
<1>4. ent' = Put(ent, p, None) /\ TreeOK(ent) /\ TypeOK /\ Quiet
  BY <1>1 DEF unlink, Begins, TypeOK
<1>5. SetObject(ent, ent', p, None)
  BY <1>3, <1>4, PutObject
<1>6. Continue(t, "unlink", c) /\ c.err = OK
  BY <1>1, <1>2 DEF Call
<1>7. /\ \A u \in Objects : Present(ent', u) => Present(ent, u)
      /\ \A d \in Dirs : Present(ent, d) => Present(ent', d)
  <2>1. TreeOK(ent') /\ Dirs \subseteq Objects
    BY DEF TypeOK, Objects
  <2>2. \A u \in Objects : Present(ent', u) => Present(ent, u)
    BY <1>3, <1>4, <1>5, <2>1, PresentIs DEF SetObject
  <2>3. \A d \in Dirs : Present(ent, d) => Present(ent', d)
    BY <1>3, <1>4, <1>5, <2>1, PresentIs DEF SetObject
  <2> QED
    BY <2>2, <2>3
<1>8. NamedInDirs(ent')
  BY <1>3, <1>5, <1>7 DEF ViewInv, NamedInDirs, SetObject, NamedPath
<1>9. DirSidesOwn(ent')
  BY <1>5 DEF ViewInv, DirSidesOwn, SetObject
<1>10. ViewInv'
  <2>1. Knows(ent', "unlink", c)
    BY DEF Knows
  <2> QED
    BY <1>4, <1>6, <1>8, <1>9, <2>1, GoesOnKnows DEF Steps
<1>11. Sees(ent', data', "unlink", c, AttrsSeen') /\ Sees(ent, data, "idle", NoCall, AttrsSeen)
  BY <1>4, <1>6, <1>8, AfterStep DEF Steps, SeesQuiet
<1>12. ASSUME NEW u \in Objects, Present(ent, u), Present(ent', u)
       PROVE  AttrsSeen'[u] = AttrsSeen[u]
  <2>1. ~InMemory(ent, "idle", NoCall, u) /\ ~InMemory(ent', "unlink", c, u)
    BY DEF InMemory
  <2>2. ASSUME u \in Files
        PROVE  \E x : HasSide(ent, "idle", NoCall, u, x) /\ HasSide(ent', "unlink", c, u, x)
    <3>1. PICK x : HasSide(ent', "unlink", c, u, x)
      BY <1>11, <1>12, <2>1, <2>2 DEF Sees
    <3>2. PICK r \in NamedPath : At(ent', r) = u /\ x = SideIn(ent', r) /\ x # None
      BY <3>1 DEF HasSide, Hold
    <3>3. At(ent, r) = u /\ SideIn(ent, r) = x
      BY <1>3, <1>5, <3>2 DEF SetObject
    <3> QED
      BY <3>1, <3>2, <3>3 DEF HasSide, Hold
  <2>3. u \in Dirs => DirStored(ent', data', u) = DirStored(ent, data, u)
    BY <1>1, <1>5 DEF SetObject, DirStored
  <2> QED
    BY <1>1, <1>11, <1>12, <2>1, <2>2, <2>3, SameSeen
<1>13. Kept
  BY <1>12 DEF Kept
<1>14. AttrsSeen' = AFS!Forget(tree', AttrsSeen)
  BY <1>4, <1>7, <1>8, <1>13, ForgetSeen
<1>15. Answered(t, Reply(OK))
  BY <1>4, <1>6, GoesOnAnswer DEF Steps
<1>16. p \in AFS!FilePaths(tree)
  BY <1>4, ClientPaths, TreeIs, SameOperators
<1>17. tree' = AFS!unlink(tree, p)
  BY <1>3, <1>4, TreeIs, PutNamed, SameOperators DEF AFS!unlink
<1>18. AFS!Answer(t, AFS!Reply(AFS!OK))
  BY <1>15, SameOperators DEF AFS!Answer, Answered, RepliesSeen
<1>19. AFS!Unlink(t)
  BY <1>14, <1>16, <1>17, <1>18 DEF AFS!Unlink, AttrsSeen
<1> QED
  BY <1>10, <1>13, <1>19, KeptOnly


-----------------------------------------------------------------------------
(* Directories *)

\* A sidecar that is still in the tree keeps its contents.
LEMMA SweptData ==
    ASSUME NEW T, TreeOK(T), NEW D
    PROVE  /\ \A p \in NamedPath : SideIn(T, p) # None => Sweep(T, D)[SideIn(T, p)] = D[SideIn(T, p)]
           /\ \A d \in Dirs : T[d][DirSide] # None => Sweep(T, D)[T[d][DirSide]] = D[T[d][DirSide]]
  BY Links, SideTypes DEF Sweep

LEMMA RmdirView ==
    ASSUME RepliesTyped, ViewInv, SeesQuiet, NEW t \in Threads, Begins(t), TypeOK', SidecarInv',
           Rmdir(t)
    PROVE  ViewInv' /\ AFS!Begin(t) /\ OnlySet
<1>1. PICK p \in DirPaths(ent) \ {RootPath} :
        LET a == readAttrs(p, "DIRECTORY")
            s == attrsFileName(p, "DIRECTORY")
        IN  /\ ent' = unlink(ent, s)
            /\ data' = Sweep(ent', data)
            /\ Continue(t, "rmdir", Call("RMDIR", p, p, s, IF a = Torn THEN Undef ELSE a, OK))
  BY DEF Rmdir
<1>2. PICK d : d = At(ent, p)
  OBVIOUS
<1>3. PICK a : a = readAttrs(p, "DIRECTORY")
  OBVIOUS
<1>4. PICK s : s = [dir |-> d, name |-> DirSide]
  OBVIOUS
<1>5. PICK c : c = Call("RMDIR", p, p, s, a, OK)
  OBVIOUS
<1>6. /\ p \in NamedPath /\ d \in Dirs /\ d \in Objects /\ p \in Existing(ent)
      /\ TreeOK(ent) /\ TypeOK /\ Quiet /\ TreeOK(ent')
  BY <1>2, PathSets DEF Objects, DirPaths, Begins, TypeOK
<1>7. a \in Attrs /\ a # Torn
  BY <1>2, <1>3, <1>6, DirAttrs, EmuAttrAssumption DEF Begins
<1>8. s = attrsFileName(p, "DIRECTORY")
  BY <1>2, <1>4 DEF attrsFileName
<1>9. ent' = Put(ent, s, None) /\ data' = Sweep(ent', data) /\ Continue(t, "rmdir", c)
  BY <1>1, <1>3, <1>5, <1>7, <1>8 DEF unlink
<1>10. SetDirSide(ent, ent', d, None)
  BY <1>4, <1>6, <1>9, PutDirSide
<1>11. c.path = p /\ c.attrs = a
  BY <1>5 DEF Call
<1>12. SameObjects(ent, ent')
  BY <1>10, SetSideSame
<1>13. /\ NamesIn(ent') = NamesIn(ent) /\ NamedInDirs(ent')
       /\ \A o \in Objects : Present(ent', o) <=> Present(ent, o)
  BY <1>6, <1>12, SameObjectsSeen DEF ViewInv
<1>14. DirSidesOwn(ent')
  BY <1>10 DEF ViewInv, DirSidesOwn, SetDirSide
<1>15. At(ent', p) = d
  BY <1>2, <1>6, <1>12 DEF SameObjects
<1>16. ViewInv'
  <2>1. Knows(ent', "rmdir", c)
    BY <1>6, <1>10, <1>11, <1>15 DEF Knows, SetDirSide
  <2> QED
    BY <1>6, <1>9, <1>13, <1>14, <2>1, GoesOnKnows DEF Steps
<1>17. Sees(ent', data', "rmdir", c, AttrsSeen') /\ Sees(ent, data, "idle", NoCall, AttrsSeen)
  BY <1>6, <1>9, <1>13, AfterStep DEF Steps, SeesQuiet
<1>18. AttrsSeen'[d] = AttrsSeen[d]
  <2>1. Present(ent, d) /\ AttrsSeen[d] = shown(d, a)
    BY <1>2, <1>3, <1>6, ReadIsView DEF dirfile
  <2>2. InMemory(ent', "rmdir", c, d)
    BY <1>11, <1>15 DEF InMemory
  <2>3. AttrsSeen'[d] = shown(d, c.attrs)
    BY <1>6, <1>13, <1>17, <2>1, <2>2 DEF Sees
  <2> QED
    BY <1>11, <2>1, <2>3
<1>19. ASSUME NEW u \in Objects \ {d}
       PROVE  AttrsSeen'[u] = AttrsSeen[u]
  <2>1. ~InMemory(ent, "idle", NoCall, u) /\ ~InMemory(ent', "rmdir", c, u)
    BY <1>11, <1>15 DEF InMemory
  <2>2. ASSUME u \in Files, Present(ent', u)
        PROVE  \E x : /\ HasSide(ent, "idle", NoCall, u, x) /\ HasSide(ent', "rmdir", c, u, x)
                      /\ data[x] = data'[x]
    <3>1. PICK x : HasSide(ent', "rmdir", c, u, x)
      BY <1>17, <2>1, <2>2 DEF Sees
    <3>2. PICK r \in NamedPath : At(ent', r) = u /\ x = SideIn(ent', r) /\ x # None
      BY <3>1 DEF HasSide, Hold
    <3>3. At(ent, r) = u /\ SideIn(ent, r) = x
      BY <1>10, <3>2 DEF SetDirSide
    <3>4. data'[x] = data[x]
      BY <1>6, <1>9, <3>2, SweptData
    <3> QED
      BY <3>1, <3>2, <3>3, <3>4 DEF HasSide, Hold
  <2>3. ASSUME u \in Dirs
        PROVE  DirStored(ent', data', u) = DirStored(ent, data, u)
    <3>1. ent'[u][DirSide] = ent[u][DirSide]
      BY <1>10, <2>3 DEF SetDirSide
    <3>2. ent'[u][DirSide] # None => data'[ent'[u][DirSide]] = data[ent'[u][DirSide]]
      BY <1>6, <1>9, <2>3, SweptData
    <3> QED
      BY <3>1, <3>2 DEF DirStored
  <2> QED
    BY <1>13, <1>17, <2>1, <2>2, <2>3, SameSeen
<1>20. AttrsSeen' = AttrsSeen /\ Kept
  BY <1>18, <1>19, AllSame
<1>21. Answered(t, Reply("PENDING"))
  BY <1>6, <1>9, GoesOnAnswer DEF Steps
<1>22. tree' = tree
  BY <1>13, TreeIs
<1>23. AFS!Begin(t)
  BY <1>20, <1>21, <1>22, SameOperators
     DEF AFS!Begin, AFS!Answer, Answered, RepliesSeen, AttrsSeen
<1> QED
  BY <1>16, <1>20, <1>23, KeptOnly

\* The sidecar is gone: the directory is empty for the host when it is for the clients.
LEMMA EmptyView ==
    ASSUME NEW T, TreeOK(T), NEW d \in Dirs, T[d][DirSide] = None, FilesOnly(T, {})
    PROVE  EmptyDir(NamesIn(T), d) <=> EmptyDir(T, d)
<1>1. DOMAIN T[d] = Entries /\ DOMAIN NamesIn(T)[d] = Names
  BY DEF TreeOK, NamesIn
<1>2. \A n \in Names : NamesIn(T)[d][n] = T[d][n]
  BY DEF NamesIn
<1>3. ASSUME NEW n \in Names, T[d][n] = None
      PROVE  T[d][SideOf(n)] = None
  <2>1. PICK p \in NamedPath : p = [dir |-> d, name |-> n]
    BY DEF NamedPath
  <2>2. At(T, p) = T[d][n] /\ SideIn(T, p) = T[d][SideOf(n)]
    BY <2>1, EntryNames, HostTreeAssumption DEF At, SideIn, SideFile
  <2>3. p \notin FilesIn(T)
    BY <1>3, <2>2, HostTreeAssumption DEF FilesIn
  <2> QED
    BY <2>2, <2>3 DEF FilesOnly
<1> QED
  BY <1>1, <1>2, <1>3, EntryNames DEF EmptyDir, Entries

LEMMA RemoveDirView ==
    ASSUME RepliesTyped, ViewInv, SeesBusy, NEW t \in Threads, Goes(t), TypeOK', SidecarInv',
           RemoveDir(t)
    PROVE  ViewInv' /\ AFS!Rmdir(t) /\ OnlySet
<1>1. PICK c : c = call[t]
  OBVIOUS
<1>2. PICK p : p = c.path
  OBVIOUS
<1>3. PICK d : d = At(ent, p)
  OBVIOUS
<1>4. PICK err : err = rmdirError(ent, p)
  OBVIOUS
<1>5. /\ Removing(ent, c) /\ TypeOK /\ TreeOK(ent) /\ TreeOK(ent') /\ Alone(t) /\ pc[t] = "rmdir"
      /\ DirsOnce(ent)
  BY <1>1 DEF RemoveDir, Goes, HalfDone, TypeOK
<1>6. /\ p \in NamedPath /\ p \in AnyPath /\ d \in Dirs /\ d \in Objects /\ d # None
      /\ c.sidecar = [dir |-> d, name |-> DirSide] /\ ent[d][DirSide] = None
  <2>1. Knows(ent, "rmdir", c)
    BY <1>1, <1>5 DEF ViewInv, Busy
  <2>2. ent[d][DirSide] = None
    BY <1>2, <1>3, <2>1 DEF Knows
  <2> QED
    BY <1>2, <1>3, <1>5, <2>2, PathSets, HostTreeAssumption DEF Removing, Objects
<1>7. EmptyDir(NamesIn(ent), d) <=> EmptyDir(ent, d)
  BY <1>5, <1>6, EmptyView DEF Removing
<1>8. data' = data /\ ent' = rmdir(ent, p)
  BY <1>1, <1>2 DEF RemoveDir
<1>9. p # RootPath
  BY <1>6, HostTreeAssumption DEF NamedPath, RootPath
<1>10. Sees(ent, data, "rmdir", c, AttrsSeen)
  BY <1>1, <1>5 DEF SeesBusy
<1>11. p \in AFS!DirPaths(tree) \ {AFS!RootPath} /\ At(tree, p) = d
  <2>1. p \in DirPaths(ent)
    BY <1>3, <1>6 DEF DirPaths, Existing, Paths, NamedPath, ViewInv, NamedInDirs
  <2> QED
    BY <1>3, <1>5, <1>6, <1>9, <2>1, ClientPaths, TreeIs, SameOperators
<1>12. AFS!rmdirError(tree, p) = err
  BY <1>3, <1>4, <1>7, <1>11, TreeIs, SameOperators
     DEF AFS!rmdirError, rmdirError, AFS!OK, OK
<1>13. CASE err = OK
  <2>1. ent' = Put(ent, p, None) /\ Finish(t, Reply(OK)) /\ EmptyDir(ent, d)
    BY <1>1, <1>2, <1>3, <1>4, <1>8, <1>13 DEF RemoveDir, rmdir, rmdirError, OK
  <2>2. SetObject(ent, ent', p, None)
    BY <1>5, <1>6, <2>1, PutObject
  <2>3. \A q \in NamedPath : At(ent, q) = d => q = p
    BY <1>3, <1>5, <1>6 DEF DirsOnce
  <2>4. d # Root /\ None \notin Objects
    BY <1>3, <1>5, <1>6, EntryNames DEF DirsOnce
  <2>5. /\ \A u \in Objects \ {d} : Present(ent', u) <=> Present(ent, u)
        /\ ~Present(ent', d)
    <3>1. \A q \in NamedPath : At(ent', q) # d
      BY <1>6, <2>2, <2>3 DEF SetObject
    <3>2. ~Present(ent', d)
      BY <1>5, <1>6, <2>4, <3>1, PresentIs
    <3>3. \A u \in Objects \ {d} : (\E q \in NamedPath : At(ent', q) = u) <=>
                                   (\E q \in NamedPath : At(ent, q) = u)
      BY <1>3, <2>2, <2>4 DEF SetObject
    <3> QED
      BY <1>5, <3>2, <3>3, PresentIs
  <2>6. NamedInDirs(ent')
    <3> SUFFICES ASSUME NEW q \in NamedPath, At(ent', q) # None
                 PROVE  Present(ent', q.dir)
      BY DEF NamedInDirs
    <3>1. At(ent, q) # None /\ Present(ent, q.dir)
      BY <2>2 DEF SetObject, ViewInv, NamedInDirs
    <3>2. q.dir \in Objects /\ q.dir \in Dirs /\ q.name \in Names /\ q.name # Dot
      BY HostTreeAssumption DEF NamedPath, Objects
    <3>3. q.dir # d
      BY <1>5, <2>1, <3>1, <3>2, EntryNames DEF EmptyDir, At, TreeOK
    <3> QED
      BY <2>5, <3>1, <3>2, <3>3
  <2>7. DirSidesOwn(ent')
    BY <2>2 DEF ViewInv, DirSidesOwn, SetObject
  <2>8. ViewInv'
    BY <1>5, <2>1, <2>6, <2>7, EndsKnows
  <2>9. Sees(ent', data', "idle", NoCall, AttrsSeen')
    BY <1>5, <2>1, <2>6, AfterEnd
  <2>10. ASSUME NEW u \in Objects \ {d}
         PROVE  AttrsSeen'[u] = AttrsSeen[u]
    <3>1. ~InMemory(ent, "rmdir", c, u) /\ ~InMemory(ent', "idle", NoCall, u)
      BY <1>2, <1>3 DEF InMemory
    <3>2. ASSUME u \in Files, Present(ent', u)
          PROVE  \E x : HasSide(ent, "rmdir", c, u, x) /\ HasSide(ent', "idle", NoCall, u, x)
      <4>1. PICK x : HasSide(ent', "idle", NoCall, u, x)
        BY <2>9, <3>1, <3>2 DEF Sees
      <4>2. PICK r \in NamedPath : At(ent', r) = u /\ x = SideIn(ent', r) /\ x # None
        BY <4>1 DEF HasSide, Hold
      <4>3. At(ent, r) = u /\ SideIn(ent, r) = x
        BY <2>2, <2>4, <4>2 DEF SetObject
      <4> QED
        BY <4>1, <4>2, <4>3 DEF HasSide, Hold
    <3>3. u \in Dirs => DirStored(ent', data', u) = DirStored(ent, data, u)
      BY <1>8, <2>2 DEF SetObject, DirStored
    <3> QED
      BY <1>8, <1>10, <2>5, <2>9, <3>1, <3>2, <3>3, SameSeen
  <2>11. Kept
    BY <2>5, <2>10 DEF Kept
  <2>12. AttrsSeen' = AFS!Forget(tree', AttrsSeen)
    BY <1>5, <2>5, <2>6, <2>11, ForgetSeen
  <2>13. Answered(t, Reply(err))
    BY <1>5, <1>13, <2>1, EndsAnswer
  <2>14. tree' = AFS!rmdir(tree, p)
    BY <1>5, <1>6, <1>12, <1>13, <2>1, TreeIs, PutNamed, SameOperators DEF AFS!rmdir
  <2>15. AFS!Rmdir(t)
    BY <1>11, <1>12, <2>12, <2>13, <2>14, SameOperators
       DEF AFS!Rmdir, AFS!Answer, Answered, RepliesSeen, AttrsSeen
  <2> QED
    BY <2>8, <2>11, <2>15, KeptOnly
<1>14. CASE err # OK
  <2>1. PICK e : e = [c EXCEPT !.err = err]
    OBVIOUS
  <2>2. c \in CallType
    BY <1>1, <1>5 DEF TypeOK, ThreadsOK
  <2>3. e.attrs = c.attrs /\ e.path = c.path /\ e.sidecar = c.sidecar /\ e.err = err
    BY <2>1, <2>2 DEF CallType
  <2>4. ent' = ent /\ Continue(t, "open", e)
    BY <1>1, <1>2, <1>4, <1>8, <1>14, <2>1 DEF RemoveDir, rmdir
  <2>5. NamedInDirs(ent') /\ DirSidesOwn(ent')
    BY <2>4 DEF ViewInv
  <2>6. Knows(ent', "open", e)
    BY <1>2, <1>3, <1>6, <2>3, <2>4 DEF Knows, OwnSide
  <2>7. ViewInv'
    BY <1>5, <2>4, <2>5, <2>6, GoesOnKnows DEF Steps
  <2>8. Sees(ent', data', "open", e, AttrsSeen')
    BY <1>5, <2>4, <2>5, AfterStep DEF Steps
  <2>9. ASSUME NEW u \in Objects
        PROVE  AttrsSeen'[u] = AttrsSeen[u]
    <3>1. InMemory(ent, "rmdir", c, u) <=> InMemory(ent', "open", e, u)
      BY <2>3, <2>4 DEF InMemory
    <3>2. ASSUME u \in Files, Present(ent, u), ~InMemory(ent, "rmdir", c, u)
          PROVE  \E x : HasSide(ent, "rmdir", c, u, x) /\ HasSide(ent', "open", e, u, x)
      BY <1>10, <2>4, <3>2 DEF Sees, HasSide, Hold
    <3> QED
      BY <1>8, <1>10, <2>3, <2>4, <2>8, <3>1, <3>2, SameSeen
  <2>10. Kept
    BY <2>9, AllSame
  <2>11. AttrsSeen' = AFS!Forget(tree', AttrsSeen)
    BY <1>5, <2>4, <2>5, <2>10, ForgetSeen
  <2>12. Answered(t, Reply(err))
    BY <1>5, <2>3, <2>4, GoesOnAnswer DEF Steps
  <2>13. tree' = AFS!rmdir(tree, p)
    BY <1>12, <1>14, <2>4, TreeIs, SameOperators DEF AFS!rmdir
  <2>14. AFS!Rmdir(t)
    BY <1>11, <1>12, <2>11, <2>12, <2>13, SameOperators
       DEF AFS!Rmdir, AFS!Answer, Answered, RepliesSeen, AttrsSeen
  <2> QED
    BY <2>7, <2>10, <2>14, KeptOnly
<1> QED
  BY <1>13, <1>14


-----------------------------------------------------------------------------
(* Writing a sidecar, which nobody sees *)

Unseen == tree' = tree /\ AttrsSeen' = AttrsSeen /\ RepliesSeen' = RepliesSeen

\* The sidecar of an object is not the one of any other object.
LEMMA OthersSides ==
    ASSUME NEW T, TreeOK(T), DirSidesOwn(T), FilesHave(T, {}), FilesOnly(T, {}),
           NEW p \in AnyPath, NEW s, s = At(T, OwnSide(T, p)), s # None
    PROVE  /\ At(T, p) \in Objects
           /\ \A d \in Dirs \ {At(T, p)} : T[d][DirSide] # s
           /\ \A r \in NamedPath : At(T, r) \in Files \ {At(T, p)} => SideIn(T, r) # s
           /\ At(T, p) \in Dirs => T[At(T, p)][DirSide] = s
           /\ At(T, p) \notin Dirs => p \in FilesIn(T) /\ SideIn(T, p) = s
<1>1. CASE At(T, p) \in Dirs
  <2>1. T[At(T, p)][DirSide] = s
    BY <1>1, EntryNames DEF OwnSide, At
  <2> QED
    BY <1>1, <2>1, HostTreeAssumption DEF DirSidesOwn, Objects
<1>2. CASE At(T, p) \notin Dirs
  <2>1. p \in NamedPath /\ SideIn(T, p) = s
    BY <1>2 DEF OwnSide, SideIn, At, AnyPath, NamedPath
  <2>2. p \in FilesIn(T)
    BY <2>1 DEF FilesOnly
  <2>3. \A r \in NamedPath : At(T, r) \in Files \ {At(T, p)} => SideIn(T, r) # s
    BY <2>1, <2>2 DEF FilesHave, FilesIn
  <2> QED
    BY <1>2, <2>1, <2>2, <2>3 DEF DirSidesOwn, FilesIn, Objects
<1> QED
  BY <1>1, <1>2

\* The tree T with data D, and U with data E after sidecar s of object o was written.
SideWritten(T, D, U, E, o, s) ==
    /\ \A x \in Sides \ {s} : E[x] = D[x]
    /\ \A u \in Objects : Present(U, u) <=> Present(T, u)
    /\ \A d \in Dirs \ {o} : U[d][DirSide] = T[d][DirSide] /\ T[d][DirSide] # s
    /\ \A r \in NamedPath : At(T, r) \in Files \ {o} =>
          At(U, r) = At(T, r) /\ SideIn(U, r) = SideIn(T, r) /\ SideIn(T, r) # s

LEMMA OthersSeen ==
    ASSUME NEW T, TreeOK(T), NEW D, NEW step, step # "rename", NEW c,
           Sees(T, D, step, c, AttrsSeen),
           NEW U, NEW E, NEW next, next # "rename", NEW e, Sees(U, E, next, e, AttrsSeen'),
           next = "idle" \/ At(U, e.path) = At(T, c.path),
           NEW s, SideWritten(T, D, U, E, At(T, c.path), s)
    PROVE  \A u \in Objects \ {At(T, c.path)} : AttrsSeen'[u] = AttrsSeen[u]
<1> SUFFICES ASSUME NEW u \in Objects \ {At(T, c.path)}
             PROVE  AttrsSeen'[u] = AttrsSeen[u]
  OBVIOUS
<1>1. ~InMemory(T, step, c, u) /\ ~InMemory(U, next, e, u)
  BY DEF InMemory
<1>2. ASSUME u \in Files, Present(T, u)
      PROVE  \E x : HasSide(T, step, c, u, x) /\ HasSide(U, next, e, u, x) /\ D[x] = E[x]
  <2>1. PICK x : HasSide(T, step, c, u, x)
    BY <1>1, <1>2 DEF Sees
  <2>2. PICK r \in NamedPath : At(T, r) = u /\ x = SideIn(T, r) /\ x # None
    BY <2>1 DEF HasSide, Hold
  <2>3. At(U, r) = u /\ SideIn(U, r) = x /\ x # s
    BY <1>2, <2>2 DEF SideWritten
  <2>4. x \in Sides
    BY <2>2, SideTypes
  <2> QED
    BY <2>1, <2>2, <2>3, <2>4 DEF HasSide, Hold, SideWritten
<1>3. u \in Dirs => DirStored(U, E, u) = DirStored(T, D, u)
  BY SideTypes DEF DirStored, SideWritten
<1>4. Present(T, u) <=> Present(U, u)
  BY DEF SideWritten
<1> QED
  BY <1>1, <1>2, <1>3, <1>4, SameSeen

LEMMA WriteView ==
    ASSUME RepliesTyped, ViewInv, SeesBusy, NEW t \in Threads, Goes(t), TypeOK', SidecarInv',
           WriteSidecar(t)
    PROVE  ViewInv' /\ Unseen /\ OnlySet
<1>1. PICK c : c = call[t]
  OBVIOUS
<1>2. PICK o : o = At(ent, c.path)
  OBVIOUS
<1>3. /\ AllHave(ent) /\ c.attrs # Undef /\ TypeOK /\ TreeOK(ent) /\ Alone(t)
      /\ pc[t] = "write" /\ c.fd \in Sides
  BY <1>1 DEF WriteSidecar, Goes, HalfDone, TypeOK, ThreadsOK, CallOK
<1>4. c.path \in AnyPath /\ c.sidecar = OwnSide(ent, c.path) /\ At(ent, c.sidecar) = c.fd
  BY <1>1, <1>3 DEF ViewInv, Busy, Knows
<1>5. /\ data' = [data EXCEPT ![c.fd] = c.attrs] /\ Finish(t, Reply(c.err))
      /\ ent' = ent
  BY <1>1, <1>3 DEF WriteSidecar
<1>6. data'[c.fd] = c.attrs /\ \A x \in Sides \ {c.fd} : data'[x] = data[x]
  BY <1>3, <1>5 DEF TypeOK
<1>7. NamedInDirs(ent') /\ DirSidesOwn(ent')
  BY <1>5 DEF ViewInv
<1>8. ViewInv'
  BY <1>3, <1>5, <1>7, EndsKnows
<1>9. c.fd # None /\ FilesHave(ent, {}) /\ FilesOnly(ent, {}) /\ DirSidesOwn(ent)
  BY <1>3, EntryNames DEF AllHave, ViewInv
<1>10. /\ o \in Objects
       /\ \A d \in Dirs \ {o} : ent[d][DirSide] # c.fd
       /\ \A r \in NamedPath : At(ent, r) \in Files \ {o} => SideIn(ent, r) # c.fd
       /\ o \in Dirs => ent[o][DirSide] = c.fd
       /\ o \notin Dirs => c.path \in FilesIn(ent) /\ SideIn(ent, c.path) = c.fd
  BY <1>2, <1>3, <1>4, <1>9, OthersSides
<1>11. /\ Sees(ent, data, "write", c, AttrsSeen)
       /\ Sees(ent', data', "idle", NoCall, AttrsSeen')
  BY <1>1, <1>3, <1>5, <1>7, AfterEnd DEF SeesBusy
<1>12. AttrsSeen'[o] = AttrsSeen[o]
  <2>1. CASE ~Present(ent, o)
    BY <1>5, <1>10, <1>11, <2>1 DEF Sees
  <2>2. CASE Present(ent, o)
    <3>1. AttrsSeen[o] = shown(o, c.attrs)
      BY <1>2, <1>10, <1>11, <2>2 DEF Sees, InMemory
    <3>2. ~InMemory(ent', "idle", NoCall, o)
      BY DEF InMemory
    <3>3. CASE o \in Dirs
      <4>1. DirStored(ent', data', o) = c.attrs
        BY <1>5, <1>6, <1>9, <1>10, <3>3 DEF DirStored
      <4> QED
        BY <1>5, <1>11, <2>2, <3>1, <3>2, <3>3, <4>1 DEF Sees
    <3>4. CASE o \notin Dirs
      <4>1. o \in Files /\ c.path \in NamedPath
        BY <1>10, <3>4 DEF Objects, FilesIn
      <4>2. HasSide(ent', "idle", NoCall, o, c.fd)
        BY <1>2, <1>5, <1>9, <1>10, <3>4, <4>1 DEF HasSide, Hold
      <4> QED
        BY <1>5, <1>6, <1>11, <2>2, <3>1, <3>2, <4>1, <4>2 DEF Sees
    <3> QED
      BY <3>3, <3>4
  <2> QED
    BY <2>1, <2>2
<1>13. \A u \in Objects \ {o} : AttrsSeen'[u] = AttrsSeen[u]
  <2>1. SideWritten(ent, data, ent', data', o, c.fd)
    BY <1>5, <1>6, <1>10 DEF SideWritten
  <2> QED
    BY <1>2, <1>3, <1>11, <2>1, OthersSeen
<1>14. AttrsSeen' = AttrsSeen /\ Kept
  BY <1>12, <1>13, AllSame
<1>15. RepliesSeen' = RepliesSeen
  <2>1. ReplyView(t) = Reply(c.err)
    BY <1>1, <1>3 DEF ReplyView
  <2> QED
    BY <1>3, <1>5, <2>1, EndsAnswer, SameAnswer
<1> QED
  BY <1>5, <1>8, <1>14, <1>15, TreeIs, KeptOnly DEF Unseen


LEMMA OpenView ==
    ASSUME RepliesTyped, ViewInv, SeesBusy, NEW t \in Threads, Goes(t), TypeOK', SidecarInv',
           OpenSidecar(t)
    PROVE  ViewInv' /\ Unseen /\ OnlySet
<1>1. PICK c : c = call[t]
  OBVIOUS
<1>2. PICK o : o = At(ent, c.path)
  OBVIOUS
<1>3. PICK s : s = IF At(ent, c.sidecar) = None THEN FreshSide ELSE At(ent, c.sidecar)
  OBVIOUS
<1>4. PICK d : d = [c EXCEPT !.fd = s]
  OBVIOUS
<1>5. /\ Opening(ent, c) /\ TypeOK /\ TreeOK(ent) /\ TreeOK(ent') /\ Alone(t)
      /\ pc[t] = "open" /\ c \in CallType /\ c.sidecar \in SidePath
  BY <1>1 DEF OpenSidecar, Goes, HalfDone, TypeOK, ThreadsOK, CallOK
<1>6. c.path \in AnyPath /\ c.sidecar = OwnSide(ent, c.path)
  BY <1>1, <1>5 DEF ViewInv, Busy, Knows
<1>7. d.fd = s /\ d.attrs = c.attrs /\ d.path = c.path /\ d.sidecar = c.sidecar /\ d.err = c.err
  BY <1>4, <1>5 DEF CallType
<1>8. /\ ent' = Put(ent, c.sidecar, s) /\ data' = [data EXCEPT ![s] = Torn]
      /\ Continue(t, "write", d)
  BY <1>1, <1>3, <1>4 DEF OpenSidecar
<1>9. s \in Sides /\ s # None
  BY <1>1, <1>3, <1>5, AtOK, FreshInodes, EntryNames DEF OpenSidecar
<1>10. At(ent, c.sidecar) = None => ~Linked(ent, s)
  BY <1>1, <1>3 DEF OpenSidecar, CanCreate, FreshSide
<1>11. \A x \in Sides \ {s} : data'[x] = data[x]
  BY <1>5, <1>8 DEF TypeOK
<1>12. /\ o \in Objects
       /\ o \in Dirs => SetDirSide(ent, ent', o, s) /\ At(ent, c.sidecar) = ent[o][DirSide]
       /\ o \notin Dirs => /\ c.path \in FilesIn(ent) /\ SetSide(ent, ent', c.path, s)
                           /\ At(ent, c.sidecar) = SideIn(ent, c.path)
  <2>1. CASE o \in Dirs
    <3>1. c.sidecar = [dir |-> o, name |-> DirSide]
      BY <1>2, <1>6, <2>1 DEF OwnSide
    <3>2. At(ent, c.sidecar) = ent[o][DirSide]
      BY <3>1, EntryNames DEF At
    <3> QED
      BY <1>5, <1>8, <2>1, <3>1, <3>2, PutDirSide DEF Objects
  <2>2. CASE o \notin Dirs
    <3>1. c.path \in NamedPath /\ c.sidecar = SideFile(c.path)
      BY <1>2, <1>6, <2>2 DEF OwnSide, At, AnyPath, NamedPath
    <3>2. c.path \in FilesIn(ent)
      BY <1>5, <3>1, SideNames DEF Opening
    <3>3. o \in Objects
      BY <1>2, <3>2 DEF FilesIn, Objects
    <3> QED
      BY <1>5, <1>8, <2>2, <3>1, <3>2, <3>3, PutSide DEF SideIn
  <2> QED
    BY <2>1, <2>2
<1>13. SameObjects(ent, ent')
  BY <1>12, SetSideSame
<1>14. /\ NamesIn(ent') = NamesIn(ent) /\ NamedInDirs(ent')
       /\ \A u \in Objects : Present(ent', u) <=> Present(ent, u)
  BY <1>5, <1>13, SameObjectsSeen DEF ViewInv
<1>15. /\ \A e \in Dirs \ {o} : ent[e][DirSide] # s
       /\ \A r \in NamedPath : At(ent, r) \in Files \ {o} => SideIn(ent, r) # s
  <2>1. CASE At(ent, c.sidecar) = None
    BY <1>5, <1>10, <2>1, Links
  <2>2. CASE At(ent, c.sidecar) # None
    <3>1. FilesHave(ent, {}) /\ FilesOnly(ent, {})
      <4>1. SideIn(ent, c.path) # None \/ o \in Dirs
        BY <1>12, <2>2
      <4>2. o \in Dirs => c.path \notin FilesIn(ent)
        BY <1>2, HostTreeAssumption DEF FilesIn
      <4> QED
        BY <1>5, <4>1, <4>2 DEF Opening, AllHave
    <3>2. s = At(ent, OwnSide(ent, c.path))
      BY <1>3, <1>6, <2>2
    <3> QED
      BY <1>2, <1>5, <1>6, <1>9, <3>1, <3>2, OthersSides DEF ViewInv
  <2> QED
    BY <2>1, <2>2
<1>16. DirSidesOwn(ent')
  <2>1. DirSidesOwn(ent)
    BY DEF ViewInv
  <2>2. CASE At(ent, c.sidecar) = None
    <3>1. /\ \A e \in Dirs : ent[e][DirSide] # s
          /\ \A r \in NamedPath : SideIn(ent, r) # s
      BY <1>5, <1>10, <2>2, Links
    <3>2. CASE o \in Dirs
      BY <1>12, <2>1, <3>1, <3>2 DEF DirSidesOwn, SetDirSide
    <3>3. CASE o \notin Dirs
      BY <1>12, <2>1, <3>1, <3>3 DEF DirSidesOwn, SetSide
    <3> QED
      BY <3>2, <3>3
  <2>3. CASE At(ent, c.sidecar) # None
    <3>1. /\ \A e \in Dirs : ent'[e][DirSide] = ent[e][DirSide]
          /\ \A r \in NamedPath : SideIn(ent', r) = SideIn(ent, r)
      BY <1>3, <1>12, <2>3 DEF SetDirSide, SetSide
    <3> QED
      BY <2>1, <3>1 DEF DirSidesOwn
  <2> QED
    BY <2>2, <2>3
<1>17. At(ent', c.path) = o
  BY <1>2, <1>6, <1>13 DEF SameObjects, At, AnyPath, NamedPath
<1>18. ViewInv'
  <2>1. At(ent', c.sidecar) = s
    BY <1>5, <1>8, PutAt
  <2>2. OwnSide(ent', c.path) = OwnSide(ent, c.path)
    BY <1>2, <1>17 DEF OwnSide
  <2>3. Knows(ent', "write", d)
    BY <1>6, <1>7, <2>1, <2>2 DEF Knows
  <2> QED
    BY <1>5, <1>8, <1>14, <1>16, <2>3, GoesOnKnows DEF Steps
<1>19. /\ Sees(ent, data, "open", c, AttrsSeen)
       /\ Sees(ent', data', "write", d, AttrsSeen')
  BY <1>1, <1>5, <1>8, <1>14, AfterStep DEF SeesBusy, Steps
<1>20. AttrsSeen'[o] = AttrsSeen[o]
  <2>1. InMemory(ent, "open", c, o) /\ InMemory(ent', "write", d, o)
    BY <1>2, <1>7, <1>17 DEF InMemory
  <2> QED
    BY <1>7, <1>12, <1>14, <1>19, <2>1, SameSeen
<1>21. \A u \in Objects \ {o} : AttrsSeen'[u] = AttrsSeen[u]
  <2>1. \A e \in Dirs \ {o} : ent'[e][DirSide] = ent[e][DirSide]
    BY <1>12 DEF SetDirSide, SetSide
  <2>2. \A r \in NamedPath : At(ent, r) \in Files \ {o} =>
            At(ent', r) = At(ent, r) /\ SideIn(ent', r) = SideIn(ent, r)
    BY <1>2, <1>12 DEF SetDirSide, SetSide
  <2>3. SideWritten(ent, data, ent', data', o, s)
    BY <1>11, <1>14, <1>15, <2>1, <2>2 DEF SideWritten
  <2>4. At(ent', d.path) = At(ent, c.path)
    BY <1>2, <1>7, <1>17
  <2>5. TreeOK(ent)
    BY <1>5
  <2>6. SideWritten(ent, data, ent', data', At(ent, c.path), s)
    BY <1>2, <2>3
  <2>7. \A u \in Objects \ {At(ent, c.path)} : AttrsSeen'[u] = AttrsSeen[u]
    BY <1>19, <2>4, <2>5, <2>6, OthersSeen
  <2> QED
    BY <1>2, <2>7
<1>22. AttrsSeen' = AttrsSeen /\ Kept
  BY <1>20, <1>21, AllSame
<1>23. RepliesSeen' = RepliesSeen
  <2>1. ReplyView(t) = Reply(d.err)
    BY <1>1, <1>5, <1>7 DEF ReplyView
  <2>2. Answered(t, Reply(d.err))
    BY <1>5, <1>8, GoesOnAnswer DEF Steps
  <2> QED
    BY <2>1, <2>2, SameAnswer
<1> QED
  BY <1>14, <1>18, <1>22, <1>23, TreeIs, KeptOnly DEF Unseen


-----------------------------------------------------------------------------
(* Moving and removing the sidecar of a file, which nobody sees *)

\* The end of a request that works on names of files.
SidesMoved(T, D, step, c, U, E) ==
    /\ SameObjects(T, U)
    /\ \A d \in Dirs : DirStored(U, E, d) = DirStored(T, D, d)
    /\ \A r \in NamedPath : At(U, r) \in Files /\ SideIn(U, r) # None =>
          \E q \in NamedPath : /\ At(T, q) = At(U, r) /\ Hold(T, step, c, q) = SideIn(U, r)
                               /\ D[SideIn(U, r)] = E[SideIn(U, r)]

LEMMA MovedSeen ==
    ASSUME NEW T, TreeOK(T), NEW D, NEW step \in {"link", "unlink", "rename"}, NEW c,
           Sees(T, D, step, c, AttrsSeen), NEW U, TreeOK(U), NEW E,
           Sees(U, E, "idle", NoCall, AttrsSeen'), SidesMoved(T, D, step, c, U, E)
    PROVE  AttrsSeen' = AttrsSeen /\ Kept
<1>1. \A u \in Objects : Present(U, u) <=> Present(T, u)
  BY SameObjectsSeen DEF SidesMoved
<1>2. ASSUME NEW u \in Objects
      PROVE  AttrsSeen'[u] = AttrsSeen[u]
  <2>1. ~InMemory(T, step, c, u) /\ ~InMemory(U, "idle", NoCall, u)
    BY DEF InMemory
  <2>2. ASSUME u \in Files, Present(U, u)
        PROVE  \E x : /\ HasSide(T, step, c, u, x) /\ HasSide(U, "idle", NoCall, u, x)
                      /\ D[x] = E[x]
    <3>1. PICK x : HasSide(U, "idle", NoCall, u, x)
      BY <2>1, <2>2 DEF Sees
    <3>2. PICK r \in NamedPath : At(U, r) = u /\ x = SideIn(U, r) /\ x # None
      BY <3>1 DEF HasSide, Hold
    <3>3. PICK q \in NamedPath : At(T, q) = u /\ Hold(T, step, c, q) = x /\ D[x] = E[x]
      BY <2>2, <3>2 DEF SidesMoved
    <3>4. HasSide(T, step, c, u, x)
      BY <3>2, <3>3 DEF HasSide
    <3> QED
      BY <3>1, <3>3, <3>4
  <2>3. u \in Dirs => DirStored(U, E, u) = DirStored(T, D, u)
    BY DEF SidesMoved
  <2>4. Present(T, u) <=> Present(U, u)
    BY <1>1
  <2> QED
    BY <2>1, <2>2, <2>3, <2>4, SameSeen
<1> QED
  BY <1>2, AllSame

\* Such a step ends the request; the answer was promised before.
LEMMA MovedView ==
    ASSUME RepliesTyped, ViewInv, SeesBusy, NEW t \in Threads, Goes(t), TypeOK', SidecarInv',
           pc[t] \in {"link", "unlink", "rename"}, NEW c, c = call[t],
           Finish(t, Reply(c.err)), SidesMoved(ent, data, pc[t], c, ent', data'),
           DirSidesOwn(ent')
    PROVE  ViewInv' /\ Unseen /\ OnlySet
<1>1. TypeOK /\ TreeOK(ent) /\ TreeOK(ent') /\ Alone(t)
  BY DEF Goes, TypeOK
<1>2. NamesIn(ent') = NamesIn(ent) /\ NamedInDirs(ent')
  BY <1>1, SameObjectsSeen DEF SidesMoved, ViewInv
<1>3. ViewInv'
  BY <1>1, <1>2, EndsKnows
<1>4. /\ Sees(ent, data, pc[t], c, AttrsSeen)
      /\ Sees(ent', data', "idle", NoCall, AttrsSeen')
  BY <1>1, <1>2, AfterEnd DEF SeesBusy
<1>5. PICK step : step = pc[t]
  OBVIOUS
<1>6. AttrsSeen' = AttrsSeen /\ Kept
  BY <1>1, <1>4, <1>5, MovedSeen
<1>7. RepliesSeen' = RepliesSeen
  <2>1. ReplyView(t) = Reply(c.err)
    BY DEF ReplyView
  <2> QED
    BY <1>1, <2>1, EndsAnswer, SameAnswer
<1> QED
  BY <1>2, <1>3, <1>6, <1>7, TreeIs, KeptOnly DEF Unseen

LEMMA LinkedView ==
    ASSUME RepliesTyped, ViewInv, SeesBusy, NEW t \in Threads, Goes(t), TypeOK', SidecarInv',
           LinkSidecar(t)
    PROVE  ViewInv' /\ Unseen /\ OnlySet
<1>1. PICK c : c = call[t]
  OBVIOUS
<1>2. PICK s : s = SideIn(ent, c.path)
  OBVIOUS
<1>3. /\ Linking(ent, c) /\ pc[t] = "link" /\ TreeOK(ent) /\ data' = data
      /\ attrsFileName(c.path, "FILE") = SideFile(c.path)
  BY <1>1 DEF LinkSidecar, Goes, HalfDone, TypeOK, attrsFileName, SideFile
<1>4. c.err = OK
  BY <1>1, <1>3 DEF ViewInv, Knows, Busy
<1>5. /\ c.path \in FilesIn(ent) /\ c.to \in NamedPath /\ At(ent, c.to) = At(ent, c.path)
      /\ SideIn(ent, c.to) = None /\ c.sidecar = SideFile(c.to) /\ s # None
  BY <1>2, <1>3 DEF Linking, FilesHave
<1>6. linkError(ent, SideFile(c.path), c.sidecar) = OK
  BY <1>2, <1>5 DEF linkError, SideIn
<1>7. ent' = Put(ent, SideFile(c.to), s) /\ Finish(t, Reply(c.err))
  BY <1>1, <1>2, <1>3, <1>4, <1>5, <1>6 DEF LinkSidecar, link, SideIn
<1>8. SetSide(ent, ent', c.to, s)
  BY <1>3, <1>5, <1>7, PutSide
<1>9. DirSidesOwn(ent')
  BY <1>2, <1>5, <1>8 DEF ViewInv, DirSidesOwn, SetSide, FilesIn
<1>10. SidesMoved(ent, data, "link", c, ent', data')
  <2>1. SameObjects(ent, ent')
    BY <1>8, SetSideSame
  <2>2. \A d \in Dirs : DirStored(ent', data', d) = DirStored(ent, data, d)
    BY <1>3, <1>8 DEF SetSide, DirStored
  <2>3. ASSUME NEW r \in NamedPath
        PROVE  \E q \in NamedPath : /\ At(ent, q) = At(ent', r)
                                    /\ Hold(ent, "link", c, q) = SideIn(ent', r)
    <3>1. CASE r = c.to
      BY <1>2, <1>5, <1>8, <3>1 DEF SetSide, Hold, FilesIn
    <3>2. CASE r # c.to
      BY <1>8, <3>2 DEF SetSide, Hold
    <3> QED
      BY <3>1, <3>2
  <2> QED
    BY <1>3, <2>1, <2>2, <2>3 DEF SidesMoved
<1> QED
  BY <1>1, <1>3, <1>7, <1>9, <1>10, MovedView

LEMMA UnlinkedView ==
    ASSUME RepliesTyped, ViewInv, SeesBusy, NEW t \in Threads, Goes(t), TypeOK', SidecarInv',
           UnlinkSidecar(t)
    PROVE  ViewInv' /\ Unseen /\ OnlySet
<1>1. PICK c : c = call[t]
  OBVIOUS
<1>2. /\ Unlinking(ent, c) /\ pc[t] = "unlink" /\ TreeOK(ent) /\ TreeOK(ent')
      /\ ent' = unlink(ent, c.sidecar) /\ data' = Sweep(ent', data) /\ Finish(t, Reply(c.err))
  BY <1>1 DEF UnlinkSidecar, Goes, HalfDone, TypeOK
<1>3. c.path \in NamedPath /\ ent' = Put(ent, SideFile(c.path), None)
  BY <1>2 DEF Unlinking, unlink
<1>4. SetSide(ent, ent', c.path, None)
  BY <1>2, <1>3, PutSide
<1>5. DirSidesOwn(ent')
  BY <1>4 DEF ViewInv, DirSidesOwn, SetSide
<1>6. SidesMoved(ent, data, "unlink", c, ent', data')
  <2>1. SameObjects(ent, ent')
    BY <1>4, SetSideSame
  <2>2. ASSUME NEW d \in Dirs
        PROVE  DirStored(ent', data', d) = DirStored(ent, data, d)
    <3>1. ent'[d][DirSide] = ent[d][DirSide]
      BY <1>4 DEF SetSide
    <3>2. ent'[d][DirSide] # None => data'[ent'[d][DirSide]] = data[ent'[d][DirSide]]
      BY <1>2, SweptData
    <3> QED
      BY <3>1, <3>2 DEF DirStored
  <2>3. ASSUME NEW r \in NamedPath, SideIn(ent', r) # None
        PROVE  /\ At(ent, r) = At(ent', r) /\ Hold(ent, "unlink", c, r) = SideIn(ent', r)
               /\ data'[SideIn(ent', r)] = data[SideIn(ent', r)]
    <3>1. r # c.path
      BY <1>4, <2>3 DEF SetSide
    <3>2. At(ent, r) = At(ent', r) /\ Hold(ent, "unlink", c, r) = SideIn(ent', r)
      BY <1>4, <3>1 DEF SetSide, Hold
    <3> QED
      BY <1>2, <2>3, <3>2, SweptData
  <2> QED
    BY <2>1, <2>2, <2>3 DEF SidesMoved
<1> QED
  BY <1>1, <1>2, <1>5, <1>6, MovedView

LEMMA RenamedView ==
    ASSUME RepliesTyped, ViewInv, SeesBusy, NEW t \in Threads, Goes(t), TypeOK', SidecarInv',
           RenameSidecar(t)
    PROVE  ViewInv' /\ Unseen /\ OnlySet
<1>1. PICK c : c = call[t]
  OBVIOUS
<1>2. PICK s : s = SideIn(ent, c.path)
  OBVIOUS
<1>3. /\ Renaming(ent, c) /\ pc[t] = "rename" /\ TreeOK(ent) /\ TreeOK(ent')
      /\ attrsFileName(c.path, "FILE") = SideFile(c.path)
  BY <1>1 DEF RenameSidecar, Goes, HalfDone, TypeOK, attrsFileName, SideFile
<1>4. /\ c.path \in NamedPath /\ c.to \in FilesIn(ent) /\ c.to \in NamedPath
      /\ ent' = rename(ent, SideFile(c.path), SideFile(c.to))
      /\ data' = Sweep(ent', data) /\ Finish(t, Reply(c.err))
  BY <1>1, <1>3 DEF RenameSidecar, Renaming, FilesIn
<1>5. /\ \A r \in NamedPath : At(ent', r) = At(ent, r)
      /\ \A d \in Dirs : ent'[d][DirSide] = ent[d][DirSide]
      /\ \A r \in NamedPath : At(ent', r) \in Files /\ SideIn(ent', r) # None =>
            /\ SideIn(ent', r) = Hold(ent, "rename", c, r)
            /\ \E q \in NamedPath : SideIn(ent', r) = SideIn(ent, q)
      /\ \A r \in NamedPath : SideIn(ent', r) # None =>
            \E q \in NamedPath : SideIn(ent', r) = SideIn(ent, q)
  <2>1. CASE s = SideIn(ent, c.to)
    <3>1. ent' = ent
      BY <1>2, <1>4, <2>1 DEF rename, SideIn
    <3> QED
      BY <1>2, <2>1, <3>1 DEF Hold
  <2>2. CASE s # SideIn(ent, c.to)
    <3>1. s # None
      BY <1>2, <1>3, <1>4, <2>2 DEF Renaming, AllHave, FilesHave, FilesIn
    <3>2. renameError(ent, SideFile(c.path), SideFile(c.to)) = OK
      <4>1. SideIn(ent, c.to) \notin Dirs
        BY <1>3, <1>4, SideTypes, EntryNames, HostTreeAssumption DEF Objects
      <4> QED
        BY <1>2, <3>1, <4>1 DEF renameError, SideIn
    <3>3. PICK T : T = Put(ent, SideFile(c.to), s)
      OBVIOUS
    <3>4. ent' = Put(T, SideFile(c.path), None)
      BY <1>2, <1>4, <2>2, <3>2, <3>3 DEF rename, SideIn
    <3>5. TreeOK(T)
      BY <1>2, <1>3, <1>4, <3>3, SideTypes, SideNames, PutOK
    <3>6. SetSide(ent, T, c.to, s) /\ SetSide(T, ent', c.path, None)
      BY <1>3, <1>4, <3>3, <3>4, <3>5, PutSide
    <3>7. /\ \A r \in NamedPath : At(ent', r) = At(ent, r)
          /\ \A d \in Dirs : ent'[d][DirSide] = ent[d][DirSide]
          /\ \A r \in NamedPath : SideIn(ent', r) =
                IF r = c.path THEN None ELSE IF r = c.to THEN s ELSE SideIn(ent, r)
      BY <3>6 DEF SetSide
    <3> QED
      BY <1>2, <1>4, <3>7 DEF Hold
  <2> QED
    BY <2>1, <2>2
<1>6. DirSidesOwn(ent')
  <2>1. DirSidesOwn(ent)
    BY DEF ViewInv
  <2>2. \A d, e \in Dirs :
            ent'[d][DirSide] # None /\ ent'[d][DirSide] = ent'[e][DirSide] => d = e
    BY <1>5, <2>1 DEF DirSidesOwn
  <2>3. \A d \in Dirs, r \in NamedPath : ent'[d][DirSide] # None =>
            ent'[d][DirSide] # SideIn(ent', r)
    BY <1>5, <2>1 DEF DirSidesOwn
  <2> QED
    BY <2>2, <2>3 DEF DirSidesOwn
<1>7. SidesMoved(ent, data, "rename", c, ent', data')
  <2>1. SameObjects(ent, ent')
    BY <1>5 DEF SameObjects
  <2>2. ASSUME NEW d \in Dirs
        PROVE  DirStored(ent', data', d) = DirStored(ent, data, d)
    <3>1. ent'[d][DirSide] = ent[d][DirSide]
      BY <1>5
    <3>2. ent'[d][DirSide] # None => data'[ent'[d][DirSide]] = data[ent'[d][DirSide]]
      BY <1>3, <1>4, SweptData
    <3> QED
      BY <3>1, <3>2 DEF DirStored
  <2>3. ASSUME NEW r \in NamedPath, At(ent', r) \in Files, SideIn(ent', r) # None
        PROVE  /\ At(ent, r) = At(ent', r) /\ Hold(ent, "rename", c, r) = SideIn(ent', r)
               /\ data'[SideIn(ent', r)] = data[SideIn(ent', r)]
    BY <1>3, <1>4, <1>5, <2>3, SweptData
  <2> QED
    BY <2>1, <2>2, <2>3 DEF SidesMoved
<1> QED
  BY <1>1, <1>3, <1>4, <1>6, <1>7, MovedView


-----------------------------------------------------------------------------
(* Renaming *)

LEMMA MayRenameView ==
    ASSUME TypeOK, NEW p, NEW q, MayRename(ent, p, q)
    PROVE  AFS!MayRename(tree, p, q)
<1>1. TreeOK(ent) /\ p \in NamedPath /\ q \in NamedPath /\ p \in AnyPath /\ q \in AnyPath
  BY PathSets DEF TypeOK, MayRename
<1>2. /\ p \in AFS!Existing(tree) \ {AFS!RootPath} /\ q \in AFS!Paths(tree)
      /\ AFS!At(tree, p) = At(ent, p) /\ AFS!At(tree, q) = At(ent, q)
  BY <1>1, ClientPaths, TreeIs, SameOperators DEF MayRename
<1>3. At(ent, p) \notin Files => At(ent, p) \in Dirs
  BY <1>1, SideTypes DEF MayRename, Existing
<1>4. \A d \in Dirs : AFS!Below(tree, d) = Below(ent, d)
  BY <1>1, BelowView, TreeIs, SameOperators
<1> QED
  BY <1>2, <1>3, <1>4 DEF MayRename, AFS!MayRename

\* Changes of the tree by a rename that finds no directory in its way.
RenamedTo(T, U, p, q) ==
    /\ \A x \in NamedPath : SideIn(U, x) = SideIn(T, x)
    /\ \A d \in Dirs : U[d][DirSide] = T[d][DirSide]
    /\ \/ /\ U = T /\ At(T, p) = At(T, q)
       \/ /\ At(T, p) # At(T, q) /\ U = Put(Put(T, q, At(T, p)), p, None)
          /\ NamesIn(U) = Put(Put(NamesIn(T), q, At(T, p)), p, None)
          /\ \A x \in NamedPath :
                At(U, x) = IF x = p THEN None ELSE IF x = q THEN At(T, p) ELSE At(T, x)

LEMMA RenameTables ==
    ASSUME NEW T, TreeOK(T), NEW p \in NamedPath, NEW q \in NamedPath, At(T, p) # None,
           At(T, q) \notin Dirs
    PROVE  /\ renameError(T, p, q) = OK /\ RenamedTo(T, rename(T, p, q), p, q)
           /\ At(rename(T, p, q), q) = At(T, p)
<1>1. renameError(T, p, q) = OK
  BY DEF renameError
<1>2. CASE At(T, p) = At(T, q)
  BY <1>1, <1>2 DEF rename, RenamedTo
<1>3. CASE At(T, p) # At(T, q)
  <2>1. PICK U : U = Put(T, q, At(T, p))
    OBVIOUS
  <2>2. PICK V : V = rename(T, p, q)
    OBVIOUS
  <2>3. V = Put(U, p, None)
    BY <1>1, <1>3, <2>1, <2>2 DEF rename
  <2>4. TreeOK(U)
    BY <2>1, AtOK, PutOK
  <2>5. SetObject(T, U, q, At(T, p)) /\ SetObject(U, V, p, None)
    BY <2>1, <2>3, <2>4, PutObject
  <2>6. NamesIn(U) = Put(NamesIn(T), q, At(T, p)) /\ NamesIn(V) = Put(NamesIn(U), p, None)
    BY <2>1, <2>3, <2>4, PutNamed
  <2>7. RenamedTo(T, V, p, q)
    BY <1>3, <2>1, <2>3, <2>5, <2>6 DEF RenamedTo, SetObject
  <2>8. At(V, q) = At(T, p)
    BY <1>3, <2>5 DEF SetObject
  <2> QED
    BY <1>1, <2>2, <2>7, <2>8
<1> QED
  BY <1>2, <1>3

LEMMA RenamePresent ==
    ASSUME NEW T, TreeOK(T), NEW U, TreeOK(U), NEW p \in NamedPath, NEW q \in NamedPath,
           RenamedTo(T, U, p, q), At(T, q) \notin Dirs, NamedInDirs(T), Present(T, q.dir)
    PROVE  NamedInDirs(U) /\ \A u \in Objects : Present(U, u) => Present(T, u)
<1>1. CASE U = T
  BY <1>1
<1>2. CASE U # T
  <2>1. \A x \in NamedPath :
            At(U, x) = IF x = p THEN None ELSE IF x = q THEN At(T, p) ELSE At(T, x)
    BY <1>2 DEF RenamedTo
  <2>2. p # q /\ None \notin Objects /\ Dirs \subseteq Objects
    BY <1>2, EntryNames DEF RenamedTo, Objects
  <2>3. \A u \in Objects : Present(U, u) => Present(T, u)
    BY <2>1, <2>2, PresentIs
  <2>4. ASSUME NEW d \in Dirs, Present(T, d)
        PROVE  Present(U, d)
    <3>1. CASE d = Root
      BY <3>1 DEF Present
    <3>2. CASE d # Root
      <4>1. PICK x \in NamedPath : At(T, x) = d
        BY <2>2, <2>4, <3>2, PresentIs
      <4>2. x # q
        BY <4>1
      <4>3. At(U, IF x = p THEN q ELSE x) = d
        BY <2>1, <2>2, <4>1, <4>2
      <4>4. \E y \in NamedPath : At(U, y) = d
        BY <4>3
      <4> QED
        BY <2>2, <4>4, PresentIs
    <3> QED
      BY <3>1, <3>2
  <2>5. NamedInDirs(U)
    BY <2>1, <2>4 DEF NamedInDirs, NamedPath
  <2> QED
    BY <2>3, <2>5
<1> QED
  BY <1>1, <1>2

LEMMA RenameView ==
    ASSUME RepliesTyped, ViewInv, SeesQuiet, NEW t \in Threads, Begins(t), TypeOK', SidecarInv',
           Rename(t)
    PROVE  ViewInv' /\ AFS!Rename(t) /\ OnlySet
<1>1. PICK p \in Existing(ent), q \in Paths(ent) :
        LET err == renameError(ent, p, q)
        IN  /\ MayRename(ent, p, q)
            /\ ent' = rename(ent, p, q)
            /\ IF err = OK /\ At(ent', q) \in Files
               THEN Continue(t, "rename",
                             Call("RENAME", p, q, attrsFileName(q, "FILE"), Undef, OK))
               ELSE Finish(t, Reply(err))
            /\ data' = data
  BY DEF Rename
<1>2. PICK o : o = At(ent, p)
  OBVIOUS
<1>3. PICK c : c = Call("RENAME", p, q, attrsFileName(q, "FILE"), Undef, OK)
  OBVIOUS
<1>4. /\ p \in NamedPath /\ q \in NamedPath /\ p \in AnyPath /\ q \in AnyPath /\ o # None
      /\ Present(ent, q.dir) /\ TypeOK /\ TreeOK(ent) /\ TreeOK(ent') /\ Quiet
      /\ o \in Objects /\ None \notin Objects
  <2>1. p \in NamedPath /\ q \in NamedPath /\ o # None
    BY <1>1, <1>2, PathSets DEF MayRename, Existing
  <2>2. Present(ent, q.dir) /\ TypeOK /\ TreeOK(ent) /\ TreeOK(ent') /\ Quiet
    BY DEF Paths, Begins, TypeOK
  <2> QED
    BY <1>2, <2>1, <2>2, AtOK, EntryNames, SidePaths
<1>5. c.path = p /\ c.to = q /\ c.err = OK
  BY <1>3 DEF Call
<1>6. /\ AFS!MayRename(tree, p, q) /\ AFS!At(tree, p) = o /\ AFS!At(tree, q) = At(ent, q)
      /\ p \in AFS!Existing(tree) /\ q \in AFS!Paths(tree)
  BY <1>1, <1>2, <1>4, MayRenameView, ClientPaths, TreeIs, SameOperators
<1>7. Sees(ent, data, "idle", NoCall, AttrsSeen)
  BY <1>4 DEF SeesQuiet
<1>8. CASE At(ent, q) \in Dirs
  <2>1. renameError(ent, p, q) = "ENOTEMPTY" /\ OK # "ENOTEMPTY"
    <3>1. At(ent, q) # o
      BY <1>1, <1>2, <1>8, HostTreeAssumption DEF MayRename
    <3>2. ent[At(ent, q)][DirSide] # None
      BY <1>4, <1>8 DEF Begins, AllHave, DirsHave
    <3>3. ~EmptyDir(ent, At(ent, q))
      BY <1>4, <1>8, <3>2, EntryNames DEF EmptyDir, TreeOK
    <3> QED
      BY <1>2, <1>4, <1>8, <3>1, <3>3 DEF renameError, OK
  <2>2. ent' = ent /\ Finish(t, Reply("ENOTEMPTY"))
    BY <1>1, <2>1 DEF rename
  <2>3. NamedInDirs(ent') /\ DirSidesOwn(ent')
    BY <2>2 DEF ViewInv
  <2>4. ViewInv'
    BY <1>4, <2>2, <2>3, EndsKnows
  <2>5. Sees(ent, data, "idle", NoCall, AttrsSeen')
    BY <1>1, <1>4, <2>2, <2>3, AfterEnd
  <2>6. AttrsSeen' = AttrsSeen
    BY <1>7, <2>5, EqualSeen
  <2>7. Kept
    BY <2>6 DEF Kept
  <2>8. AttrsSeen' = AFS!Forget(tree', AttrsSeen)
    BY <1>4, <2>2, <2>3, <2>7, ForgetSeen
  <2>9. Answered(t, Reply("ENOTEMPTY"))
    BY <1>4, <2>2, EndsAnswer
  <2>10. AFS!Answer(t, AFS!Reply("ENOTEMPTY"))
    BY <2>9, SameOperators DEF AFS!Answer, Answered, RepliesSeen
  <2>11. tree' = tree
    BY <2>2, TreeIs
  <2>12. AFS!Rename(t)
    BY <1>6, <1>8, <2>8, <2>10, <2>11 DEF AFS!Rename, AttrsSeen
  <2> QED
    BY <2>4, <2>7, <2>12, KeptOnly
<1>9. CASE At(ent, q) \notin Dirs
  <2>1. renameError(ent, p, q) = OK /\ RenamedTo(ent, ent', p, q) /\ At(ent', q) = o
    BY <1>1, <1>2, <1>4, <1>9, RenameTables
  <2>2. NamedInDirs(ent') /\ \A u \in Objects : Present(ent', u) => Present(ent, u)
    BY <1>4, <1>9, <2>1, RenamePresent DEF ViewInv
  <2>3. DirSidesOwn(ent')
    BY <2>1 DEF ViewInv, DirSidesOwn, RenamedTo
  <2>4. /\ o \in Files => Continue(t, "rename", c)
        /\ o \notin Files => Finish(t, Reply(OK))
    BY <1>1, <1>3, <2>1
  <2>5. ViewInv'
    <3>1. CASE o \in Files
      <4>1. Knows(ent', "rename", c)
        BY DEF Knows
      <4> QED
        BY <1>4, <2>2, <2>3, <2>4, <3>1, <4>1, GoesOnKnows DEF Steps
    <3>2. CASE o \notin Files
      BY <1>4, <2>2, <2>3, <2>4, <3>2, EndsKnows
    <3> QED
      BY <3>1, <3>2
  <2>6. PICK step, e : /\ o \in Files => step = "rename" /\ e = c
                       /\ o \notin Files => step = "idle" /\ e = NoCall
    OBVIOUS
  <2>7. Sees(ent', data', step, e, AttrsSeen')
    <3>1. CASE o \in Files
      BY <1>4, <2>2, <2>4, <2>6, <3>1, AfterStep DEF Steps
    <3>2. CASE o \notin Files
      BY <1>4, <2>2, <2>4, <2>6, <3>2, AfterEnd
    <3> QED
      BY <3>1, <3>2
  <2>8. ASSUME NEW u \in Objects, Present(ent, u), Present(ent', u)
        PROVE  AttrsSeen'[u] = AttrsSeen[u]
    <3>1. ~InMemory(ent, "idle", NoCall, u) /\ ~InMemory(ent', step, e, u)
      BY <2>6 DEF InMemory
    <3>2. ASSUME u \in Files
          PROVE  \E x : HasSide(ent, "idle", NoCall, u, x) /\ HasSide(ent', step, e, u, x)
      <4>1. PICK x : HasSide(ent', step, e, u, x)
        BY <2>7, <2>8, <3>1, <3>2 DEF Sees
      <4>2. PICK r \in NamedPath : At(ent', r) = u /\ x = Hold(ent', step, e, r) /\ x # None
        BY <4>1 DEF HasSide
      <4>3. CASE r = q
        <5>1. u = o
          BY <2>1, <4>2, <4>3
        <5>2. x = SideIn(ent, p)
          BY <1>4, <1>5, <2>1, <2>6, <3>2, <4>2, <4>3, <5>1 DEF Hold, RenamedTo
        <5>3. HasSide(ent, "idle", NoCall, u, x)
          BY <1>2, <1>4, <4>2, <5>1, <5>2 DEF HasSide, Hold
        <5> QED
          BY <4>1, <5>3
      <4>4. CASE r # q
        <5>1. At(ent, r) = u
          BY <1>4, <2>1, <4>2, <4>4 DEF RenamedTo
        <5>2. x = SideIn(ent, r)
          BY <1>5, <2>1, <2>6, <4>2, <4>4 DEF Hold, RenamedTo
        <5>3. HasSide(ent, "idle", NoCall, u, x)
          BY <4>2, <5>1, <5>2 DEF HasSide, Hold
        <5> QED
          BY <4>1, <5>3
      <4> QED
        BY <4>3, <4>4
    <3>3. u \in Dirs => DirStored(ent', data', u) = DirStored(ent, data, u)
      BY <1>1, <2>1 DEF DirStored, RenamedTo
    <3> QED
      BY <1>1, <1>7, <2>7, <2>8, <3>1, <3>2, <3>3, SameSeen
  <2>9. Kept
    BY <2>8 DEF Kept
  <2>10. AttrsSeen' = AFS!Forget(tree', AttrsSeen)
    BY <1>4, <2>2, <2>9, ForgetSeen
  <2>11. Answered(t, Reply(OK))
    <3>1. CASE o \in Files
      BY <1>4, <1>5, <2>4, <3>1, GoesOnAnswer DEF Steps
    <3>2. CASE o \notin Files
      BY <1>4, <2>4, <3>2, EndsAnswer
    <3> QED
      BY <3>1, <3>2
  <2>12. AFS!renameError(tree, p, q) = OK
    BY <1>4, <1>6, <1>9, SameOperators DEF AFS!renameError, AFS!OK, OK
  <2>13. tree' = AFS!rename(tree, p, q)
    <3>1. CASE o = At(ent, q)
      <4>1. ent' = ent
        BY <1>2, <2>1, <3>1 DEF RenamedTo
      <4> QED
        BY <1>6, <3>1, <4>1, TreeIs DEF AFS!rename
    <3>2. CASE o # At(ent, q)
      <4>1. NamesIn(ent') = Put(Put(NamesIn(ent), q, o), p, None)
        BY <1>2, <2>1, <3>2 DEF RenamedTo
      <4> QED
        BY <1>6, <2>12, <3>2, <4>1, TreeIs, SameOperators DEF AFS!rename
    <3> QED
      BY <3>1, <3>2
  <2>14. AFS!Answer(t, AFS!Reply(AFS!renameError(tree, p, q)))
    BY <2>11, <2>12, SameOperators DEF AFS!Answer, Answered, RepliesSeen
  <2>15. AFS!Rename(t)
    BY <1>6, <2>10, <2>13, <2>14 DEF AFS!Rename, AttrsSeen
  <2> QED
    BY <2>5, <2>9, <2>15, KeptOnly
<1> QED
  BY <1>8, <1>9

-----------------------------------------------------------------------------
(* The first state *)

\* The container's root has ids on the host, as without -u and -g, and with -A
\* (uchroot/main.cc:66, 191-198).
RootMapped == 0 \in InnerIds(UidMap) /\ 0 \in InnerIds(GidMap)

LEMMA NothingThere ==
    ASSUME NewTree, Init
    PROVE  /\ \A d \in Dirs, n \in Entries : ent[d][n] = None
           /\ \A p \in NamedPath : At(ent, p) = None /\ SideIn(ent, p) = None
           /\ \A o \in Objects : Present(ent, o) <=> o = Root
<1>1. \A d \in Dirs, n \in Entries : ent[d][n] = None
  BY DEF NewTree, Init
<1>2. \A p \in NamedPath \cup SidePath : At(ent, p) = None
  BY <1>1, EntryNames, HostTreeAssumption DEF At, NamedPath, SidePath
<1>3. \A p \in NamedPath : At(ent, p) = None /\ SideIn(ent, p) = None
  BY <1>2, SideNames DEF SideIn
<1>4. TreeOK(ent) /\ None \notin Objects
  BY InitType, EntryNames, HostTreeAssumption DEF TypeOK, Objects
<1>5. \A o \in Objects : ~Linked(ent, o)
  BY <1>1, <1>4 DEF Linked, TreeOK
<1> QED
  BY <1>1, <1>3, <1>5 DEF Present

LEMMA ViewInit == NewTree /\ Init => ViewInv
<1> SUFFICES ASSUME NewTree, Init
             PROVE  ViewInv
  OBVIOUS
<1>1. NamedInDirs(ent)
  BY NothingThere DEF NamedInDirs
<1>2. DirSidesOwn(ent)
  BY NothingThere, EntryNames DEF DirSidesOwn
<1>3. \A t \in Threads : ~Busy(t)
  BY DEF Init, Busy
<1> QED
  BY <1>1, <1>2, <1>3 DEF ViewInv

LEMMA RootSeen ==
    ASSUME NewTree, RootMapped, Init
    PROVE  AttrsSeen = [o \in Objects |->
                          IF o = Root THEN [uid |-> 0, gid |-> 0, mode |-> HostMode] ELSE NoAttr]
<1>1. TypeOK /\ SidecarInv /\ ViewInv /\ Quiet
  BY InitType, SidecarInit, ViewInit DEF Init, Quiet, Busy
<1>2. Sees(ent, data, "idle", NoCall, AttrsSeen)
  BY <1>1, ViewSees DEF ViewInv, SeesQuiet
<1>3. Root \in Dirs /\ Root \in Objects /\ Root \in Preexisting
  BY HostTreeAssumption, EmuAttrAssumption DEF Objects
<1>4. \A o \in Objects : o # Root => AttrsSeen[o] = NoAttr
  BY <1>2, NothingThere DEF Sees
<1>5. AttrsSeen[Root] = shown(Root, DirStored(ent, data, Root))
  BY <1>2, <1>3 DEF Sees, InMemory, Present
<1>6. DirStored(ent, data, Root) = defaultAttrs(Root)
  BY <1>3, NothingThere, EntryNames DEF DirStored
<1>7. defaultAttrs(Root) = [uid |-> 0, gid |-> 0, mode |-> HostMode]
  BY <1>3 DEF defaultAttrs, hostMode
<1>8. defaultAttrs(Root) # Torn
  BY DefaultAttrs, EmuAttrAssumption
<1>9. /\ kernelIn(toOuter(0, UidMap), UidMap) = 0
      /\ kernelIn(toOuter(0, GidMap), GidMap) = 0
  BY EmuAttrAssumption, IdsRoundTrip DEF RootMapped
<1>10. shownUid[0] = 0 /\ shownGid[0] = 0
  BY <1>9, IdZero DEF shownUid, shownGid
<1>11. AttrsSeen[Root] = [uid |-> 0, gid |-> 0, mode |-> HostMode]
  BY <1>5, <1>6, <1>7, <1>8, <1>10 DEF shown
<1> QED
  BY <1>4, <1>11 DEF AttrsSeen

LEMMA AbstractInit == NewTree /\ RootMapped /\ Init => AFS!Init
<1> SUFFICES ASSUME NewTree, RootMapped, Init
             PROVE  AFS!Init
  OBVIOUS
<1>1. tree = [d \in Dirs |-> [n \in Names |-> None]]
  BY NothingThere, EntryNames DEF tree
<1>2. RepliesSeen = [t \in Threads |-> Reply(OK)]
  BY DEF RepliesSeen, ReplyView, Init
<1> QED
  BY <1>1, <1>2, RootSeen, SameOperators DEF AFS!Init, AttrsSeen, RepliesSeen

-----------------------------------------------------------------------------
(* Every step *)

LEMMA NothingDone ==
    ASSUME UNCHANGED vars
    PROVE  Unseen /\ UNCHANGED AFS!vars
<1> USE DEF vars
<1>1. \A o : Writers(o)' = Writers(o)
  BY DEF Writers
<1>2. ASSUME NEW p
      PROVE  SidecarAt(p)' = SidecarAt(p)
  <2> DEFINE Old(st, c) == {t \in Threads : st[t] = "rename" /\ c[t].to = p}
  <2>1. Old(pc', call') = Old(pc, call)
    OBVIOUS
  <2>2. (CHOOSE t \in Old(pc', call') : TRUE) = (CHOOSE t \in Old(pc, call) : TRUE)
    BY <2>1
  <2> QED
    BY <2>1, <2>2 DEF SidecarAt, At, attrsFileName
<1>3. ASSUME NEW o
      PROVE  AttrView(o)' = AttrView(o)
  <2>1. SidecarsOf(o)' = SidecarsOf(o)
    BY <1>2 DEF SidecarsOf
  <2>2. StoredAttrs(o)' = StoredAttrs(o)
    <3>1. /\ (CHOOSE t \in Writers(o)' : TRUE) = (CHOOSE t \in Writers(o) : TRUE)
          /\ (CHOOSE s \in SidecarsOf(o)' : TRUE) = (CHOOSE s \in SidecarsOf(o) : TRUE)
      BY <1>1, <2>1
    <3> QED
      BY <1>1, <2>1, <3>1 DEF StoredAttrs
  <2> QED
    BY <2>2 DEF AttrView
<1>4. \A t : ReplyView(t)' = ReplyView(t)
  BY DEF ReplyView
<1> QED
  BY <1>3, <1>4, TreeIs DEF vars, Unseen, AttrsSeen, RepliesSeen, AFS!vars

\* What a client can see of a step: a request of the abstract file system, or nothing.
Shown == (AFS!Next \/ Unseen) /\ OnlySet

LEMMA RequestShown ==
    ASSUME RepliesTyped, SidecarInv, OneInside, ViewInv, NEW t \in Threads, TypeOK,
           Quiet \/ (pc[t] = "idle" /\ (Readdir(t) \/ PassThrough(t))),
           TypeOK', SidecarInv', Request(t)
    PROVE  ViewInv' /\ Shown
<1>1. SeesQuiet
  BY ViewSees DEF ViewInv
<1>2. CASE Getattr(t) \/ Readdir(t) \/ PassThrough(t) \/ Refuse(t)
  <2>1. pc[t] = "idle" /\ (\E rep : Finish(t, rep)) /\ UNCHANGED <<ent, data>>
    BY <1>2 DEF Getattr, Readdir, PassThrough, Refuse, Enter
  <2>2. ViewInv' /\ AttrsSeen' = AttrsSeen
    BY <2>1, ReadsKeep
  <2>3. OnlySet
    BY <2>2, KeptOnly DEF Kept
  <2>4. CASE Quiet /\ Getattr(t)
    <3>1. Begins(t)
      BY <2>4 DEF Begins, SidecarInv
    <3>2. AFS!Getattr(t)
      BY <1>1, <2>2, <2>4, <3>1, GetattrView
    <3> QED
      BY <2>2, <2>3, <3>2 DEF Shown, AFS!Next
  <2>5. CASE Readdir(t)
    <3>1. AFS!Readdir(t)
      BY <2>2, <2>5, ReaddirView
    <3> QED
      BY <2>2, <2>3, <3>1 DEF Shown, AFS!Next
  <2>6. CASE PassThrough(t) \/ Refuse(t)
    <3>1. AFS!Other(t)
      BY <2>2, <2>6, OtherView
    <3> QED
      BY <2>2, <2>3, <3>1 DEF Shown, AFS!Next
  <2> QED
    BY <1>2, <2>4, <2>5, <2>6
<1>3. CASE Quiet /\ ~(Getattr(t) \/ Readdir(t) \/ PassThrough(t) \/ Refuse(t))
  <2>1. Begins(t)
    BY <1>3 DEF Begins, SidecarInv
  <2>2. /\ ViewInv' /\ OnlySet
        /\ \/ AFS!Begin(t) \/ AFS!Chown(t) \/ AFS!Chmod(t) \/ AFS!Creat(t) \/ AFS!Mkdir(t)
           \/ AFS!Link(t) \/ AFS!Unlink(t) \/ AFS!Rename(t)
    BY <1>1, <1>3, <2>1, ChownView, ChmodView, CreatView, MkdirView, LinkView, UnlinkView,
       RmdirView, RenameView DEF Request
  <2> QED
    BY <2>2 DEF Shown, AFS!Next
<1> QED
  BY <1>2, <1>3

LEMMA StepShown ==
    ASSUME RepliesTyped, SidecarInv, ViewInv, NEW t \in Threads, TypeOK, Alone(t),
           TypeOK', SidecarInv', Step(t)
    PROVE  ViewInv' /\ Shown
<1>1. SeesBusy
  BY ViewSees DEF ViewInv
<1>2. Goes(t)
  BY DEF Goes, SidecarInv, Alone
<1>3. CASE RemoveDir(t)
  BY <1>1, <1>2, <1>3, RemoveDirView DEF Shown, AFS!Next
<1>4. CASE ~RemoveDir(t)
  BY <1>1, <1>2, <1>4, OpenView, WriteView, LinkedView, UnlinkedView, RenamedView
     DEF Step, Shown
<1> QED
  BY <1>3, <1>4

LEMMA ViewStep ==
    /\ NewTree /\ TypeOK /\ OneInside /\ SidecarInv /\ ViewInv /\ RepliesTyped
    /\ [Next]_vars
    => ViewInv' /\ (Shown \/ UNCHANGED vars)
<1> SUFFICES ASSUME NewTree, TypeOK, OneInside, SidecarInv, ViewInv, RepliesTyped, [Next]_vars
             PROVE  ViewInv' /\ (Shown \/ UNCHANGED vars)
  OBVIOUS
<1>1. TypeOK' /\ SidecarInv'
  BY NextType, SidecarStep
<1>2. ~Crash /\ \A t \in Threads : ~SidecarFault(t)
  BY DEF NewTree, TypeOK, Crash, SidecarFault
<1>3. ASSUME NEW t \in Threads, Request(t)
      PROVE  ViewInv' /\ Shown
  <2>1. CASE Readdir(t) \/ PassThrough(t)
    <3>1. pc[t] = "idle"
      BY <2>1 DEF Readdir, PassThrough, Enter
    <3> QED
      BY <1>1, <1>3, <2>1, <3>1, RequestShown
  <2>2. CASE ~(Readdir(t) \/ PassThrough(t))
    <3>1. \/ Getattr(t) \/ Refuse(t) \/ Chown(t) \/ Chmod(t) \/ Creat(t) \/ Mkdir(t)
          \/ Link(t) \/ Unlink(t) \/ Rmdir(t) \/ Rename(t)
      BY <1>3, <2>2 DEF Request
    <3>2. mutex = None
      BY <3>1 DEF Getattr, Refuse, Chown, Chmod, Creat, Mkdir, Link, Unlink, Rmdir, Rename,
                  Enter, needsLock
    <3>3. Quiet \/ (pc[t] = "idle" /\ (Readdir(t) \/ PassThrough(t)))
      BY <3>2, EmuAttrAssumption DEF OneInside, Quiet
    <3> QED
      BY <1>1, <1>3, <3>3, RequestShown
  <2> QED
    BY <2>1, <2>2
<1>4. ASSUME NEW t \in Threads, Step(t)
      PROVE  ViewInv' /\ Shown
  <2>1. Busy(t)
    BY <1>4 DEF Step, OpenSidecar, WriteSidecar, LinkSidecar, UnlinkSidecar, RemoveDir,
                RenameSidecar, Busy
  <2>2. Alone(t)
    BY <2>1 DEF Alone, OneInside
  <2> QED
    BY <1>1, <1>4, <2>2, StepShown
<1>5. CASE UNCHANGED vars
  BY <1>5 DEF vars, ViewInv, Busy
<1> QED
  BY <1>2, <1>3, <1>4, <1>5 DEF Next

LEMMA RepliesAlways == Spec => []RepliesTyped
<1>1. Init => RepliesTyped
  BY DEF Init, RepliesTyped
<1>2. RepliesTyped /\ [Next]_vars => RepliesTyped'
  BY RegionsStep, RepliesStep DEF RepliesTyped
<1> QED
  BY <1>1, <1>2, PTL DEF Spec

ViewIInv == TypeOK /\ OneInside /\ SidecarInv /\ RepliesTyped /\ ViewInv

LEMMA ViewAlways == ASSUME NewTree PROVE Spec => []ViewIInv
<1>1. Init => SidecarInv /\ ViewInv
  BY SidecarInit, ViewInit
<1>2. TypeOK /\ OneInside /\ SidecarInv /\ ViewInv /\ RepliesTyped /\ [Next]_vars
         => SidecarInv' /\ ViewInv'
  BY SidecarStep, ViewStep
<1> QED
  BY <1>1, <1>2, TypeCorrect, MutualExclusion, RepliesAlways, PTL DEF Spec, ViewIInv

LEMMA AbstractStep ==
    ASSUME NewTree
    PROVE  ViewIInv /\ [Next]_vars => [AFS!Next]_AFS!vars
<1>1. Unseen => UNCHANGED AFS!vars
  BY DEF Unseen, AFS!vars, AttrsSeen, RepliesSeen
<1> QED
  BY <1>1, ViewStep, NothingDone DEF ViewIInv, Shown

\* On a tree that erlent alone fills and a host that does not fail it, every system call of
\* every request is, for the clients, either the whole request on files that have an owner,
\* a group and a mode of their own, or nothing: the emulation implements AttrFS for any
\* number of threads (local.cc:122-268).
THEOREM ImplementsFileSystem == ASSUME NewTree, RootMapped PROVE Spec => ImplementsAttrFS
<1>1. Init => AFS!Init
  BY AbstractInit
<1>2. ViewIInv /\ [Next]_vars => [AFS!Next]_AFS!vars
  BY AbstractStep
<1> QED
  BY <1>1, <1>2, ViewAlways, PTL DEF Spec, ImplementsAttrFS, AFS!Spec

\* Only chown and chmod change the attributes of an object that stays, and only of the one
\* they name: no rename, link, unlink of another name or failed rmdir does, whatever other
\* threads do in between (local.cc:180-187, 244-265).
THEOREM AttrsOnlySetByRequest == ASSUME NewTree PROVE Spec => AttrsOnlySet
<1>1. ViewIInv /\ [Next]_vars => OnlySet \/ UNCHANGED vars
  BY ViewStep DEF ViewIInv, Shown
<1>2. ViewIInv /\ [Next]_vars => [OnlySet]_vars
  BY <1>1
<1> QED
  BY <1>2, ViewAlways, PTL DEF Spec, AttrsOnlySet, OnlySet
=============================================================================
