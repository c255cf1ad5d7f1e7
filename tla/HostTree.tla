------------------------------ MODULE HostTree ------------------------------
(***************************************************************************)
(* The part of a POSIX file system that the request processor relies on,   *)
(* modelled from the system calls it makes (erlent.cc, performLocally) and *)
(* external to src/.  A table T maps every directory and entry name to the *)
(* object found there, or to None.  Hard links are two entries with one    *)
(* object; a directory has one entry, the root none.  A path is a record   *)
(* [dir, name]; the name Dot stands for the directory itself.              *)
(***************************************************************************)
EXTENDS Integers, FiniteSets, Sequences

CONSTANTS
    Dirs,       \* directory inodes
    Root,       \* the root directory of the emulated tree
    Files,      \* inodes of regular files, symbolic links and devices
    Names,      \* names a client gives to its files and directories
    Dot,
    None

ASSUME HostTreeAssumption ==
    /\ Root \in Dirs
    /\ IsFiniteSet(Dirs)
    /\ Dirs \cap Files = {}
    /\ None \notin Dirs \cup Files
    /\ Dot \notin Names

RootPath == [dir |-> Root, name |-> Dot]

At(T, p) == IF p.name = Dot THEN p.dir ELSE T[p.dir][p.name]

\* The table after the entry p was made to refer to o (removed: o = None).
Put(T, p, o) == [T EXCEPT ![p.dir][p.name] = o]

\* Some entry refers to o; what nothing refers to is gone.
Linked(T, o) == \E d \in DOMAIN T : \E n \in DOMAIN T[d] : T[d][n] = o

Present(T, o) == o = Root \/ Linked(T, o)

EmptyDir(T, d) == \A n \in DOMAIN T[d] : T[d][n] = None

\* Directories at or below d.
Below(T, d) ==
    LET level[i \in 0 .. Cardinality(Dirs)] ==
            IF i = 0 THEN {d}
            ELSE level[i - 1] \cup
                 {x \in Dirs : \E y \in level[i - 1] : \E n \in DOMAIN T[y] : T[y][n] = x}
    IN  level[Cardinality(Dirs)]

-----------------------------------------------------------------------------
(* System calls.  Each takes the table and gives the error and the table    *)
(* after the call; a failing call changes nothing.                          *)

OK == "OK"

linkError(T, p, q) ==
    IF At(T, p) = None THEN "ENOENT" ELSE IF At(T, q) # None THEN "EEXIST" ELSE OK
link(T, p, q) == IF linkError(T, p, q) = OK THEN Put(T, q, At(T, p)) ELSE T

unlink(T, p) == Put(T, p, None)

rmdirError(T, p) == IF EmptyDir(T, At(T, p)) THEN OK ELSE "ENOTEMPTY"
rmdir(T, p) == IF rmdirError(T, p) = OK THEN Put(T, p, None) ELSE T

\* rename(2) leaves two links to one file alone.
renameError(T, p, q) ==
    IF At(T, p) = None THEN "ENOENT"
    ELSE IF At(T, q) \in Dirs \ {At(T, p)} /\ ~EmptyDir(T, At(T, q)) THEN "ENOTEMPTY"
    ELSE OK
rename(T, p, q) ==
    IF renameError(T, p, q) = OK /\ At(T, p) # At(T, q)
    THEN Put(Put(T, q, At(T, p)), p, None) ELSE T

-----------------------------------------------------------------------------
(* The kernel resolves names before it calls the file system, so a handler *)
(* only sees requests that its own view of the tree allows.                *)

Paths(T) == {p \in [dir : Dirs, name : Names] : Present(T, p.dir)}
Existing(T) == {p \in Paths(T) : At(T, p) # None} \cup {RootPath}
Absent(T) == {p \in Paths(T) : At(T, p) = None}
FilePaths(T) == {p \in Existing(T) : At(T, p) \in Files}
DirPaths(T) == {p \in Existing(T) : At(T, p) \in Dirs}

MayRename(T, p, q) ==
    /\ p \in Existing(T) \ {RootPath}
    /\ q \in Paths(T)
    /\ IF At(T, p) \in Files THEN At(T, q) \in Files \cup {None}
       ELSE /\ At(T, q) \in Dirs \cup {None}
            /\ q.dir \notin Below(T, At(T, p))
            /\ At(T, q) \in Dirs =>
                 /\ At(T, q) # At(T, p)
                 /\ p.dir \notin Below(T, At(T, q))
=============================================================================
