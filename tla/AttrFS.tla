------------------------------- MODULE AttrFS -------------------------------
(***************************************************************************)
(* What the emulation promises to the processes in the container: a tree   *)
(* of files and directories in which every object has an owner, a group    *)
(* and a mode of its own, in the container's ids, and every request takes  *)
(* effect at once.  Attributes belong to the object: renaming it, linking  *)
(* it or failing to remove it does not change them, and no sidecar can be  *)
(* seen.  An object that is gone has NoAttr.                               *)
(***************************************************************************)
EXTENDS HostTree

CONSTANTS
    Threads,
    ReqUids, ReqGids, ReqModes,
    NoId,           \* "no change" in chown
    Bits,           \* mode bits, "sgid" among them
    linkmode,       \* the mode of a symbolic link
    HostMode        \* the mode of the root directory on the host

VARIABLES tree, attr, reply

vars == <<tree, attr, reply>>

Objects == Dirs \cup Files
NoAttr == [uid |-> NoId, gid |-> NoId, mode |-> {}]
Reply(err) == [err |-> err, attr |-> NoAttr, size |-> 0, names |-> {}]

Init ==
    /\ tree = [d \in Dirs |-> [n \in Names |-> None]]
    /\ attr = [o \in Objects |->
                 IF o = Root THEN [uid |-> 0, gid |-> 0, mode |-> HostMode] ELSE NoAttr]
    /\ reply = [t \in Threads |-> Reply(OK)]

Answer(t, r) == reply' = [reply EXCEPT ![t] = r]

\* A request may wait before it takes effect.
Begin(t) == Answer(t, Reply("PENDING")) /\ UNCHANGED <<tree, attr>>

\* Objects that leave the tree lose their attributes.
Forget(T, A) == [o \in Objects |-> IF Present(T, o) THEN A[o] ELSE NoAttr]

Visible(d) == {n \in Names : tree[d][n] # None}

Getattr(t) ==
    \E p \in Existing(tree) :
        LET o == At(tree, p)
        IN  /\ Answer(t, [err |-> OK, attr |-> attr[o], names |-> {},
                          size |-> IF o \in Dirs THEN 2 + Cardinality(Visible(o)) ELSE 0])
            /\ UNCHANGED <<tree, attr>>

Readdir(t) ==
    \E p \in DirPaths(tree) :
        /\ Answer(t, [Reply(OK) EXCEPT !.names = Visible(At(tree, p))])
        /\ UNCHANGED <<tree, attr>>

\* Contents are not modelled; a request on a sidecar's name is refused.
Other(t) ==
    /\ \E err \in {OK, "EPERM"} : Answer(t, Reply(err))
    /\ UNCHANGED <<tree, attr>>

NewOwner(a, uid, gid) ==
    [a EXCEPT !.uid = IF uid = NoId THEN @ ELSE uid, !.gid = IF gid = NoId THEN @ ELSE gid]

Chown(t) ==
    \E p \in Existing(tree), uid \in ReqUids, gid \in ReqGids :
        /\ Answer(t, Reply(OK))
        /\ UNCHANGED tree
        /\ attr' = [attr EXCEPT ![At(tree, p)] = NewOwner(attr[At(tree, p)], uid, gid)]

Chmod(t) ==
    \E p \in Existing(tree), mode \in ReqModes :
        /\ Answer(t, Reply(OK))
        /\ UNCHANGED tree
        /\ attr' = [attr EXCEPT ![At(tree, p)].mode = mode]

Create(t, o, p, uid, gid, mode) ==
    /\ Answer(t, Reply(OK))
    /\ ~Present(tree, o)
    /\ tree' = Put(tree, p, o)
    /\ attr' = [attr EXCEPT ![o] =
                  [uid |-> uid, mode |-> mode,
                   gid |-> IF "sgid" \in attr[p.dir].mode THEN attr[p.dir].gid ELSE gid]]

Creat(t) ==
    \E p \in Absent(tree), f \in Files, uid \in ReqUids \ {NoId}, gid \in ReqGids \ {NoId},
       mode \in ReqModes \cup {linkmode} :
        Create(t, f, p, uid, gid, mode)

Mkdir(t) ==
    \E p \in Absent(tree), d \in Dirs, uid \in ReqUids \ {NoId}, gid \in ReqGids \ {NoId},
       mode \in ReqModes :
        Create(t, d, p, uid, gid, mode)

Link(t) ==
    \E p \in FilePaths(tree), q \in Absent(tree) :
        /\ Answer(t, Reply(OK))
        /\ tree' = link(tree, p, q)
        /\ UNCHANGED attr

Unlink(t) ==
    \E p \in FilePaths(tree) :
        /\ Answer(t, Reply(OK))
        /\ tree' = unlink(tree, p)
        /\ attr' = Forget(tree', attr)

Rmdir(t) ==
    \E p \in DirPaths(tree) \ {RootPath} :
        /\ Answer(t, Reply(rmdirError(tree, p)))
        /\ tree' = rmdir(tree, p)
        /\ attr' = Forget(tree', attr)

\* A directory may refuse to be replaced even when the client sees it empty.
Rename(t) ==
    \E p \in Existing(tree), q \in Paths(tree) :
        /\ MayRename(tree, p, q)
        /\ \/ /\ Answer(t, Reply(renameError(tree, p, q)))
              /\ tree' = rename(tree, p, q)
           \/ /\ At(tree, q) \in Dirs
              /\ Answer(t, Reply("ENOTEMPTY"))
              /\ tree' = tree
        /\ attr' = Forget(tree', attr)

Next == \E t \in Threads :
    \/ Begin(t) \/ Getattr(t) \/ Readdir(t) \/ Other(t) \/ Chown(t) \/ Chmod(t)
    \/ Creat(t) \/ Mkdir(t) \/ Link(t) \/ Unlink(t) \/ Rmdir(t) \/ Rename(t)

Spec == Init /\ [][Next]_vars
=============================================================================
