----------------------------- MODULE MCRegions ------------------------------
(* Instances of Regions: a root with one mapped directory, under the name mnt. *)
EXTENDS Regions, TLC

CONSTANTS r, d, f, g, n1, n2, mnt

MCMap == <<[innerID |-> 0, outerID |-> 4, count |-> 3]>>

MCTree == [x \in Dirs |-> [n \in Entries |-> IF x = r /\ n = mnt THEN d ELSE None]]

Shared == {"sgid", "u"}
Open == {"u", "go"}
OneMode == {Shared}
OldObjects == {r, d}
\* Bounds: the mapped directory has one name in use, the root keeps its own attributes,
\* and CREAT stands for MKNOD and SYMLINK, which treat sidecars in the same way.
Small ==
    /\ ent[d][n2] = None /\ ent[d][mnt] = None
    /\ \A t \in Threads : call[t].sidecar.name # DirSide /\ call[t].op \notin {"MKNOD", "SYMLINK"}

\* RegionsNext, with the bounds on what requests begin.
BoundedNext ==
    \/ Crash
    \/ \E t \in Threads : (Emulated(t) \/ Mapped(t)) /\ Small'
    \/ \E t \in Threads : Step(t) \/ SidecarFault(t)

BoundedSpec == Init /\ [][BoundedNext]_vars

Junk == {[uid |-> 2, gid |-> 2, mode |-> {"go"}]}
=============================================================================
