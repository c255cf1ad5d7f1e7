----------------------------- MODULE MCEmuAttr -----------------------------
(* Instances of the attribute emulation for TLC. *)
EXTENDS EmuAttrProps

CONSTANTS r, d, f, g, n1, n2, t1, t2

\* Inner ids 0..2 are host ids 4..6; inner 5 is host id 8.
MCMap == <<[innerID |-> 0, outerID |-> 4, count |-> 3],
           [innerID |-> 5, outerID |-> 8, count |-> 1]>>

\* A new, empty directory.
EmptyTree == [x \in Dirs |-> [n \in Entries |-> None]]

\* A directory that held the file f before erlent was started on it.
OldTree == [EmptyTree EXCEPT ![r][n1] = f]

Shared == {"sgid", "u"}
Open == {"u", "go"}
TwoModes == {Shared, Open}
OneMode == {Shared}
OldObjects == {r, f}
NewObjects == {r}
Junk == {[uid |-> 2, gid |-> 2, mode |-> {"go"}]}
=============================================================================
