---------------------------- MODULE MCMapOptions ----------------------------
(* Arguments and files for the id mapping options; the 16 values of an id   *)
(* leave 15 for "no change" and 14 for nobody, and sums wrap at 32.         *)
EXTENDS Creds

M(i, o, c) == [innerID |-> i, outerID |-> o, count |-> c]

\* Single, overlapping inside, overlapping outside, empty, reaching nobody,
\* and one whose upper end wraps around.
MCOptMappings == {M(0, 3, 1), M(1, 3, 1), M(0, 4, 3), M(2, 9, 2), M(5, 5, 2), M(4, 12, 0),
                  M(8, 8, 7), M(6, 30, 4), M(9, 1, 5)}

\* As well an inner id that needs more bits than a uid_t has.
MCWideMappings == MCOptMappings \cup {M(21, 3, 1)}

L(mine, outer, count) == [mine |-> mine, outer |-> outer, count |-> count]
MCSubUid == <<L(FALSE, 1, 8), L(TRUE, 2, 3), L(TRUE, 5, 9)>>
MCSubGid == <<L(TRUE, 6, 6)>>
=============================================================================
