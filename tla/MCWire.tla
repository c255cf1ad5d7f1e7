------------------------------- MODULE MCWire -------------------------------
(* Constants for WireProps: one call of every kind, and data of every length up to 2. *)
EXTENDS WireProps

P == <<"/", "a">>
Q == <<"/">>

Op(ty, vals) == [type |-> ty, vals |-> vals]

\* Every number of a message differs from the others, so that none can pass for another.
MCOps ==
    {Op(ty, [path |-> P]) : ty \in {"GETATTR", "READDIR", "READLINK", "UNLINK", "RMDIR", "STATFS"}}
      \cup {Op(ty, [path |-> P, path2 |-> Q]) : ty \in {"LINK", "RENAME"}}
      \cup {Op("READ", [path |-> P, size |-> n, offset |-> 7]) : n \in 0 .. 2}
      \cup {Op("WRITE", [path |-> P, size |-> Len(d), offset |-> 7, data |-> d]) :
              d \in {<<>>, <<"a">>, <<"b", "a">>}}
      \cup {Op("ACCESS", [path |-> P, acc |-> 4]),
            Op("MKNOD", [path |-> P, dev |-> 3, mode |-> 5]),
            Op("OPEN", [path |-> P, flags |-> 6]),
            Op("CREAT", [path |-> P, mode |-> 5]),
            Op("TRUNCATE", [path |-> P, length |-> 8]),
            Op("CHMOD", [path |-> P, mode |-> 5]),
            Op("CHOWN", [path |-> P, uid |-> 1, gid |-> 2]),
            Op("MKDIR", [path |-> P, mode |-> 5]),
            Op("UTIMENS", [path |-> P, atime |-> 1, atimens |-> 2, mtime |-> 3, mtimens |-> 4]),
            Op("SYMLINK", [path |-> P, from |-> <<"b", "b">>])}

MCContexts == {[uid |-> 1, gid |-> 2]}

MCContents == {<<>>, <<"a">>, <<"a", "b">>}
MCListings == {<<>>, <<<<"a">>, <<>>, <<"b", "a">>>>}
MCTargets == {<<"b", "a">>}

AllFields == StatFields \o StatvfsFields

MCStats == {[f \in {AllFields[i] : i \in DOMAIN AllFields} |->
               CHOOSE i \in DOMAIN AllFields : AllFields[i] = f]}

MCNumbers == -99 .. 99
MCGarbled == -99
=============================================================================
