------------------------------ MODULE Messages ------------------------------
(***************************************************************************)
(* The requests and replies of include/erlent/erlent.hh.  A message is a   *)
(* record of its type and the values of its fields: numbers, strings       *)
(* (sequences of characters), the data of a READ or WRITE, and the names   *)
(* of a READDIR.                                                           *)
(***************************************************************************)
EXTENDS Integers, Sequences, FiniteSets

CONSTANTS
    Chars,          \* what strings and data are made of
    Numbers,        \* values of the numeric fields and results
    Junk            \* what memory holds that was never written

\* The numbers that stand for a type on the wire.
Message ==
    [GETATTR |-> 42, ACCESS |-> 43, READDIR |-> 44, READLINK |-> 45, MKNOD |-> 46,
     READ |-> 47, WRITE |-> 48, OPEN |-> 49, CREAT |-> 50, TRUNCATE |-> 51, CHMOD |-> 52,
     CHOWN |-> 53, MKDIR |-> 54, UNLINK |-> 55, RMDIR |-> 56, UTIMENS |-> 57,
     SYMLINK |-> 58, LINK |-> 59, RENAME |-> 60, STATFS |-> 61]

Types == DOMAIN Message

\* The fields of a request.
RequestFields ==
    [GETATTR |-> <<"path">>, ACCESS |-> <<"path", "acc">>,
     READDIR |-> <<"path">>, READLINK |-> <<"path">>,
     MKNOD |-> <<"path", "dev", "uid", "gid", "mode">>,
     READ |-> <<"path", "size", "offset">>,
     WRITE |-> <<"path", "size", "offset", "data">>,
     OPEN |-> <<"path", "mode", "flags">>, CREAT |-> <<"path", "uid", "gid", "mode">>,
     TRUNCATE |-> <<"path", "length">>, CHMOD |-> <<"path", "mode">>,
     CHOWN |-> <<"path", "uid", "gid">>, MKDIR |-> <<"path", "uid", "gid", "mode">>,
     UNLINK |-> <<"path">>, RMDIR |-> <<"path">>,
     UTIMENS |-> <<"path", "atime", "atimens", "mtime", "mtimens">>,
     SYMLINK |-> <<"path", "uid", "gid", "from">>,
     LINK |-> <<"path", "path2">>, RENAME |-> <<"path", "path2">>, STATFS |-> <<"path">>]

\* A RENAME is answered with the reply class of RMDIR.
replyType(ty) == IF ty = "RENAME" THEN "RMDIR" ELSE ty

\* What is sent of a struct stat and of a struct statvfs.
StatFields == <<"mode", "nlink", "uid", "gid", "rdev", "size", "atime", "mtime", "ctime">>
StatvfsFields ==
    <<"bsize", "frsize", "blocks", "bfree", "bavail", "files", "ffree", "favail", "fsid",
      "flag", "namemax">>

\* Every reply has a result; these have more.
ReplyFields(ty) ==
    <<"result">> \o
      CASE ty = "GETATTR" -> StatFields
        [] ty = "STATFS" -> StatvfsFields
        [] ty = "READDIR" -> <<"names">>
        [] ty = "READLINK" -> <<"target">>
        [] ty = "READ" -> <<"data">>
        [] OTHER -> <<>>

Kind(f) ==
    IF f \in {"path", "path2", "from", "target", "name"} THEN "string"
    ELSE IF f \in {"data", "names"} THEN f ELSE "number"

Values(f) ==
    CASE Kind(f) = "string" -> Seq(Chars)
      [] Kind(f) = "data" -> Seq(Chars \cup {Junk})
      [] Kind(f) = "names" -> Seq(Seq(Chars))
      [] OTHER -> Numbers

IsMessage(m, fields) ==
    /\ DOMAIN m.vals = {fields[i] : i \in DOMAIN fields}
    /\ \A f \in DOMAIN m.vals : m.vals[f] \in Values(f)

IsRequest(q) == q.type \in Types /\ IsMessage(q, RequestFields[q.type])

IsReply(a) == a.type \in Types /\ IsMessage(a, ReplyFields(a.type))

\* What a FUSE callback hands on: the names and the target of a link only on success.
delivered(a) ==
    IF a.type \in {"READDIR", "READLINK"} /\ a.vals.result # 0
    THEN [a EXCEPT !.vals = [result |-> @.result]]
    ELSE a

\* What m can become when the process that sends it ends: its data has no end.
Cut(m) ==
    LET spoilt(n) == [i \in DOMAIN m.vals.data |-> IF i > n THEN Junk ELSE m.vals.data[i]]
    IN  {[m EXCEPT !.vals.data = spoilt(n)] : n \in 0 .. Len(m.vals.data)}
=============================================================================
