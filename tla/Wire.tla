-------------------------------- MODULE Wire --------------------------------
(***************************************************************************)
(* Requests to a remote server: RemoteRequestProcessor (fuse/main.cc), the *)
(* FUSE callbacks that call it (fuse.cc), the encoding of messages         *)
(* (erlent.cc, erlent.hh) and the server's loop (server/main.cc).  The     *)
(* server starts the client and is joined to it by two pipes.  A stream is *)
(* a sequence of tokens: a number with its end mark, or one character.     *)
(***************************************************************************)
EXTENDS Messages, SequencesExt

CONSTANTS
    Ops,            \* calls of the file system: [type, vals]
    Contexts,       \* who makes them: [uid, gid]
    Errnos,         \* errors of system calls
    Contents,       \* data of files
    Listings,       \* sequences of names in a directory
    Targets,        \* targets of symbolic links
    Stats,          \* what lstat and statvfs return, as a number for every field
    Cap,            \* tokens a pipe holds
    Garbled,        \* what readnum makes of bytes that are no number
    Statuses,       \* exit codes of the client's command
    Faults          \* which of "client" and "server" may be killed

\* Ways to end that are no exit code.
Signalled == 1000
Sigpipe == 1001

ASSUME WireAssumption ==
    /\ Cap \in Nat \ {0}
    /\ Errnos \subseteq Nat \ {0}
    /\ Faults \subseteq {"client", "server"}
    /\ Garbled \notin {Message[ty] : ty \in Types}
    /\ Statuses \subseteq 0 .. 255

VARIABLES
    client,         \* [at, out, in, code]: "idle", "send", "receive" or "ended"
    server,         \* [at, out, in, code]: "read", "perform", "send", "wait" or "ended"
    up, down,       \* the pipes to and from the server
    request, performed, answer, result  \* of the last call, as in Rpc

vars == <<client, server, up, down, request, performed, answer, result>>
-----------------------------------------------------------------------------
(* The file system's calls as requests, and what performing one may give.  *)

Creating == {"MKDIR", "CREAT", "MKNOD", "SYMLINK"}

FuseRequest(op, ctx) ==
    [type |-> op.type,
     vals |-> op.vals @@ IF op.type \in Creating THEN ctx
                         ELSE IF op.type = "OPEN" THEN [mode |-> 0] ELSE <<>>]

Requests == {FuseRequest(op, ctx) : op \in Ops, ctx \in Contexts}

\* Callbacks hand on what is in their parameters, and a buffer with its size.
ASSUME RequestAssumption ==
    \A q \in Requests :
        /\ IsRequest(q) /\ q = [type |-> q.type, vals |-> [f \in DOMAIN q.vals |-> q.vals[f]]]
        /\ q.type = "WRITE" => q.vals.size = Len(q.vals.data) /\ 0 .. q.vals.size \subseteq Numbers

Fail == {-e : e \in Errnos}

\* The fields a failing call does not set are sent all the same.
StatReplies(ty) ==
    LET fields == {ReplyFields(ty)[i] : i \in DOMAIN ReplyFields(ty)}
    IN  {[f \in fields |-> IF f = "result" THEN r ELSE s[f]] : r \in Fail \cup {0}, s \in Stats}

\* readdir can fail after some names.
ReaddirReplies ==
    [result : Fail, names : Listings \cup {<<>>}] \cup [result : {0}, names : Listings]

ReadlinkReplies == [result : Fail, target : {<<>>}] \cup [result : {0}, target : Targets]

ReadReplies(size) ==
    [result : Fail, data : {<<>>}]
      \cup {[result |-> Len(d), data |-> d] : d \in {c \in Contents : Len(c) =< size}}

WriteReplies(size) == [result : Fail \cup 0 .. size]

\* One system call that gives nothing but its result.
CallReplies == [result : Fail \cup {0}]

\* What system calls return has the type of the field that it is sent in.
ASSUME AnswerAssumption ==
    /\ Numbers \subseteq Int /\ Fail \cup {0} \subseteq Numbers
    /\ Contents \subseteq Seq(Chars) /\ \A d \in Contents : Len(d) \in Numbers
    /\ Listings \subseteq Seq(Seq(Chars)) /\ Targets \subseteq Seq(Chars)
    /\ \A s \in Stats : \A i \in DOMAIN StatFields : s[StatFields[i]] \in Numbers
    /\ \A s \in Stats : \A i \in DOMAIN StatvfsFields : s[StatvfsFields[i]] \in Numbers

performLocally(q) ==
    {[type |-> replyType(q.type), vals |-> v] : v \in
        CASE q.type \in {"GETATTR", "STATFS"} -> StatReplies(q.type)
          [] q.type = "READDIR" -> ReaddirReplies
          [] q.type = "READLINK" -> ReadlinkReplies
          [] q.type = "READ" -> ReadReplies(q.vals.size)
          [] q.type = "WRITE" -> WriteReplies(q.vals.size)
          [] OTHER -> CallReplies}
-----------------------------------------------------------------------------
(* Encoding. *)

writenum(n) == <<[num |-> n]>>

Raw(s) == [i \in DOMAIN s |-> [char |-> s[i]]]

writestr(s) == writenum(Len(s)) \o Raw(s)

WriteField(f, v) ==
    CASE Kind(f) = "string" -> writestr(v)
      [] Kind(f) = "data" -> Raw(v)
      [] Kind(f) = "names" -> writenum(Len(v)) \o FlattenSeq([i \in DOMAIN v |-> writestr(v[i])])
      [] OTHER -> writenum(v)

serialize(m, fields) ==
    writenum(Message[m.type])
      \o FlattenSeq([i \in DOMAIN fields |-> WriteField(fields[i], m.vals[fields[i]])])
-----------------------------------------------------------------------------
(* Decoding, one token at a time.  A reader has read the type, is at       *)
(* Head(todo), and wants a number or some characters.                      *)

ANumber == -1

freshReader(len) ==
    [type |-> "none", todo |-> <<>>, want |-> ANumber, part |-> <<>>, vals |-> <<>>, len |-> len]

\* Mutant: chown's deserialize reads the ids in the order of their names.
DeserializeFieldsSwapped(ty) ==
    IF ty = "CHOWN" THEN <<"path", "gid", "uid">> ELSE RequestFields[ty]

\* Mutant: symlink's deserialize forgets the ids that serialize has written.
DeserializeFieldsShort(ty) ==
    IF ty = "SYMLINK" THEN <<"path", "from">> ELSE RequestFields[ty]

DeserializeFields(ty) == RequestFields[ty]

Complete(r) == r.type # "none" /\ r.todo = <<>>

\* Mutant: the client's buffer must be larger than what was read.
dataLenBelow(r) ==
    IF r.type = "WRITE" THEN r.vals.size
    ELSE IF r.vals.result > 0 /\ r.vals.result < r.len THEN r.vals.result ELSE 0

dataLen(r) ==
    IF r.type = "WRITE" THEN r.vals.size
    ELSE IF r.vals.result > 0 /\ r.vals.result =< r.len THEN r.vals.result ELSE 0

\* r at the start of an item, with the values vals.
reading(r, todo, want, vals) ==
    [type |-> r.type, todo |-> todo, want |-> want, part |-> <<>>, vals |-> vals, len |-> r.len]

With(vals, f, v) == [g \in DOMAIN vals \cup {f} |-> IF g = f THEN v ELSE vals[g]]

\* The item at Head(todo) is v; data begins without a length of its own.
finish(r, v) ==
    LET todo == Tail(r.todo)
        vals == IF Head(r.todo) = "name" THEN With(r.vals, "names", Append(r.vals.names, v))
                ELSE With(r.vals, Head(r.todo), v)
        next == reading(r, todo, ANumber, vals)
    IN  IF todo = <<>> \/ Head(todo) # "data" THEN next
        ELSE IF dataLen(next) > 0 THEN reading(r, todo, dataLen(next), vals)
        ELSE reading(r, <<>>, ANumber, With(vals, "data", <<>>))

IsNumber(tk) == "num" \in DOMAIN tk

\* A number ends at its end mark; what is no digit before it spoils it.
readnum(r, tk) == IF r.part = <<>> THEN tk.num ELSE Garbled

readchar(r, tk) ==
    LET part == Append(r.part, IF IsNumber(tk) THEN Garbled ELSE tk.char)
    IN  IF Len(part) = r.want THEN finish(r, part) ELSE [r EXCEPT !.part = part]

readfield(r, n) ==
    CASE Kind(Head(r.todo)) = "string" ->
           IF n > 0 THEN reading(r, r.todo, n, r.vals) ELSE finish(r, <<>>)
      [] Kind(Head(r.todo)) = "names" ->
           reading(r, [i \in 1 .. n |-> "name"] \o Tail(r.todo), ANumber,
                   With(r.vals, "names", <<>>))
      [] OTHER -> finish(r, n)

Unknown(r) == r.type = "unknown"

\* The next token, by a reader of messages of the types in the domain of fieldsOf.
take(r, tk, fieldsOf) ==
    IF r.want # ANumber THEN readchar(r, tk)
    ELSE IF ~IsNumber(tk) THEN [r EXCEPT !.part = Append(@, tk.char)]
    ELSE IF r.type # "none" THEN readfield(r, readnum(r, tk))
    ELSE LET ofType == {ty \in DOMAIN fieldsOf : Message[ty] = readnum(r, tk)}
         IN  IF ofType = {} THEN [r EXCEPT !.type = "unknown"]
             ELSE LET ty == CHOOSE t \in ofType : TRUE
                  IN  [reading(r, fieldsOf[ty], ANumber, <<>>) EXCEPT !.type = ty]

\* At the end of the stream only data is completed, by what memory held.
InData(r) == r.want # ANumber /\ Head(r.todo) = "data"

Torn(r) == finish(r, [i \in 1 .. r.want |-> IF i =< Len(r.part) THEN r.part[i] ELSE Junk])

message(r) == [type |-> r.type, vals |-> r.vals]
-----------------------------------------------------------------------------
Init ==
    /\ client = [at |-> "idle", out |-> <<>>, in |-> freshReader(0), code |-> 0]
    /\ server = [at |-> "read", out |-> <<>>, in |-> freshReader(0), code |-> 0]
    /\ up = <<>> /\ down = <<>>
    /\ request = <<>> /\ performed = <<>> /\ answer = <<>> /\ result = <<>>

Ended(p) == p.at = "ended"

End(p, code) == [p EXCEPT !.at = "ended", !.code = code]

\* A callback is called: process() serializes its request.
Call ==
    /\ client.at = "idle"
    /\ request' \in Requests
    /\ client' = [client EXCEPT !.at = "send",
                                !.out = serialize(request', RequestFields[request'.type]),
                                !.in = freshReader(IF request'.type = "READ"
                                                   THEN request'.vals.size ELSE 0)]
    /\ performed' = <<>> /\ answer' = <<>> /\ result' = <<>>
    /\ UNCHANGED <<server, up, down>>

\* A failed write makes the stream drop the rest.  FUSE ignores SIGPIPE.
SendUp ==
    /\ client.at = "send"
    /\ LET rest == IF Ended(server) THEN <<>> ELSE Tail(client.out)
       IN  /\ client' = [client EXCEPT !.out = rest,
                                       !.at = IF rest = <<>> THEN "receive" ELSE "send"]
           /\ IF Ended(server) THEN UNCHANGED up
              ELSE Len(up) < Cap /\ up' = Append(up, Head(client.out))
    /\ UNCHANGED <<server, down, request, performed, answer, result>>

\* Reply::receive stops the client at a reply of another type.
ReadDown ==
    /\ client.at = "receive" /\ ~Complete(client.in)
    /\ down # <<>>
    /\ LET r == take(client.in, Head(down),
                    [ty \in {replyType(request.type)} |-> ReplyFields(ty)])
       IN  client' = IF Unknown(r) THEN End(client, 1) ELSE [client EXCEPT !.in = r]
    /\ down' = Tail(down)
    /\ UNCHANGED <<server, up, request, performed, answer, result>>

\* Mutant: readnum does not look for the end of the stream.
EofDownUnseen ==
    /\ client.at = "receive" /\ ~Complete(client.in)
    /\ down = <<>> /\ Ended(server)
    /\ InData(client.in)
    /\ client' = [client EXCEPT !.in = Torn(@)]
    /\ UNCHANGED <<server, up, down, request, performed, answer, result>>

\* EofException leaves the callback: the client is aborted.
EofDown ==
    /\ client.at = "receive" /\ ~Complete(client.in)
    /\ down = <<>> /\ Ended(server)
    /\ client' = IF InData(client.in) THEN [client EXCEPT !.in = Torn(@)]
                 ELSE End(client, Signalled)
    /\ UNCHANGED <<server, up, down, request, performed, answer, result>>

Return ==
    /\ client.at = "receive" /\ Complete(client.in)
    /\ result' = delivered(message(client.in))
    /\ client' = [client EXCEPT !.at = "idle", !.in = freshReader(0)]
    /\ UNCHANGED <<server, up, down, request, performed, answer>>

\* The command has ended and the file system is unmounted.
Quit ==
    /\ client.at = "idle"
    /\ \E code \in Statuses : client' = End(client, code)
    /\ UNCHANGED <<server, up, down, request, performed, answer, result>>

ClientDies ==
    /\ "client" \in Faults
    /\ ~Ended(client)
    /\ client' = End(client, Signalled)
    /\ UNCHANGED <<server, up, down, request, performed, answer, result>>

\* Request::receive stops the server at an unknown type.
ReadUp ==
    /\ server.at = "read"
    /\ up # <<>>
    /\ LET r == take(server.in, Head(up), [ty \in Types |-> DeserializeFields(ty)])
       IN  server' = IF Unknown(r) THEN End(server, 1)
                     ELSE [server EXCEPT !.in = r,
                                         !.at = IF Complete(r) THEN "perform" ELSE "read"]
    /\ up' = Tail(up)
    /\ UNCHANGED <<client, down, request, performed, answer, result>>

\* Mutant: the loop goes on at the end of the stream.
EofUpAgain ==
    /\ server.at = "read"
    /\ up = <<>> /\ Ended(client)
    /\ server' = IF InData(server.in) THEN [server EXCEPT !.in = Torn(@), !.at = "perform"]
                 ELSE [server EXCEPT !.in = freshReader(0)]
    /\ UNCHANGED <<client, up, down, request, performed, answer, result>>

\* EofException ends the loop; a request with some of its data missing is performed.
EofUp ==
    /\ server.at = "read"
    /\ up = <<>> /\ Ended(client)
    /\ server' = IF InData(server.in) THEN [server EXCEPT !.in = Torn(@), !.at = "perform"]
                 ELSE [server EXCEPT !.at = "wait"]
    /\ UNCHANGED <<client, up, down, request, performed, answer, result>>

Perform ==
    /\ server.at = "perform"
    /\ performed' = message(server.in)
    /\ answer' \in performLocally(performed')
    /\ server' = [server EXCEPT !.at = "send",
                                !.out = serialize(answer', ReplyFields(answer'.type))]
    /\ UNCHANGED <<client, up, down, request, result>>

\* A client that is gone costs the server its life: nobody ignores SIGPIPE here.
SendDown ==
    /\ server.at = "send"
    /\ IF Ended(client)
       THEN server' = End(server, Sigpipe) /\ UNCHANGED down
       ELSE /\ Len(down) < Cap
            /\ down' = Append(down, Head(server.out))
            /\ server' = IF Tail(server.out) = <<>>
                         THEN [server EXCEPT !.out = <<>>, !.at = "read", !.in = freshReader(0)]
                         ELSE [server EXCEPT !.out = Tail(@)]
    /\ UNCHANGED <<client, up, request, performed, answer, result>>

\* Mutant: the status is returned as waitpid gives it.
WaitRaw ==
    /\ server.at = "wait"
    /\ Ended(client)
    /\ server' = End(server, IF client.code = Signalled THEN 127 ELSE (client.code * 256) % 256)
    /\ UNCHANGED <<client, up, down, request, performed, answer, result>>

Wait ==
    /\ server.at = "wait"
    /\ Ended(client)
    /\ server' = End(server, IF client.code = Signalled THEN 127 ELSE client.code)
    /\ UNCHANGED <<client, up, down, request, performed, answer, result>>

ServerDies ==
    /\ "server" \in Faults
    /\ ~Ended(server)
    /\ server' = End(server, Signalled)
    /\ UNCHANGED <<client, up, down, request, performed, answer, result>>

ClientStep == SendUp \/ ReadDown \/ EofDown \/ Return

ServerStep == ReadUp \/ EofUp \/ Perform \/ SendDown \/ Wait

Next == Call \/ ClientStep \/ Quit \/ ClientDies \/ ServerStep \/ ServerDies

Spec == Init /\ [][Next]_vars

\* The kernel runs a process that can run; reads and writes that can go on return.
FairSpec == Spec /\ WF_vars(ClientStep) /\ WF_vars(ServerStep)
-----------------------------------------------------------------------------
=============================================================================
