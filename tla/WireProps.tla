----------------------------- MODULE WireProps ------------------------------
(* What the remote protocol promises. *)
EXTENDS Wire

Code == 0 .. 255 \cup {Signalled, Sigpipe}

IsReader(r) ==
    /\ r.type \in Types \cup {"none"}
    /\ \A i \in DOMAIN r.todo : r.todo[i] \notin DOMAIN r.vals
    /\ r.want = ANumber \/ (r.want > Len(r.part) /\ r.todo # <<>>)
    /\ \A f \in DOMAIN r.vals : r.vals[f] \in Values(f)

\* Every process is where it can be, a message in a reader is well-formed as soon as it is
\* complete, and the server only performs complete requests (Request::receive,
\* erlent.cc:89-132; Reply::receive, erlent.cc:134-160).
TypeOK ==
    /\ client.at \in {"idle", "send", "receive", "ended"} /\ client.code \in Code
    /\ server.at \in {"read", "perform", "send", "wait", "ended"} /\ server.code \in Code
    /\ Len(up) =< Cap /\ Len(down) =< Cap
    /\ client.at = "receive" /\ Complete(client.in) => IsReply(message(client.in))
    /\ server.at = "perform" => IsRequest(message(server.in))
    /\ IsReader(client.in) /\ IsReader(server.in)
    /\ request = <<>> \/ IsRequest(request)
    /\ performed = <<>> \/ IsRequest(performed)
    /\ answer = <<>> \/ IsReply(answer)
    /\ client.at = "send" => client.out # <<>>
    /\ server.at = "send" => server.out # <<>>

Remote == INSTANCE Rpc WITH
    Answers <- performLocally,
    client <- IF client.at \in {"idle", "ended"} THEN client.at ELSE "calling",
    server <- IF Ended(server) THEN "ended" ELSE "serving"

\* The server performs the very request the callback made, at most once, and the callback
\* gets the reply to this request; only a process that ends can damage data under way
\* (serialize and deserialize of every message, erlent.cc:148-626, erlent.hh:130-577;
\* processMessage, server/main.cc:16-25; process, fuse/main.cc:31-48).
ImplementsRpc == Remote!Spec

\* Between calls nothing is left in the pipes or half read, so that the next reply belongs
\* to the next request (erlent.cc:333-347 writes as many bytes as the reader takes).
InSync ==
    client.at = "idle" /\ ~Ended(server) =>
        /\ up = <<>> /\ down = <<>>
        /\ server.at = "read" /\ server.in = freshReader(0) /\ server.out = <<>>

\* A callback returns or its process ends, whatever becomes of the server
\* (EofException, erlent.cc:31-38; nobody waits for a full pipe for ever).
EveryCallEnds == client.at \in {"send", "receive"} ~> client.at \in {"idle", "ended"}

\* The server ends after its client (server/main.cc:101-119).
ServerFollows == Ended(client) ~> Ended(server)

\* A client that ends between calls hands its exit status on through the server, which
\* then never is in the middle of a reply (server/main.cc:110-118).
StatusPassed ==
    Ended(server) /\ client.code \in Statuses /\ Ended(client) /\ server.code # Signalled =>
        server.code = client.code
=============================================================================
