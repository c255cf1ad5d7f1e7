-------------------------------- MODULE Rpc ---------------------------------
(***************************************************************************)
(* What a request to a remote server promises its client: the server       *)
(* performs the request the client asks for, at most once, and the client  *)
(* is given the reply to this request.  Either side may end; only data     *)
(* that was under way then can be damaged.                                 *)
(***************************************************************************)
EXTENDS Messages

CONSTANTS
    Requests,       \* what the client may ask
    Answers(_)      \* what performing a request may give

VARIABLES
    client,         \* "idle", "calling" or "ended"
    server,         \* "serving" or "ended"
    request,        \* the client's last request
    performed,      \* what the server made of it, <<>> before
    answer,         \* what came out, <<>> before
    result          \* what the client was given, <<>> before

vars == <<client, server, request, performed, answer, result>>

Init ==
    /\ client = "idle" /\ server = "serving"
    /\ request = <<>> /\ performed = <<>> /\ answer = <<>> /\ result = <<>>

MayBe(m, type, cut) == {m} \cup IF m.type = type /\ cut THEN Cut(m) ELSE {}

Call ==
    /\ client = "idle"
    /\ client' = "calling"
    /\ request' \in Requests
    /\ performed' = <<>> /\ answer' = <<>> /\ result' = <<>>
    /\ UNCHANGED server

Perform ==
    /\ server = "serving"
    /\ request # <<>> /\ performed = <<>>
    /\ performed' \in MayBe(request, "WRITE", client = "ended")
    /\ answer' \in Answers(request)
    /\ UNCHANGED <<client, server, request, result>>

Return ==
    /\ client = "calling"
    /\ answer # <<>>
    /\ result' \in {delivered(a) : a \in MayBe(answer, "READ", server = "ended")}
    /\ client' = "idle"
    /\ UNCHANGED <<server, request, performed, answer>>

EndClient ==
    /\ client # "ended"
    /\ client' = "ended"
    /\ UNCHANGED <<server, request, performed, answer, result>>

EndServer ==
    /\ server # "ended"
    /\ server' = "ended"
    /\ UNCHANGED <<client, request, performed, answer, result>>

Next == Call \/ Perform \/ Return \/ EndClient \/ EndServer

Spec == Init /\ [][Next]_vars
=============================================================================
