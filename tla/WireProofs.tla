----------------------------- MODULE WireProofs -----------------------------
(***************************************************************************)
(* What WireProps promises holds for every choice of the constants: the    *)
(* types, that the two processes keep in step, and that the protocol does  *)
(* what Rpc says.  A reader of a message is always ahead of exactly the    *)
(* tokens of this message that it has not read.                            *)
(***************************************************************************)
EXTENDS WireProps, WellFoundedInduction, SequenceTheorems, TLAPS

Tokens == [num : Int] \cup [char : Chars \cup {Junk}]

Elements(s) == {s[i] : i \in DOMAIN s}

\* Lists of fields that can be read: data and names come last.
Proper(fields) ==
    /\ fields \in Seq(Elements(fields))
    /\ \A i \in DOMAIN fields :
           /\ fields[i] # "name"
           /\ fields[i] \in {"data", "names"} => i = Len(fields)
           /\ \A j \in DOMAIN fields : fields[i] = fields[j] => i = j

Fields(m, fields) ==
    FlattenSeq([i \in DOMAIN fields |-> WriteField(fields[i], m.vals[fields[i]])])

NamesOf(names) == FlattenSeq([i \in DOMAIN names |-> writestr(names[i])])

\* The value the reader r of m is at, and the tokens that come after it.
Value(r, m) ==
    IF Head(r.todo) = "name" THEN m.vals.names[Len(r.vals.names) + 1] ELSE m.vals[Head(r.todo)]

After(r, m) ==
    IF Head(r.todo) = "name"
    THEN NamesOf(SubSeq(m.vals.names, Len(r.vals.names) + 2, Len(m.vals.names)))
    ELSE Fields(m, Tail(r.todo))

ToCome(r, m, fields) ==
    IF r.type = "none" THEN serialize(m, fields)
    ELSE IF r.todo = <<>> THEN <<>>
    ELSE IF r.want = ANumber THEN WriteField(Head(r.todo), Value(r, m)) \o After(r, m)
    ELSE Raw(SubSeq(Value(r, m), Len(r.part) + 1, r.want)) \o After(r, m)

AtFields(r, m) ==
    /\ Proper(r.todo)
    /\ Elements(r.todo) \subseteq DOMAIN m.vals
    /\ r.vals = [f \in DOMAIN r.vals |-> r.vals[f]]
    /\ DOMAIN r.vals = DOMAIN m.vals \ Elements(r.todo)
    /\ \A f \in DOMAIN r.vals : r.vals[f] = m.vals[f]

AtNames(r, m) ==
    /\ r.todo \in Seq({"name"}) /\ r.todo # <<>>
    /\ DOMAIN r.vals = DOMAIN m.vals /\ "names" \in DOMAIN m.vals
    /\ \A f \in DOMAIN r.vals \ {"names"} : r.vals[f] = m.vals[f]
    /\ r.vals.names \in Seq(Seq(Chars))
    /\ Len(r.vals.names) + Len(r.todo) = Len(m.vals.names)
    /\ \A i \in DOMAIN r.vals.names : r.vals.names[i] = m.vals.names[i]

AtItem(r, m) ==
    IF r.want = ANumber THEN r.part = <<>> /\ (r.todo = <<>> \/ Head(r.todo) # "data")
    ELSE /\ r.todo # <<>> /\ Kind(Head(r.todo)) \in {"string", "data"}
         /\ r.want = Len(Value(r, m))
         /\ r.part \in Seq(Chars \cup {Junk}) /\ Len(r.part) < r.want
         /\ \A i \in DOMAIN r.part : r.part[i] = Value(r, m)[i]

\* What r has read is what m begins with, if it has read something.
Midway(r, m) ==
    /\ r = [type |-> r.type, todo |-> r.todo, want |-> r.want, part |-> r.part,
            vals |-> r.vals, len |-> r.len]
    /\ r.type = m.type
    /\ AtFields(r, m) \/ AtNames(r, m)
    /\ AtItem(r, m)

Reads(r, m) == r = freshReader(r.len) \/ Midway(r, m)

Starts(s, t) == Len(s) =< Len(t) /\ \A i \in DOMAIN s : s[i] = t[i]

\* What p has still to send is in the pipe or in its buffer; what it had to send is lost.
Carries(pipe, p, tokens) == IF Ended(p) THEN Starts(pipe, tokens) ELSE tokens = pipe \o p.out

IsProcess(p, ats) ==
    /\ p = [at |-> p.at, out |-> p.out, in |-> p.in, code |-> p.code]
    /\ p.at \in ats /\ p.out \in Seq(Tokens) /\ IsReader(p.in) /\ p.code \in Code

Typed ==
    /\ IsProcess(client, {"idle", "send", "receive", "ended"})
    /\ IsProcess(server, {"read", "perform", "send", "wait", "ended"})
    /\ up \in Seq(Tokens) /\ Len(up) =< Cap
    /\ down \in Seq(Tokens) /\ Len(down) =< Cap
    /\ request \in Requests \cup {<<>>}
    /\ performed = <<>> <=> answer = <<>>
    /\ performed # <<>> => request # <<>> /\ IsRequest(performed)
    /\ answer # <<>> => answer \in performLocally(request)

\* The client asks for something that is not performed yet.
Pending == request # <<>> /\ performed = <<>>

Asking ==
    /\ server.at = "read" =>
        IF Pending
        THEN /\ Reads(server.in, request)
             /\ Carries(up, client, ToCome(server.in, request, RequestFields[request.type]))
        ELSE server.in = freshReader(0) /\ up = <<>>
    /\ server.at = "perform" =>
        /\ Pending /\ up = <<>> /\ client.at \in {"receive", "ended"}
        /\ message(server.in) \in Remote!MayBe(request, "WRITE", Ended(client))
    /\ server.at = "send" =>
        performed # <<>> /\ up = <<>> /\ server.out # <<>> /\ client.at \in {"receive", "ended"}
    /\ server.at = "wait" => Ended(client)
    /\ server.at \in {"read", "perform", "wait"} => server.out = <<>>

\* The length of the buffer that a reply may fill.
RoomFor(q) == IF q.type = "READ" THEN q.vals.size ELSE 0

Answering ==
    /\ client.at = "idle" => down = <<>> /\ ~Pending /\ server.at \in {"read", "ended"}
    /\ client.at = "send" => Pending /\ client.out # <<>> /\ server.at \in {"read", "ended"}
    /\ client.at \in {"idle", "receive"} => client.out = <<>>
    /\ client.at = "receive" => request # <<>>
    /\ client.at \in {"send", "receive"} /\ Pending => client.in = freshReader(RoomFor(request)) /\ down = <<>>
    /\ client.at = "receive" /\ ~Pending =>
        \/ /\ Reads(client.in, answer) /\ client.in.len = RoomFor(request)
           /\ Carries(down, server, ToCome(client.in, answer, ReplyFields(answer.type)))
        \/ /\ Ended(server) /\ down = <<>> /\ Complete(client.in)
           /\ message(client.in) \in Remote!MayBe(answer, "READ", TRUE)

Ending ==
    /\ Ended(server) /\ ~Ended(client) => server.code = Signalled
    /\ Ended(client) /\ client.code # Signalled =>
        IF Ended(server) THEN server.code \in {Signalled, client.code}
        ELSE server.at = "wait" \/ (server.at = "read" /\ ~Pending)

Inv == Typed /\ Asking /\ Answering /\ Ending
-----------------------------------------------------------------------------

(* FlattenSeq, a recursive function on the positions of its argument. *)

LEMMA LeastNumber ==
    ASSUME NEW S \in SUBSET Nat, S # {}
    PROVE  \E i \in S : \A j \in S : ~(j < i)
<1> DEFINE R == OpToRel(<, Nat)
<1>1. IsWellFoundedOn(R, Nat)
  BY NatLessThanWellFounded
<1>2. \A i, j \in Nat : <<j, i>> \in R <=> j < i
  BY DEF OpToRel
<1> HIDE DEF R
<1>3. S \subseteq Nat
  OBVIOUS
<1>4. \E i \in S : \A j \in S : ~(<<j, i>> \in R)
  BY <1>1, <1>3, WFMin, Zenon
<1> QED
  BY <1>2, <1>4

\* flat[i] is what the first i elements of s are together.
Flat(s, n, flat) ==
    \A i \in 1 .. n : flat[i] = IF i = 1 THEN s[i] ELSE flat[i - 1] \o s[i]

LEMMA FlatExists ==
    ASSUME NEW S, NEW s \in Seq(Seq(S))
    PROVE  \A n \in 1 .. Len(s) : \E flat \in [1 .. n -> Seq(S)] : Flat(s, n, flat)
<1> SUFFICES ASSUME NEW k \in 1 .. Len(s), ~ \E flat \in [1 .. k -> Seq(S)] : Flat(s, k, flat)
             PROVE  FALSE
  OBVIOUS
<1> DEFINE B == {i \in 1 .. Len(s) : ~ \E flat \in [1 .. i -> Seq(S)] : Flat(s, i, flat)}
<1>1. B \in SUBSET Nat /\ B # {}
  OBVIOUS
<1>2. PICK n \in B : \A j \in B : ~(j < n)
  BY <1>1, LeastNumber
<1>3. n \in 1 .. Len(s) /\ ~ \E flat \in [1 .. n -> Seq(S)] : Flat(s, n, flat)
  BY <1>2
<1>4. \A i \in 1 .. Len(s) : s[i] \in Seq(S)
  OBVIOUS
<1>n. n \in Nat \ {0} /\ Len(s) \in Nat /\ n =< Len(s)
  BY <1>3
<1>5. CASE n = 1
  <2>1. [i \in 1 .. n |-> s[i]] \in [1 .. n -> Seq(S)]
    BY <1>3, <1>4
  <2>2. Flat(s, n, [i \in 1 .. n |-> s[i]])
    BY <1>3, <1>5 DEF Flat
  <2> QED
    BY <1>3, <2>1, <2>2
<1>6. CASE n # 1
  <2>1. n - 1 \in 1 .. Len(s) /\ n - 1 < n /\ n - 1 \notin B
    <3>1. n - 1 \in 1 .. Len(s) /\ n - 1 < n
      BY <1>n, <1>6
    <3> HIDE DEF B
    <3> QED
      BY <1>2, <3>1
  <2>2. PICK g \in [1 .. n - 1 -> Seq(S)] : Flat(s, n - 1, g)
    BY <2>1
  <2> DEFINE f == [i \in 1 .. n |-> IF i = n THEN g[n - 1] \o s[n] ELSE g[i]]
  <2>3. g[n - 1] \in Seq(S) /\ s[n] \in Seq(S)
    BY <1>3, <1>4, <2>1, <2>2
  <2>4. g[n - 1] \o s[n] \in Seq(S)
    BY <2>3, ConcatProperties
  <2>5. f \in [1 .. n -> Seq(S)]
    BY <1>3, <2>2, <2>4
  <2>6. \A i \in 1 .. n - 1 : f[i] = g[i] /\ (i # 1 => f[i - 1] = g[i - 1])
    <3>1. \A i \in 1 .. n - 1 :
            i \in 1 .. n /\ i # n /\ (i # 1 => i - 1 \in 1 .. n /\ i - 1 # n)
      BY <1>n
    <3> QED
      BY <3>1
  <2>7. f[n] = f[n - 1] \o s[n]
    <3>1. n \in 1 .. n /\ n - 1 \in 1 .. n /\ n - 1 # n
      BY <1>n, <1>6
    <3>2. f[n] = g[n - 1] \o s[n] /\ f[n - 1] = g[n - 1]
      BY <3>1
    <3> QED
      BY <3>2
  <2> HIDE DEF f
  <2>8. \A i \in 1 .. n : i = n \/ i \in 1 .. n - 1
    BY <1>3
  <2>9. Flat(s, n, f)
    BY <1>6, <2>2, <2>6, <2>7, <2>8 DEF Flat
  <2> QED
    BY <1>3, <2>5, <2>9
<1> QED
  BY <1>5, <1>6

LEMMA FlatUnique ==
    ASSUME NEW s, NEW n \in Nat, NEW f, NEW g, Flat(s, n, f), Flat(s, n, g)
    PROVE  \A i \in 1 .. n : f[i] = g[i]
<1> SUFFICES ASSUME NEW k \in 1 .. n, f[k] # g[k]
             PROVE  FALSE
  OBVIOUS
<1> DEFINE B == {i \in 1 .. n : f[i] # g[i]}
<1>1. B \in SUBSET Nat /\ B # {}
  OBVIOUS
<1>2. PICK i \in B : \A j \in B : ~(j < i)
  BY <1>1, LeastNumber
<1>3. i = 1 \/ (i - 1 \in 1 .. n /\ i - 1 < i /\ i - 1 \notin B)
  BY <1>2
<1>4. i = 1 \/ f[i - 1] = g[i - 1]
  BY <1>3
<1> QED
  BY <1>2, <1>4 DEF Flat

LEMMA FlattenIs ==
    ASSUME NEW S, NEW s \in Seq(Seq(S)), s # <<>>, NEW f, f = [i \in 1 .. Len(s) |-> f[i]],
           Flat(s, Len(s), f)
    PROVE  FlattenSeq(s) = f[Len(s)]
<1> DEFINE Solves(flat) ==
               flat = [i \in 1 .. Len(s) |-> IF i = 1 THEN s[i] ELSE flat[i - 1] \o s[i]]
           g == CHOOSE flat : Solves(flat)
<1>1. Len(s) \in Nat \ {0}
  OBVIOUS
<1>2. FlattenSeq(s) = g[Len(s)]
  BY <1>1 DEF FlattenSeq
<1>3. Solves(f)
  BY DEF Flat
<1>4. Solves(g)
  BY <1>3
<1> HIDE DEF g
<1>5. Flat(s, Len(s), g)
  BY <1>4 DEF Flat
<1> HIDE DEF Solves
<1>6. \A i \in 1 .. Len(s) : f[i] = g[i]
  BY <1>1, <1>5, FlatUnique
<1> QED
  BY <1>1, <1>2, <1>6

LEMMA FlattenEmpty == FlattenSeq(<<>>) = <<>>
  BY DEF FlattenSeq

LEMMA FlattenFirst ==
    ASSUME NEW S, NEW s \in Seq(Seq(S)), s # <<>>
    PROVE  FlattenSeq(s) = Head(s) \o FlattenSeq(Tail(s)) /\ FlattenSeq(s) \in Seq(S)
<1>0. PICK t : t = Tail(s)
  OBVIOUS
<1>n. PICK n : n = Len(s)
  OBVIOUS
<1>1. n \in Nat \ {0} /\ s[1] \in Seq(S) /\ Head(s) = s[1]
  BY <1>n
<1>2. t \in Seq(Seq(S)) /\ Len(t) = n - 1 /\ \A i \in 1 .. n - 1 : t[i] = s[i + 1]
  BY <1>0, <1>n, HeadTailProperties
<1>3. ASSUME NEW a \in Seq(S), NEW b \in Seq(S), NEW c \in Seq(S)
      PROVE  a \o (b \o c) = (a \o b) \o c
  <2>1. (a \o b) \o c = a \o (b \o c)
    BY ConcatAssociative
  <2> QED
    BY <2>1, Zenon
<1>4. CASE n = 1
  <2>1. t = <<>>
    BY <1>2, <1>4
  <2>2. Flat(s, n, <<s[1]>>) /\ <<s[1]>> = [i \in 1 .. n |-> <<s[1]>>[i]]
    BY <1>4 DEF Flat
  <2>3. FlattenSeq(s) = s[1]
    BY <1>n, <1>1, <1>4, <2>2, FlattenIs
  <2> QED
    BY <1>0, <1>1, <2>1, <2>3, FlattenEmpty, ConcatEmptySeq
<1>5. CASE n # 1
  <2>1. n - 1 \in 1 .. Len(t) /\ t # <<>>
    BY <1>1, <1>2, <1>5
  <2>2. PICK g \in [1 .. n - 1 -> Seq(S)] : Flat(t, n - 1, g)
    BY <1>2, <2>1, FlatExists
  <2>3. FlattenSeq(t) = g[n - 1] /\ g[n - 1] \in Seq(S)
    <3>1. g = [i \in 1 .. Len(t) |-> g[i]] /\ Flat(t, Len(t), g)
      BY <1>2, <2>2
    <3>2. FlattenSeq(t) = g[Len(t)]
      BY <1>2, <2>1, <3>1, FlattenIs
    <3> QED
      BY <1>2, <2>1, <2>2, <3>2
  <2> DEFINE f == [i \in 1 .. n |-> IF i = 1 THEN s[1] ELSE s[1] \o g[i - 1]]
  <2>4. \A i \in 1 .. n : i # 1 => i - 1 \in 1 .. n - 1
    BY <1>1
  <2>5. f[1] = s[1] /\ \A i \in 1 .. n : i # 1 => f[i] = s[1] \o g[i - 1]
    <3>1. 1 \in 1 .. n
      BY <1>1
    <3> QED
      BY <3>1
  <2>6. f = [i \in 1 .. n |-> f[i]]
    OBVIOUS
  <2> HIDE DEF f
  <2>7. ASSUME NEW i \in 1 .. n, i # 1
        PROVE  f[i] = f[i - 1] \o s[i]
    <3>1. i - 1 \in 1 .. n - 1 /\ i - 1 \in 1 .. n /\ t[i - 1] = s[i]
      BY <1>1, <1>2, <2>7
    <3>2. CASE i - 1 = 1
      <4>1. g[1] = t[1]
        BY <2>2, <3>1, <3>2 DEF Flat
      <4> QED
        BY <2>5, <2>7, <3>1, <3>2, <4>1
    <3>3. CASE i - 1 # 1
      <4> DEFINE h == g[(i - 1) - 1]
      <4>1. (i - 1) - 1 \in 1 .. n - 1
        BY <1>1, <2>7, <3>3
      <4>2. g[i - 1] = h \o t[i - 1]
        BY <2>2, <3>1, <3>3 DEF Flat
      <4>3. h \in Seq(S) /\ t[i - 1] \in Seq(S)
        <5>1. h \in Seq(S)
          BY <2>2, <4>1
        <5> QED
          BY <1>2, <2>1, <3>1, <5>1
      <4>4. f[i] = s[1] \o g[i - 1] /\ f[i - 1] = s[1] \o h
        BY <2>5, <2>7, <3>1, <3>3
      <4> HIDE DEF h
      <4>5. s[1] \o (h \o t[i - 1]) = (s[1] \o h) \o t[i - 1]
        BY <1>1, <1>3, <4>3
      <4> QED
        BY <3>1, <4>2, <4>4, <4>5
    <3> QED
      BY <3>2, <3>3
  <2>8. Flat(s, n, f)
    BY <2>5, <2>7 DEF Flat
  <2>9. FlattenSeq(s) = f[n]
    BY <1>n, <1>1, <2>6, <2>8, FlattenIs
  <2>10. s[1] \o g[n - 1] \in Seq(S)
    BY <1>1, <2>3, ConcatProperties
  <2>11. f[n] = s[1] \o g[n - 1]
    <3>1. n \in 1 .. n
      BY <1>1
    <3> QED
      BY <1>5, <2>5, <3>1
  <2> QED
    BY <1>0, <1>1, <2>3, <2>9, <2>10, <2>11
<1> QED
  BY <1>4, <1>5
(* Encoding. *)

LEMMA ConcatTail ==
    ASSUME NEW S, NEW a \in Seq(S), a # <<>>, NEW b \in Seq(S)
    PROVE  /\ Head(a \o b) = Head(a) /\ Tail(a \o b) = Tail(a) \o b
           /\ a \o b # <<>> /\ a \o b \in Seq(S)
<1>1. Len(a) \in Nat \ {0} /\ Len(b) \in Nat
  OBVIOUS
<1>2. /\ a \o b \in Seq(S) /\ Len(a \o b) = Len(a) + Len(b)
      /\ \A i \in 1 .. Len(a) + Len(b) :
             (a \o b)[i] = IF i =< Len(a) THEN a[i] ELSE b[i - Len(a)]
  BY ConcatProperties
<1>3. a \o b # <<>>
  BY <1>1, <1>2
<1>4. /\ Tail(a) \in Seq(S) /\ Len(Tail(a)) = Len(a) - 1
      /\ \A i \in 1 .. Len(a) - 1 : Tail(a)[i] = a[i + 1]
  BY HeadTailProperties
<1>5. /\ Tail(a \o b) \in Seq(S) /\ Len(Tail(a \o b)) = Len(a) + Len(b) - 1
      /\ \A i \in 1 .. Len(a) + Len(b) - 1 : Tail(a \o b)[i] = (a \o b)[i + 1]
  BY <1>2, <1>3, HeadTailProperties
<1>6. /\ Tail(a) \o b \in Seq(S) /\ Len(Tail(a) \o b) = Len(a) - 1 + Len(b)
      /\ \A i \in 1 .. Len(a) - 1 + Len(b) :
             (Tail(a) \o b)[i] = IF i =< Len(a) - 1 THEN Tail(a)[i] ELSE b[i - (Len(a) - 1)]
  BY <1>4, ConcatProperties
<1>7. \A i \in 1 .. Len(a) + Len(b) - 1 : Tail(a \o b)[i] = (Tail(a) \o b)[i]
  BY <1>1, <1>2, <1>4, <1>5, <1>6
<1>8. Tail(a \o b) = Tail(a) \o b
  BY <1>1, <1>5, <1>6, <1>7, SeqEqual
<1>9. Head(a \o b) = Head(a)
  BY <1>1, <1>2
<1> QED
  BY <1>2, <1>3, <1>8, <1>9

LEMMA EmptyConcat ==
    ASSUME NEW S, NEW a \in Seq(S)
    PROVE  <<>> \o a = a /\ a \o <<>> = a
  BY ConcatEmptySeq

\* What strings and data are made of, damaged or not.
Text == Seq(Chars \cup {Junk})

LEMMA RawTyped ==
    ASSUME NEW s \in Text
    PROVE  /\ Raw(s) \in Seq(Tokens) /\ Len(Raw(s)) = Len(s)
           /\ \A i \in 1 .. Len(s) : Raw(s)[i] = [char |-> s[i]]
<1>1. Len(s) \in Nat /\ DOMAIN s = 1 .. Len(s) /\ \A i \in 1 .. Len(s) : s[i] \in Chars \cup {Junk}
  BY DEF Text
<1>2. \A i \in 1 .. Len(s) : [char |-> s[i]] \in Tokens
  BY <1>1 DEF Tokens
<1>3. Raw(s) = [i \in 1 .. Len(s) |-> [char |-> s[i]]]
  BY <1>1 DEF Raw
<1> QED
  BY <1>1, <1>2, <1>3

\* The rest of a text that is read up to position k.
LEMMA RawRest ==
    ASSUME NEW s \in Text, NEW k \in 0 .. Len(s) - 1
    PROVE  LET rest == Raw(SubSeq(s, k + 1, Len(s)))
           IN  /\ rest \in Seq(Tokens) /\ rest # <<>>
               /\ Head(rest) = [char |-> s[k + 1]]
               /\ Tail(rest) = Raw(SubSeq(s, k + 2, Len(s)))
               /\ Tail(rest) \in Seq(Tokens)
<1> DEFINE n == Len(s)
           t == SubSeq(s, k + 1, n)
           u == SubSeq(s, k + 2, n)
<1>1. n \in Nat /\ n > k /\ k \in Nat /\ \A i \in 1 .. n : s[i] \in Chars \cup {Junk}
  BY DEF Text
<1>2. t \in Text /\ Len(t) = n - k /\ \A i \in 1 .. n - k : t[i] = s[k + i]
  <2>1. \A i \in k + 1 .. n : s[i] \in Chars \cup {Junk}
    BY <1>1
  <2>2. /\ t \in Seq(Chars \cup {Junk}) /\ Len(t) = IF k + 1 =< n THEN n - (k + 1) + 1 ELSE 0
        /\ \A i \in 1 .. n - (k + 1) + 1 : t[i] = s[k + 1 + i - 1]
    BY <1>1, <2>1, SubSeqProperties
  <2> HIDE DEF t
  <2> QED
    BY <1>1, <2>2 DEF Text
<1>3. u \in Text /\ Len(u) = n - k - 1 /\ \A i \in 1 .. n - k - 1 : u[i] = s[k + 1 + i]
  <2>1. \A i \in k + 2 .. n : s[i] \in Chars \cup {Junk}
    BY <1>1
  <2>2. /\ u \in Seq(Chars \cup {Junk}) /\ Len(u) = IF k + 2 =< n THEN n - (k + 2) + 1 ELSE 0
        /\ \A i \in 1 .. n - (k + 2) + 1 : u[i] = s[k + 2 + i - 1]
    BY <1>1, <2>1, SubSeqProperties
  <2> HIDE DEF u
  <2> QED
    BY <1>1, <2>2 DEF Text
<1> HIDE DEF t, u, n
<1>4. /\ Raw(t) \in Seq(Tokens) /\ Len(Raw(t)) = n - k
      /\ \A i \in 1 .. n - k : Raw(t)[i] = [char |-> s[k + i]]
  BY <1>2, RawTyped
<1>5. /\ Raw(u) \in Seq(Tokens) /\ Len(Raw(u)) = n - k - 1
      /\ \A i \in 1 .. n - k - 1 : Raw(u)[i] = [char |-> s[k + 1 + i]]
  BY <1>3, RawTyped
<1>6. Raw(t) # <<>> /\ Head(Raw(t)) = [char |-> s[k + 1]]
  <2>1. n - k \in Nat \ {0} /\ 1 \in 1 .. n - k
    BY <1>1
  <2>2. Raw(t)[1] = [char |-> s[k + 1]]
    BY <1>4, <2>1
  <2> QED
    BY <1>4, <2>1, <2>2
<1>7. /\ Tail(Raw(t)) \in Seq(Tokens) /\ Len(Tail(Raw(t))) = n - k - 1
      /\ \A i \in 1 .. n - k - 1 : Tail(Raw(t))[i] = Raw(t)[i + 1]
  BY <1>4, <1>6, HeadTailProperties
<1>8. \A i \in 1 .. n - k - 1 : Tail(Raw(t))[i] = Raw(u)[i]
  <2>1. ASSUME NEW i \in 1 .. n - k - 1
        PROVE  i + 1 \in 1 .. n - k /\ k + (i + 1) = k + 1 + i
    BY <1>1
  <2> QED
    BY <1>4, <1>5, <1>7, <2>1
<1>9. Tail(Raw(t)) = Raw(u)
  BY <1>5, <1>7, <1>8, SeqEqual
<1> QED
  BY <1>4, <1>6, <1>7, <1>9 DEF t, u, n

LEMMA NumberTyped ==
    ASSUME NEW n \in Int
    PROVE  /\ writenum(n) \in Seq(Tokens) /\ writenum(n) # <<>>
           /\ Head(writenum(n)) = [num |-> n] /\ Tail(writenum(n)) = <<>>
<1>1. [num |-> n] \in Tokens
  BY DEF Tokens
<1> QED
  BY <1>1 DEF writenum
LEMMA StringTyped ==
    ASSUME NEW s \in Seq(Chars)
    PROVE  /\ s \in Text
           /\ writestr(s) \in Seq(Tokens) /\ writestr(s) # <<>>
           /\ Head(writestr(s)) = [num |-> Len(s)] /\ Tail(writestr(s)) = Raw(s)
<1>1. s \in Text
  BY DEF Text
<1>2. Raw(s) \in Seq(Tokens)
  BY <1>1, RawTyped
<1>3. Len(s) \in Int
  OBVIOUS
<1>4. /\ writenum(Len(s)) \in Seq(Tokens) /\ writenum(Len(s)) # <<>>
      /\ Head(writenum(Len(s))) = [num |-> Len(s)] /\ Tail(writenum(Len(s))) = <<>>
  BY <1>3, NumberTyped
<1>5. <<>> \o Raw(s) = Raw(s)
  BY <1>2, EmptyConcat
<1>6. writestr(s) = writenum(Len(s)) \o Raw(s)
  BY DEF writestr
<1>7. /\ Head(writestr(s)) = Head(writenum(Len(s)))
      /\ Tail(writestr(s)) = Tail(writenum(Len(s))) \o Raw(s)
      /\ writestr(s) # <<>> /\ writestr(s) \in Seq(Tokens)
  BY <1>2, <1>4, <1>6, ConcatTail
<1> QED
  BY <1>1, <1>4, <1>5, <1>7

LEMMA NamesFirst ==
    ASSUME NEW names \in Seq(Seq(Chars))
    PROVE  /\ NamesOf(<<>>) = <<>> /\ NamesOf(names) \in Seq(Tokens)
           /\ names # <<>> =>
                NamesOf(names) = writestr(Head(names)) \o NamesOf(Tail(names))
<1> DEFINE w == [i \in DOMAIN names |-> writestr(names[i])]
<1>1. NamesOf(<<>>) = <<>>
  <2>1. [i \in DOMAIN <<>> |-> writestr(<<>>[i])] = <<>>
    OBVIOUS
  <2> QED
    BY <2>1, FlattenEmpty DEF NamesOf
<1>2. w \in Seq(Seq(Tokens)) /\ Len(w) = Len(names)
  <2>1. \A i \in 1 .. Len(names) : writestr(names[i]) \in Seq(Tokens)
    BY StringTyped
  <2>2. w = [i \in 1 .. Len(names) |-> writestr(names[i])] /\ Len(names) \in Nat
    OBVIOUS
  <2> QED
    BY <2>1, <2>2
<1>3. NamesOf(names) = FlattenSeq(w)
  BY DEF NamesOf
<1>4. ASSUME names # <<>>
      PROVE  /\ NamesOf(names) = writestr(Head(names)) \o NamesOf(Tail(names))
             /\ NamesOf(names) \in Seq(Tokens)
  <2> DEFINE t == Tail(names)
  <2>1. t \in Seq(Seq(Chars)) /\ Len(t) = Len(names) - 1 /\ \A i \in 1 .. Len(t) : t[i] = names[i + 1]
    BY <1>4, HeadTailProperties
  <2>2. w # <<>> /\ Head(w) = writestr(Head(names))
    BY <1>2, <1>4
  <2> DEFINE v == [i \in DOMAIN t |-> writestr(t[i])]
  <2>3. v \in Seq(Seq(Tokens)) /\ Len(v) = Len(names) - 1
        /\ \A i \in 1 .. Len(names) - 1 : v[i] = writestr(names[i + 1])
    <3>1. \A i \in 1 .. Len(t) : writestr(t[i]) \in Seq(Tokens)
      BY <2>1, StringTyped
    <3> HIDE DEF t
    <3>2. Len(t) \in Nat /\ DOMAIN t = 1 .. Len(t)
      BY <2>1
    <3>3. v = [i \in 1 .. Len(t) |-> writestr(t[i])]
      BY <3>2
    <3>4. v \in Seq(Seq(Tokens)) /\ Len(v) = Len(t) /\ \A i \in 1 .. Len(t) : v[i] = writestr(t[i])
      BY <3>1, <3>2, <3>3
    <3> QED
      BY <2>1, <3>4
  <2>4. Tail(w) \in Seq(Seq(Tokens)) /\ Len(Tail(w)) = Len(w) - 1
        /\ \A i \in 1 .. Len(Tail(w)) : Tail(w)[i] = w[i + 1]
    <3> HIDE DEF w
    <3> QED
      BY <1>2, <2>2, HeadTailProperties
  <2>5. \A i \in 1 .. Len(names) : w[i] = writestr(names[i])
    OBVIOUS
  <2>6. NamesOf(t) = FlattenSeq(v)
    BY DEF NamesOf
  <2> HIDE DEF w, v, t
  <2>7. \A i \in 1 .. Len(v) : v[i] = Tail(w)[i]
    <3>1. Len(names) \in Nat /\ \A i \in 1 .. Len(names) - 1 : i + 1 \in 1 .. Len(names)
      OBVIOUS
    <3> QED
      BY <1>2, <2>3, <2>4, <2>5, <3>1
  <2>8. v = Tail(w)
    BY <1>2, <2>3, <2>4, <2>7, SeqEqual
  <2>9. FlattenSeq(w) = Head(w) \o FlattenSeq(Tail(w)) /\ FlattenSeq(w) \in Seq(Tokens)
    BY <1>2, <2>2, FlattenFirst
  <2> QED
    BY <1>3, <2>2, <2>6, <2>8, <2>9 DEF t
<1>5. <<>> \in Seq(Tokens)
  OBVIOUS
<1> QED
  BY <1>1, <1>4, <1>5

\* The names from position k on.
LEMMA NamesRest ==
    ASSUME NEW names \in Seq(Seq(Chars)), NEW k \in 0 .. Len(names) - 1
    PROVE  /\ NamesOf(SubSeq(names, k + 1, Len(names))) =
                  writestr(names[k + 1]) \o NamesOf(SubSeq(names, k + 2, Len(names)))
           /\ NamesOf(SubSeq(names, k + 2, Len(names))) \in Seq(Tokens)
<1> DEFINE n == Len(names)
<1>1. n \in Nat /\ k + 1 \in 1 .. n /\ n \in k + 1 .. n
  OBVIOUS
<1> DEFINE t == SubSeq(names, k + 1, n)
<1>2. Head(t) = names[k + 1] /\ Tail(t) = SubSeq(names, (k + 1) + 1, n)
  BY <1>1, HeadTailOfSubSeq
<1>3. t \in Seq(Seq(Chars)) /\ Len(t) = n - k
  <2>1. \A i \in k + 1 .. n : names[i] \in Seq(Chars)
    OBVIOUS
  <2> HIDE DEF n
  <2> QED
    BY <1>1, <2>1, SubSeqProperties
<1>4. t # <<>>
  <2> HIDE DEF t
  <2>1. n - k # 0
    BY <1>1
  <2> QED
    BY <1>3, <2>1
<1>5. Tail(t) \in Seq(Seq(Chars)) /\ (k + 1) + 1 = k + 2
  BY <1>1, <1>3, <1>4, HeadTailProperties
<1> HIDE DEF t
<1>6. NamesOf(t) = writestr(Head(t)) \o NamesOf(Tail(t)) /\ NamesOf(Tail(t)) \in Seq(Tokens)
  BY <1>3, <1>4, <1>5, NamesFirst
<1> QED
  BY <1>2, <1>5, <1>6 DEF t

LEMMA TailElements ==
    ASSUME NEW s, s \in Seq(Elements(s)), s # <<>>
    PROVE  /\ Tail(s) \in Seq(Elements(Tail(s))) /\ Len(Tail(s)) = Len(s) - 1
           /\ \A i \in 1 .. Len(Tail(s)) : Tail(s)[i] = s[i + 1]
<1>0. PICK t : t = Tail(s)
  OBVIOUS
<1>1. /\ t \in Seq(Elements(s)) /\ Len(t) = Len(s) - 1
      /\ \A i \in 1 .. Len(t) : t[i] = s[i + 1]
  BY <1>0, HeadTailProperties
<1>2. Len(t) \in Nat /\ t = [i \in 1 .. Len(t) |-> t[i]] /\ DOMAIN t = 1 .. Len(t)
  BY <1>1
<1>3. \A i \in 1 .. Len(t) : t[i] \in Elements(t)
  BY <1>2 DEF Elements
<1>4. t \in Seq(Elements(t))
  BY <1>2, <1>3
<1> QED
  BY <1>0, <1>1, <1>4

\* The values of these fields have their types.
Holds(m, fields) ==
    fields \in Seq(Elements(fields)) /\ \A i \in DOMAIN fields : m.vals[fields[i]] \in Values(fields[i])

LEMMA FieldTyped ==
    ASSUME NEW f, NEW v \in Values(f)
    PROVE  WriteField(f, v) \in Seq(Tokens)
<1>1. CASE Kind(f) = "string"
  BY <1>1, StringTyped DEF WriteField, Values
<1>2. CASE Kind(f) = "data"
  BY <1>2, RawTyped DEF WriteField, Values, Text
<1>3. CASE Kind(f) = "names"
  <2>1. v \in Seq(Seq(Chars)) /\ WriteField(f, v) = writenum(Len(v)) \o NamesOf(v)
    BY <1>3 DEF WriteField, Values, NamesOf
  <2>2. Len(v) \in Int
    BY <2>1
  <2> QED
    BY <2>1, <2>2, NumberTyped, NamesFirst, ConcatProperties
<1>4. CASE Kind(f) \notin {"string", "data", "names"}
  <2>1. WriteField(f, v) = writenum(v) /\ v \in Int
    BY <1>4, AnswerAssumption DEF WriteField, Values
  <2> QED
    BY <2>1, NumberTyped
<1> QED
  BY <1>1, <1>2, <1>3, <1>4

LEMMA FieldsFirst ==
    ASSUME NEW m, NEW fields, Holds(m, fields)
    PROVE  /\ Fields(m, <<>>) = <<>> /\ Fields(m, fields) \in Seq(Tokens)
           /\ fields # <<>> =>
                /\ Fields(m, fields) =
                     WriteField(Head(fields), m.vals[Head(fields)]) \o Fields(m, Tail(fields))
                /\ Holds(m, Tail(fields)) /\ Fields(m, Tail(fields)) \in Seq(Tokens)
<1> DEFINE w == [i \in DOMAIN fields |-> WriteField(fields[i], m.vals[fields[i]])]
<1>1. Fields(m, <<>>) = <<>>
  <2>1. [i \in DOMAIN <<>> |-> WriteField(<<>>[i], m.vals[<<>>[i]])] = <<>>
    OBVIOUS
  <2> QED
    BY <2>1, FlattenEmpty DEF Fields
<1>2. fields \in Seq(Elements(fields)) /\ DOMAIN fields = 1 .. Len(fields) /\ Len(fields) \in Nat
      /\ \A i \in 1 .. Len(fields) : WriteField(fields[i], m.vals[fields[i]]) \in Seq(Tokens)
  BY FieldTyped DEF Holds
<1>3. w \in Seq(Seq(Tokens)) /\ Len(w) = Len(fields)
      /\ \A i \in 1 .. Len(fields) : w[i] = WriteField(fields[i], m.vals[fields[i]])
  BY <1>2
<1>4. Fields(m, fields) = FlattenSeq(w)
  BY DEF Fields
<1> HIDE DEF w
<1>5. ASSUME fields # <<>>
      PROVE  /\ Fields(m, fields) =
                    WriteField(Head(fields), m.vals[Head(fields)]) \o Fields(m, Tail(fields))
             /\ Holds(m, Tail(fields)) /\ Fields(m, Tail(fields)) \in Seq(Tokens)
             /\ Fields(m, fields) \in Seq(Tokens)
  <2>0. PICK t : t = Tail(fields)
    OBVIOUS
  <2>1. t \in Seq(Elements(t)) /\ Len(t) = Len(fields) - 1
        /\ \A i \in 1 .. Len(t) : t[i] = fields[i + 1]
    BY <1>2, <1>5, <2>0, TailElements
  <2>2. DOMAIN t = 1 .. Len(t) /\ \A i \in 1 .. Len(t) : i + 1 \in 1 .. Len(fields)
    BY <1>2, <2>1
  <2>3. Holds(m, t)
    BY <1>2, <2>1, <2>2 DEF Holds
  <2>4. w # <<>> /\ Head(w) = WriteField(Head(fields), m.vals[Head(fields)])
    BY <1>2, <1>3, <1>5
  <2> DEFINE v == [i \in DOMAIN t |-> WriteField(t[i], m.vals[t[i]])]
  <2>5. \A i \in 1 .. Len(t) : WriteField(t[i], m.vals[t[i]]) \in Seq(Tokens)
    BY <1>2, <2>1, <2>2
  <2>6. v \in Seq(Seq(Tokens)) /\ Len(v) = Len(fields) - 1
        /\ \A i \in 1 .. Len(v) : v[i] = WriteField(fields[i + 1], m.vals[fields[i + 1]])
    <3>1. Len(t) \in Nat /\ v = [i \in 1 .. Len(t) |-> WriteField(t[i], m.vals[t[i]])]
      BY <2>1, <2>2
    <3>2. v \in Seq(Seq(Tokens)) /\ Len(v) = Len(t)
          /\ \A i \in 1 .. Len(t) : v[i] = WriteField(t[i], m.vals[t[i]])
      BY <2>5, <3>1
    <3> QED
      BY <2>1, <3>2
  <2>7. Tail(w) \in Seq(Seq(Tokens)) /\ Len(Tail(w)) = Len(w) - 1
        /\ \A i \in 1 .. Len(Tail(w)) : Tail(w)[i] = w[i + 1]
    BY <1>3, <2>4, HeadTailProperties
  <2>8. Fields(m, t) = FlattenSeq(v)
    BY DEF Fields
  <2> HIDE DEF v
  <2>9. \A i \in 1 .. Len(v) : v[i] = Tail(w)[i]
    BY <1>2, <1>3, <2>1, <2>2, <2>6, <2>7
  <2>10. v = Tail(w)
    BY <1>3, <2>6, <2>7, <2>9, SeqEqual
  <2>11. FlattenSeq(w) = Head(w) \o FlattenSeq(Tail(w)) /\ FlattenSeq(w) \in Seq(Tokens)
    BY <1>3, <2>4, FlattenFirst
  <2>12. Fields(m, t) \in Seq(Tokens)
    <3>1. CASE t = <<>>
      <4>1. <<>> \in Seq(Tokens)
        OBVIOUS
      <4> QED
        BY <1>1, <3>1, <4>1, Zenon
    <3>2. CASE t # <<>>
      <4>1. v # <<>>
        BY <2>1, <2>6, <3>2
      <4> QED
        BY <2>6, <2>8, <4>1, FlattenFirst
    <3> QED
      BY <3>1, <3>2
  <2> QED
    BY <1>4, <2>0, <2>3, <2>4, <2>8, <2>10, <2>11, <2>12
<1>6. fields = <<>> => Fields(m, fields) \in Seq(Tokens)
  <2>1. <<>> \in Seq(Tokens)
    OBVIOUS
  <2> QED
    BY <1>1, <2>1, Zenon
<1> QED
  BY <1>1, <1>5, <1>6
(* Decoding: a reader that takes the next token stays ahead of the others. *)

\* What a reader with room for len bytes needs of the message m to read all of it.
Sent(m, fields, len) ==
    /\ m = [type |-> m.type, vals |-> [f \in DOMAIN m.vals |-> m.vals[f]]] /\ m.type \in Types
    /\ Proper(fields) /\ fields # <<>> /\ Head(fields) # "data"
    /\ DOMAIN m.vals = Elements(fields)
    /\ \A f \in DOMAIN m.vals : m.vals[f] \in Values(f)
    /\ "data" \in DOMAIN m.vals =>
        /\ (IF m.type = "WRITE" THEN "size" ELSE "result") \in DOMAIN m.vals
        /\ dataLen([type |-> m.type, vals |-> m.vals, len |-> len]) = Len(m.vals.data)

LEMMA ProperTail ==
    ASSUME NEW fields, Proper(fields), fields # <<>>
    PROVE  /\ Proper(Tail(fields)) /\ Head(fields) # "name"
           /\ Elements(fields) = {Head(fields)} \cup Elements(Tail(fields))
           /\ Head(fields) \notin Elements(Tail(fields))
           /\ Head(fields) \in {"data", "names"} => Tail(fields) = <<>>
<1>0. PICK t : t = Tail(fields)
  OBVIOUS
<1>n. PICK n : n = Len(fields)
  OBVIOUS
<1>1. fields \in Seq(Elements(fields)) /\ n \in Nat \ {0} /\ DOMAIN fields = 1 .. n
  BY <1>n DEF Proper
<1>2. t \in Seq(Elements(t)) /\ Len(t) = n - 1 /\ \A i \in 1 .. n - 1 : t[i] = fields[i + 1]
  BY <1>0, <1>1, <1>n, TailElements
<1>3. DOMAIN t = 1 .. n - 1 /\ Head(fields) = fields[1] /\ 1 \in 1 .. n
      /\ \A i \in 1 .. n - 1 : i + 1 \in 1 .. n
  BY <1>1, <1>2
<1>p. \A i \in 1 .. n :
        /\ fields[i] # "name" /\ (fields[i] \in {"data", "names"} => i = n)
        /\ \A j \in 1 .. n : fields[i] = fields[j] => i = j
  BY <1>1, <1>n DEF Proper
<1>5. Proper(t)
  <2>1. ASSUME NEW i \in 1 .. n - 1
        PROVE  /\ t[i] # "name" /\ (t[i] \in {"data", "names"} => i = n - 1)
               /\ \A j \in 1 .. n - 1 : t[i] = t[j] => i = j
    <3>1. t[i] = fields[i + 1] /\ i + 1 \in 1 .. n
      BY <1>2, <1>3
    <3>2. ASSUME NEW j \in 1 .. n - 1, t[i] = t[j]
          PROVE  i = j
      <4>1. t[j] = fields[j + 1] /\ j + 1 \in 1 .. n
        BY <1>2, <1>3
      <4>2. i + 1 = j + 1
        BY <1>p, <3>1, <3>2, <4>1
      <4> QED
        BY <4>2
    <3>3. t[i] \in {"data", "names"} => i + 1 = n
      BY <1>p, <3>1
    <3> QED
      BY <1>1, <1>p, <3>1, <3>2, <3>3
  <2> QED
    BY <1>2, <1>3, <2>1 DEF Proper
<1>6. Elements(fields) = {fields[1]} \cup Elements(t)
  <2>1. \A i \in 1 .. n : fields[i] \in {fields[1]} \cup Elements(t)
    <3>1. ASSUME NEW i \in 1 .. n, i # 1
          PROVE  fields[i] \in Elements(t)
      <4>1. i - 1 \in 1 .. n - 1 /\ (i - 1) + 1 = i
        BY <1>1, <3>1
      <4>2. t[i - 1] = fields[i]
        BY <1>2, <4>1
      <4> QED
        BY <1>3, <4>1, <4>2 DEF Elements
    <3> QED
      BY <3>1
  <2>2. \A i \in 1 .. n - 1 : t[i] \in Elements(fields)
    BY <1>1, <1>2, <1>3 DEF Elements
  <2>3. fields[1] \in Elements(fields)
    BY <1>1, <1>3 DEF Elements
  <2> QED
    BY <1>1, <1>3, <2>1, <2>2, <2>3 DEF Elements
<1>7. fields[1] \notin Elements(t)
  <2>1. \A i \in 1 .. n - 1 : t[i] # fields[1]
    BY <1>1, <1>2, <1>3 DEF Proper
  <2> QED
    BY <1>3, <2>1 DEF Elements
<1>8. fields[1] \in {"data", "names"} => t = <<>>
  <2>1. fields[1] \in {"data", "names"} => n = 1
    BY <1>1, <1>3, <1>n DEF Proper
  <2> QED
    BY <1>2, <2>1
<1>9. fields[1] # "name"
  BY <1>1, <1>3 DEF Proper
<1> QED
  BY <1>0, <1>3, <1>5, <1>6, <1>7, <1>8, <1>9

LEMMA ProperEmpty == Proper(<<>>) /\ Elements(<<>>) = {}
  BY DEF Proper, Elements

LEMMA NameKinds ==
    /\ Kind("name") = "string" /\ Kind("data") = "data" /\ Kind("names") = "names"
    /\ \A f : Kind(f) = "data" => f = "data"
    /\ \A f : Kind(f) = "names" => f = "names"
    /\ Values("names") = Seq(Seq(Chars)) /\ Values("data") = Text
    /\ \A v : WriteField("name", v) = writestr(v)
    /\ \A v : WriteField("data", v) = Raw(v)
  BY DEF Kind, Values, Text, WriteField

\* Head(todo) tells how far the reader is.
LEMMA Where ==
    ASSUME NEW r, NEW m, Midway(r, m), r.todo # <<>>
    PROVE  IF Head(r.todo) = "name" THEN AtNames(r, m) ELSE AtFields(r, m)
<1>1. AtNames(r, m) => Head(r.todo) = "name"
  BY DEF AtNames
<1>2. AtFields(r, m) => Head(r.todo) # "name"
  BY ProperTail DEF AtFields
<1> QED
  BY <1>1, <1>2 DEF Midway

LEMMA ReadingIs ==
    ASSUME NEW r, NEW todo, NEW want, NEW vals
    PROVE  LET s == reading(r, todo, want, vals)
           IN  /\ s = [type |-> s.type, todo |-> s.todo, want |-> s.want, part |-> s.part,
                       vals |-> s.vals, len |-> s.len]
               /\ s.type = r.type /\ s.todo = todo /\ s.want = want /\ s.part = <<>>
               /\ s.vals = vals /\ s.len = r.len
  BY DEF reading

LEMMA FinishName ==
    ASSUME NEW m, NEW fields, NEW r, Sent(m, fields, r.len), Midway(r, m),
           r.todo # <<>>, Head(r.todo) = "name"
    PROVE  LET s == finish(r, Value(r, m))
           IN  Midway(s, m) /\ s.len = r.len /\ ToCome(s, m, fields) = After(r, m)
<1>k. PICK k : k = Len(r.vals.names)
  OBVIOUS
<1>m. PICK names : names = m.vals.names
  OBVIOUS
<1>n. PICK n : n = Len(names)
  OBVIOUS
<1>t. PICK t : t = Tail(r.todo)
  OBVIOUS
<1> DEFINE read == Append(r.vals.names, names[k + 1])
           s == reading(r, t, ANumber, With(r.vals, "names", read))
<1>1. AtNames(r, m)
  BY Where
<1>2. /\ names \in Seq(Seq(Chars)) /\ r.vals.names \in Seq(Seq(Chars)) /\ "names" \in DOMAIN m.vals
  BY <1>1, <1>m, NameKinds DEF AtNames, Sent
<1>3. k \in Nat /\ n \in Nat /\ Len(r.todo) = n - k /\ n - k > 0
  <2>1. r.todo \in Seq({"name"}) /\ r.todo # <<>>
    BY <1>1 DEF AtNames
  <2>2. Len(r.todo) \in Nat \ {0} /\ k \in Nat /\ n \in Nat
    BY <1>2, <1>k, <1>n, <2>1
  <2>3. k + Len(r.todo) = n
    BY <1>1, <1>k, <1>m, <1>n DEF AtNames
  <2> QED
    BY <2>2, <2>3
<1>4. t \in Seq({"name"}) /\ Len(t) = n - k - 1 /\ (t # <<>> => Head(t) = "name")
  <2>1. r.todo \in Seq({"name"}) /\ r.todo # <<>>
    BY <1>1 DEF AtNames
  <2>2. t \in Seq({"name"}) /\ Len(t) = Len(r.todo) - 1
    BY <1>t, <2>1, HeadTailProperties
  <2> QED
    BY <1>3, <2>2
<1>5. read \in Seq(Seq(Chars)) /\ Len(read) = k + 1 /\ \A i \in 1 .. k + 1 : read[i] = names[i]
  <2>1. names[k + 1] \in Seq(Chars)
    BY <1>2, <1>3, <1>n
  <2>2. \A i \in 1 .. k : r.vals.names[i] = names[i]
    BY <1>1, <1>2, <1>k, <1>m DEF AtNames
  <2>3. /\ read \in Seq(Seq(Chars)) /\ Len(read) = k + 1 /\ read[k + 1] = names[k + 1]
        /\ \A i \in 1 .. k : read[i] = r.vals.names[i]
    BY <1>2, <1>k, <2>1, AppendProperties
  <2>4. \A i \in 1 .. k + 1 : i \in 1 .. k \/ i = k + 1
    BY <1>3
  <2> HIDE DEF read
  <2> QED
    BY <2>2, <2>3, <2>4
<1>6. finish(r, Value(r, m)) = s
  <2>1. Value(r, m) = names[k + 1]
    BY <1>k, <1>m DEF Value
  <2>2. t = <<>> \/ Head(t) # "data"
    BY <1>4
  <2> QED
    BY <1>t, <2>1, <2>2 DEF finish
<1>7. /\ s = [type |-> s.type, todo |-> s.todo, want |-> s.want, part |-> s.part,
              vals |-> s.vals, len |-> s.len]
      /\ s.type = r.type /\ s.todo = t /\ s.want = ANumber /\ s.part = <<>>
      /\ s.vals = With(r.vals, "names", read) /\ s.len = r.len
  BY ReadingIs
<1>8. /\ DOMAIN s.vals = DOMAIN m.vals /\ s.vals.names = read
      /\ \A f \in DOMAIN s.vals \ {"names"} : s.vals[f] = m.vals[f]
  <2> HIDE DEF s, read
  <2> DEFINE w == With(r.vals, "names", read)
  <2>1. /\ DOMAIN w = DOMAIN r.vals \cup {"names"} /\ w["names"] = read
        /\ \A g \in DOMAIN r.vals \ {"names"} : w[g] = r.vals[g]
    BY DEF With
  <2>2. /\ DOMAIN r.vals = DOMAIN m.vals /\ "names" \in DOMAIN m.vals
        /\ \A f \in DOMAIN r.vals \ {"names"} : r.vals[f] = m.vals[f]
    BY <1>1 DEF AtNames
  <2>3. s.vals = w
    BY <1>7
  <2> HIDE DEF w
  <2> QED
    BY <2>1, <2>2, <2>3
<1> HIDE DEF s, read
<1>9. CASE t = <<>>
  <2>1. n = k + 1
    BY <1>3, <1>4, <1>9
  <2>2. read = names
    BY <1>2, <1>5, <1>n, <2>1, SeqEqual
  <2>0. s.vals = [f \in DOMAIN s.vals |-> s.vals[f]]
    BY <1>7 DEF With
  <2>3. AtFields(s, m)
    BY <2>0, <1>7, <1>8, <1>9, <1>m, <2>2, ProperEmpty DEF AtFields
  <2>4. Midway(s, m)
    BY <1>7, <1>9, <2>3 DEF Midway, AtItem
  <2>5. SubSeq(names, k + 2, n) = <<>>
    BY <1>3, <2>1, SubSeqEmpty
  <2>6. After(r, m) = <<>>
    BY <1>2, <1>k, <1>m, <1>n, <2>5, NamesFirst DEF After
  <2>7. s.type # "none"
    BY <1>7 DEF Midway, Sent, Types, Message
  <2> QED
    BY <1>6, <1>7, <1>9, <2>4, <2>6, <2>7 DEF ToCome
<1>10. CASE t # <<>>
  <2>1. k + 1 \in 0 .. n - 1 /\ (k + 1) + 1 = k + 2 /\ (k + 1) + 2 = k + 3
    <3>1. Len(t) # 0
      BY <1>4, <1>10
    <3> QED
      BY <1>3, <1>4, <3>1
  <2>2. AtNames(s, m)
    <3>1. Len(s.vals.names) + Len(s.todo) = Len(m.vals.names)
      <4>1. Len(s.vals.names) = k + 1 /\ Len(s.todo) = n - k - 1
        BY <1>4, <1>5, <1>7, <1>8
      <4>2. (k + 1) + (n - k - 1) = n
        BY <1>3
      <4>3. Len(m.vals.names) = n
        BY <1>m, <1>n
      <4> QED
        BY <4>1, <4>2, <4>3, Zenon
    <3>2. \A i \in DOMAIN s.vals.names : s.vals.names[i] = m.vals.names[i]
      <4>1. s.vals.names = read /\ DOMAIN read = 1 .. k + 1
        BY <1>3, <1>5, <1>8
      <4> QED
        BY <1>5, <1>m, <4>1
    <3> QED
      BY <1>2, <1>4, <1>5, <1>7, <1>8, <1>10, <3>1, <3>2 DEF AtNames
  <2>3. Midway(s, m)
    BY <1>4, <1>7, <1>10, <2>2 DEF Midway, AtItem
  <2>4. Value(s, m) = names[k + 2] /\ After(s, m) = NamesOf(SubSeq(names, k + 3, n))
    <3>1. Len(s.vals.names) = k + 1 /\ Head(s.todo) = "name"
      BY <1>4, <1>5, <1>7, <1>8, <1>10
    <3> QED
      BY <1>3, <1>m, <1>n, <2>1, <3>1 DEF Value, After
  <2>5. NamesOf(SubSeq(names, k + 2, n)) = writestr(names[k + 2]) \o NamesOf(SubSeq(names, k + 3, n))
    BY <1>2, <1>n, <2>1, NamesRest
  <2>6. After(r, m) = NamesOf(SubSeq(names, k + 2, n))
    BY <1>k, <1>m, <1>n DEF After
  <2>7. s.type # "none"
    BY <1>7 DEF Midway, Sent, Types, Message
  <2>8. ToCome(s, m, fields) = WriteField("name", Value(s, m)) \o After(s, m)
    BY <1>4, <1>7, <1>10, <2>7 DEF ToCome
  <2> QED
    BY <1>6, <1>7, <2>3, <2>4, <2>5, <2>6, <2>8, NameKinds
<1> QED
  BY <1>9, <1>10
LEMMA HoldsAt ==
    ASSUME NEW m, NEW fields, NEW r, Sent(m, fields, r.len), AtFields(r, m)
    PROVE  Holds(m, r.todo)
<1>1. r.todo \in Seq(Elements(r.todo))
  BY DEF AtFields, Proper
<1>2. \A i \in DOMAIN r.todo : r.todo[i] \in DOMAIN m.vals
  BY DEF AtFields, Elements
<1> QED
  BY <1>1, <1>2 DEF Sent, Holds

\* Where a reader is that has got all fields before the ones of todo.
LEMMA AtFieldsReading ==
    ASSUME NEW m, NEW r, r.type = m.type, NEW todo, NEW want, NEW vals, Proper(todo),
           Elements(todo) \subseteq DOMAIN m.vals, DOMAIN vals = DOMAIN m.vals \ Elements(todo),
           \A f \in DOMAIN vals : vals[f] = m.vals[f], vals = [f \in DOMAIN vals |-> vals[f]],
           AtItem(reading(r, todo, want, vals), m)
    PROVE  Midway(reading(r, todo, want, vals), m)
<1> DEFINE s == reading(r, todo, want, vals)
<1>1. /\ s = [type |-> s.type, todo |-> s.todo, want |-> s.want, part |-> s.part,
              vals |-> s.vals, len |-> s.len]
      /\ s.type = r.type /\ s.todo = todo /\ s.vals = vals
  BY ReadingIs
<1> HIDE DEF s
<1>2. AtFields(s, m)
  BY <1>1 DEF AtFields
<1> QED
  BY <1>1, <1>2 DEF Midway, s

LEMMA FinishField ==
    ASSUME NEW m, NEW fields, NEW r, Sent(m, fields, r.len), Midway(r, m),
           r.todo # <<>>, Head(r.todo) \notin {"name", "names"}
    PROVE  LET s == finish(r, Value(r, m))
           IN  Midway(s, m) /\ s.len = r.len /\ ToCome(s, m, fields) = After(r, m)
<1>t. PICK t : t = Tail(r.todo)
  OBVIOUS
<1>f. PICK f : f = Head(r.todo)
  OBVIOUS
<1>v. PICK vals : vals = With(r.vals, f, m.vals[f])
  OBVIOUS
<1>1. AtFields(r, m) /\ r.type = m.type
  BY Where DEF Midway
<1>2. /\ Proper(r.todo) /\ Proper(t) /\ Elements(r.todo) = {f} \cup Elements(t)
      /\ f \notin Elements(t) /\ f # "name"
  BY <1>1, <1>t, <1>f, ProperTail DEF AtFields
<1>3. /\ Elements(t) \subseteq DOMAIN m.vals /\ f \in DOMAIN m.vals
      /\ DOMAIN r.vals = DOMAIN m.vals \ ({f} \cup Elements(t))
      /\ \A g \in DOMAIN r.vals : r.vals[g] = m.vals[g]
  BY <1>1, <1>2 DEF AtFields
<1>4. /\ DOMAIN vals = DOMAIN m.vals \ Elements(t)
      /\ \A g \in DOMAIN vals : vals[g] = m.vals[g]
      /\ vals = [g \in DOMAIN vals |-> vals[g]]
  <2>1. /\ DOMAIN vals = DOMAIN r.vals \cup {f} /\ vals[f] = m.vals[f]
        /\ \A g \in DOMAIN r.vals \ {f} : vals[g] = r.vals[g]
        /\ vals = [g \in DOMAIN vals |-> vals[g]]
    BY <1>v DEF With
  <2> QED
    BY <1>2, <1>3, <2>1
<1>5. /\ Holds(m, t) /\ After(r, m) = Fields(m, t) /\ Fields(m, <<>>) = <<>>
      /\ t # <<>> => Fields(m, t) = WriteField(Head(t), m.vals[Head(t)]) \o Fields(m, Tail(t))
  <2>1. Holds(m, r.todo)
    BY <1>1, HoldsAt
  <2>2. Holds(m, t) /\ Fields(m, <<>>) = <<>>
    BY <1>t, <2>1, FieldsFirst
  <2>3. After(r, m) = Fields(m, t)
    BY <1>2, <1>f, <1>t DEF After
  <2> QED
    BY <2>2, <2>3, FieldsFirst
<1>6. m.type # "none"
  BY DEF Sent, Types, Message
<1>7. Value(r, m) = m.vals[f]
  BY <1>2, <1>f DEF Value
<1>8. CASE t = <<>> \/ Head(t) # "data"
  <2> DEFINE s == reading(r, t, ANumber, vals)
  <2>1. finish(r, Value(r, m)) = s
    BY <1>2, <1>7, <1>8, <1>t, <1>f, <1>v DEF finish
  <2>2. s.type = r.type /\ s.todo = t /\ s.want = ANumber /\ s.part = <<>> /\ s.vals = vals
        /\ s.len = r.len
    BY ReadingIs
  <2>3. AtItem(s, m)
    <3> HIDE DEF s
    <3> QED
      BY <1>8, <2>2 DEF AtItem
  <2>4. Midway(s, m)
    BY <1>1, <1>2, <1>3, <1>4, <2>3, AtFieldsReading
  <2> HIDE DEF s
  <2>5. CASE t = <<>>
    BY <1>1, <1>5, <1>6, <2>1, <2>2, <2>4, <2>5 DEF ToCome
  <2>6. CASE t # <<>>
    <3>1. Head(t) # "name"
      BY <1>2, <2>6, ProperTail
    <3>2. Value(s, m) = m.vals[Head(t)] /\ After(s, m) = Fields(m, Tail(t))
      BY <2>2, <3>1 DEF Value, After
    <3>3. ToCome(s, m, fields) = WriteField(Head(t), Value(s, m)) \o After(s, m)
      BY <1>1, <1>6, <2>2, <2>6 DEF ToCome
    <3> QED
      BY <1>5, <2>1, <2>2, <2>4, <2>6, <3>2, <3>3
  <2> QED
    BY <2>5, <2>6
<1>9. CASE t # <<>> /\ Head(t) = "data"
  <2>d. PICK data : data = m.vals.data
    OBVIOUS
  <2>n. PICK n : n = Len(data)
    OBVIOUS
  <2>1. Elements(t) = {"data"} /\ Tail(t) = <<>>
    BY <1>2, <1>9, ProperTail, ProperEmpty
  <2>2. "data" \in DOMAIN m.vals /\ data \in Text /\ n \in Nat
    <3>1. "data" \in DOMAIN m.vals
      BY <1>3, <2>1
    <3>2. data \in Text
      BY <2>d, <3>1, NameKinds DEF Sent
    <3> QED
      BY <2>n, <3>1, <3>2 DEF Text
  <2> DEFINE s0 == reading(r, t, ANumber, vals)
  <2>3. dataLen(s0) = n
    <3>1. s0.type = m.type /\ s0.vals = vals /\ s0.len = r.len
      BY <1>1, ReadingIs
    <3>2. m.type = "WRITE" => vals.size = m.vals.size
      BY <1>4, <2>1, <2>2 DEF Sent
    <3>3. m.type # "WRITE" => vals.result = m.vals.result
      BY <1>4, <2>1, <2>2 DEF Sent
    <3>4. dataLen([type |-> m.type, vals |-> m.vals, len |-> r.len]) = n
      BY <2>2, <2>d, <2>n DEF Sent
    <3> HIDE DEF s0
    <3> QED
      BY <3>1, <3>2, <3>3, <3>4 DEF dataLen
  <2>4. After(r, m) = Raw(data)
    <3>1. WriteField("data", data) = Raw(data) /\ Raw(data) \in Seq(Tokens)
      BY <2>2, NameKinds, RawTyped
    <3>2. Raw(data) \o <<>> = Raw(data)
      BY <3>1, EmptyConcat
    <3> QED
      BY <1>5, <1>9, <2>1, <2>d, <3>1, <3>2
  <2>5. CASE n > 0
    <3> DEFINE s == reading(r, t, n, vals)
    <3>1. finish(r, Value(r, m)) = s
      BY <1>2, <1>7, <1>9, <1>t, <1>f, <1>v, <2>3, <2>5 DEF finish
    <3>2. s.type = r.type /\ s.todo = t /\ s.want = n /\ s.part = <<>> /\ s.vals = vals
          /\ s.len = r.len
      BY ReadingIs
    <3>3. n # ANumber /\ SubSeq(data, Len(<<>>) + 1, n) = data
      <4>1. SubSeq(data, 1, Len(data)) = data
        BY <2>2, SubSeqFull DEF Text
      <4> QED
        BY <2>2, <2>n, <4>1 DEF ANumber
    <3>4. Value(s, m) = data /\ After(s, m) = <<>>
      <4> HIDE DEF s
      <4> QED
        BY <1>5, <1>9, <2>1, <2>d, <3>2 DEF Value, After
    <3>5. AtItem(s, m)
      <4> HIDE DEF s
      <4>1. <<>> \in Seq(Chars \cup {Junk}) /\ Len(<<>>) = 0 /\ DOMAIN <<>> = {}
        OBVIOUS
      <4> QED
        BY <1>9, <2>5, <2>n, <3>2, <3>3, <3>4, <4>1, NameKinds DEF AtItem
    <3>6. Midway(s, m)
      BY <1>1, <1>2, <1>3, <1>4, <3>5, AtFieldsReading
    <3> HIDE DEF s
    <3>7. ToCome(s, m, fields) = Raw(data) \o <<>>
      BY <1>1, <1>6, <1>9, <3>2, <3>3, <3>4 DEF ToCome
    <3>8. Raw(data) \o <<>> = Raw(data)
      BY <2>2, RawTyped, EmptyConcat
    <3> QED
      BY <2>4, <3>1, <3>2, <3>6, <3>7, <3>8
  <2>6. CASE n = 0
    <3>w. PICK all : all = With(vals, "data", <<>>)
      OBVIOUS
    <3> DEFINE s == reading(r, <<>>, ANumber, all)
    <3>1. finish(r, Value(r, m)) = s
      BY <1>2, <1>7, <1>9, <1>t, <1>f, <1>v, <2>3, <2>6, <3>w DEF finish
    <3>2. s.type = r.type /\ s.todo = <<>> /\ s.want = ANumber /\ s.part = <<>> /\ s.vals = all
          /\ s.len = r.len
      BY ReadingIs
    <3>3. data = <<>>
      BY <2>2, <2>6, <2>n DEF Text
    <3>4. /\ DOMAIN all = DOMAIN m.vals \ Elements(<<>>)
          /\ \A g \in DOMAIN all : all[g] = m.vals[g]
          /\ all = [g \in DOMAIN all |-> all[g]]
      <4>1. /\ DOMAIN all = DOMAIN vals \cup {"data"} /\ all["data"] = <<>>
            /\ \A g \in DOMAIN vals \ {"data"} : all[g] = vals[g]
            /\ all = [g \in DOMAIN all |-> all[g]]
        BY <3>w DEF With
      <4> QED
        BY <1>4, <2>1, <2>2, <2>d, <3>3, <4>1, ProperEmpty
    <3>5. AtItem(s, m)
      <4> HIDE DEF s
      <4> QED
        BY <3>2 DEF AtItem
    <3>6. Midway(s, m)
      BY <1>1, <3>4, <3>5, ProperEmpty, AtFieldsReading
    <3> HIDE DEF s
    <3>7. ToCome(s, m, fields) = <<>>
      BY <1>1, <1>6, <3>2 DEF ToCome
    <3>8. Raw(data) = <<>>
      BY <3>3 DEF Raw
    <3> QED
      BY <2>4, <3>1, <3>2, <3>6, <3>7, <3>8
  <2> QED
    BY <2>2, <2>5, <2>6
<1> QED
  BY <1>8, <1>9
LEMMA Finish ==
    ASSUME NEW m, NEW fields, NEW r, Sent(m, fields, r.len), Midway(r, m),
           r.todo # <<>>, Head(r.todo) # "names"
    PROVE  LET s == finish(r, Value(r, m))
           IN  Midway(s, m) /\ s.len = r.len /\ ToCome(s, m, fields) = After(r, m)
  BY FinishName, FinishField

LEMMA AheadTyped ==
    ASSUME NEW m, NEW fields, NEW r, Sent(m, fields, r.len), Midway(r, m), r.todo # <<>>
    PROVE  Value(r, m) \in Values(Head(r.todo)) /\ After(r, m) \in Seq(Tokens)
<1>1. CASE Head(r.todo) = "name"
  <2>k. PICK k : k = Len(r.vals.names)
    OBVIOUS
  <2>m. PICK names : names = m.vals.names
    OBVIOUS
  <2>1. AtNames(r, m)
    BY <1>1, Where
  <2>2. names \in Seq(Seq(Chars)) /\ k \in Nat /\ Len(r.todo) \in Nat \ {0}
    BY <2>1, <2>k, <2>m, NameKinds DEF AtNames, Sent
  <2>3. k + Len(r.todo) = Len(names)
    BY <2>1, <2>k, <2>m DEF AtNames
  <2>4. k \in 0 .. Len(names) - 1 /\ k + 1 \in 1 .. Len(names)
    BY <2>2, <2>3
  <2>5. NamesOf(SubSeq(names, k + 2, Len(names))) \in Seq(Tokens)
    BY <2>2, <2>4, NamesRest
  <2>6. names[k + 1] \in Seq(Chars)
    BY <2>2, <2>4
  <2>7. Values("name") = Seq(Chars)
    BY NameKinds DEF Values
  <2> QED
    BY <1>1, <2>5, <2>6, <2>7, <2>k, <2>m DEF Value, After
<1>2. CASE Head(r.todo) # "name"
  <2>1. AtFields(r, m)
    BY <1>2, Where
  <2>2. Holds(m, r.todo)
    BY <2>1, HoldsAt
  <2>3. Fields(m, Tail(r.todo)) \in Seq(Tokens)
    BY <2>2, FieldsFirst
  <2>4. Head(r.todo) = r.todo[1] /\ 1 \in DOMAIN r.todo
    BY <2>2 DEF Holds
  <2> QED
    BY <1>2, <2>2, <2>3, <2>4 DEF Value, After, Holds
<1> QED
  BY <1>1, <1>2

\* A reader that has only a new idea of what it wants is still at the same item.
LEMMA SameItem ==
    ASSUME NEW m, NEW r, Midway(r, m), r.todo # <<>>, NEW s,
           s = [type |-> s.type, todo |-> s.todo, want |-> s.want, part |-> s.part,
                vals |-> s.vals, len |-> s.len],
           s.type = r.type, s.todo = r.todo, s.vals = r.vals, s.want = Len(Value(r, m)),
           Kind(Head(r.todo)) \in {"string", "data"}, s.part \in Seq(Chars \cup {Junk}),
           Len(s.part) < s.want, \A i \in DOMAIN s.part : s.part[i] = Value(r, m)[i]
    PROVE  /\ Midway(s, m) /\ Value(s, m) = Value(r, m) /\ After(s, m) = After(r, m)
           /\ s.want # ANumber
<1>1. Value(s, m) = Value(r, m) /\ After(s, m) = After(r, m)
  BY DEF Value, After
<1>2. Len(s.part) \in Nat
  OBVIOUS
<1>3. s.want # ANumber
  BY <1>2 DEF ANumber
<1>4. AtItem(s, m)
  BY <1>1, <1>3 DEF AtItem
<1>5. AtFields(s, m) \/ AtNames(s, m)
  BY DEF Midway, AtFields, AtNames
<1> QED
  BY <1>1, <1>3, <1>4, <1>5 DEF Midway

LEMMA TakeLength ==
    ASSUME NEW m, NEW fields, NEW r, Sent(m, fields, r.len), Midway(r, m), r.todo # <<>>,
           r.want = ANumber, Kind(Head(r.todo)) = "string"
    PROVE  LET tokens == ToCome(r, m, fields)
               s == readfield(r, Head(tokens).num)
           IN  /\ tokens # <<>> /\ IsNumber(Head(tokens))
               /\ Midway(s, m) /\ s.len = r.len /\ ToCome(s, m, fields) = Tail(tokens)
<1>v. PICK v : v = Value(r, m)
  OBVIOUS
<1>a. PICK a : a = After(r, m)
  OBVIOUS
<1>1. v \in Seq(Chars) /\ a \in Seq(Tokens)
  BY <1>a, <1>v, AheadTyped DEF Values
<1>2. r.type # "none"
  BY DEF Midway, Sent, Types, Message
<1>3. ToCome(r, m, fields) = writestr(v) \o a
  BY <1>2, <1>a, <1>v DEF ToCome, WriteField
<1>4. /\ v \in Text /\ writestr(v) \in Seq(Tokens) /\ writestr(v) # <<>>
      /\ Head(writestr(v)) = [num |-> Len(v)] /\ Tail(writestr(v)) = Raw(v)
  BY <1>1, StringTyped
<1>5. PICK tokens : tokens = ToCome(r, m, fields)
  OBVIOUS
<1>6. tokens # <<>> /\ Head(tokens) = [num |-> Len(v)] /\ Tail(tokens) = Raw(v) \o a
  <2>1. /\ writestr(v) \o a # <<>> /\ Head(writestr(v) \o a) = Head(writestr(v))
        /\ Tail(writestr(v) \o a) = Tail(writestr(v)) \o a
    BY <1>1, <1>4, ConcatTail
  <2> QED
    BY <1>3, <1>4, <1>5, <2>1
<1>7. IsNumber(Head(tokens)) /\ Head(tokens).num = Len(v) /\ Len(v) \in Nat
  BY <1>1, <1>6 DEF IsNumber
<1>8. CASE Len(v) > 0
  <2> DEFINE s == reading(r, r.todo, Len(v), r.vals)
  <2>1. readfield(r, Len(v)) = s
    BY <1>8 DEF readfield
  <2>2. /\ s = [type |-> s.type, todo |-> s.todo, want |-> s.want, part |-> s.part,
                vals |-> s.vals, len |-> s.len]
        /\ s.type = r.type /\ s.todo = r.todo /\ s.want = Len(v) /\ s.part = <<>>
        /\ s.vals = r.vals /\ s.len = r.len
    BY ReadingIs
  <2> HIDE DEF s
  <2>3. <<>> \in Seq(Chars \cup {Junk}) /\ Len(<<>>) = 0 /\ DOMAIN <<>> = {}
    OBVIOUS
  <2>4. /\ Midway(s, m) /\ Value(s, m) = v /\ After(s, m) = a /\ s.want # ANumber
    BY <1>8, <1>a, <1>v, <2>2, <2>3, SameItem
  <2>5. SubSeq(v, Len(<<>>) + 1, Len(v)) = v
    <3>1. SubSeq(v, 1, Len(v)) = v
      BY <1>1, SubSeqFull
    <3> QED
      BY <2>3, <3>1
  <2>6. ToCome(s, m, fields) = Raw(v) \o a
    BY <1>2, <2>2, <2>4, <2>5 DEF ToCome
  <2> QED
    BY <1>5, <1>6, <1>7, <2>1, <2>2, <2>4, <2>6
<1>9. CASE Len(v) = 0
  <2>1. v = <<>>
    BY <1>1, <1>9
  <2>2. readfield(r, Len(v)) = finish(r, v)
    BY <1>9, <2>1 DEF readfield
  <2>3. Head(r.todo) # "names"
    BY NameKinds
  <2>4. LET s == finish(r, v)
        IN  Midway(s, m) /\ s.len = r.len /\ ToCome(s, m, fields) = a
    BY <1>a, <1>v, <2>3, Finish
  <2>5. Raw(v) \o a = a
    <3>1. Raw(v) = <<>>
      BY <2>1 DEF Raw
    <3> QED
      BY <1>1, <3>1, EmptyConcat
  <2> QED
    BY <1>5, <1>6, <1>7, <2>2, <2>4, <2>5
<1> QED
  BY <1>7, <1>8, <1>9

LEMMA TakeNumber ==
    ASSUME NEW m, NEW fields, NEW r, Sent(m, fields, r.len), Midway(r, m), r.todo # <<>>,
           r.want = ANumber, Kind(Head(r.todo)) \notin {"string", "names"}
    PROVE  LET tokens == ToCome(r, m, fields)
               s == readfield(r, Head(tokens).num)
           IN  /\ tokens # <<>> /\ IsNumber(Head(tokens))
               /\ Midway(s, m) /\ s.len = r.len /\ ToCome(s, m, fields) = Tail(tokens)
<1>v. PICK v : v = Value(r, m)
  OBVIOUS
<1>a. PICK a : a = After(r, m)
  OBVIOUS
<1>0. Kind(Head(r.todo)) \notin {"string", "names", "data"} /\ Head(r.todo) # "names"
  BY NameKinds DEF Midway, AtItem
<1>1. v \in Int /\ a \in Seq(Tokens)
  BY <1>0, <1>a, <1>v, AheadTyped, AnswerAssumption DEF Values
<1>2. r.type # "none"
  BY DEF Midway, Sent, Types, Message
<1>3. ToCome(r, m, fields) = writenum(v) \o a
  BY <1>0, <1>2, <1>a, <1>v DEF ToCome, WriteField
<1>4. /\ writenum(v) \in Seq(Tokens) /\ writenum(v) # <<>>
      /\ Head(writenum(v)) = [num |-> v] /\ Tail(writenum(v)) = <<>>
  BY <1>1, NumberTyped
<1>5. PICK tokens : tokens = ToCome(r, m, fields)
  OBVIOUS
<1>6. tokens # <<>> /\ Head(tokens) = [num |-> v] /\ Tail(tokens) = <<>> \o a
  <2>1. /\ writenum(v) \o a # <<>> /\ Head(writenum(v) \o a) = Head(writenum(v))
        /\ Tail(writenum(v) \o a) = Tail(writenum(v)) \o a
    BY <1>1, <1>4, ConcatTail
  <2> QED
    BY <1>3, <1>4, <1>5, <2>1
<1>7. IsNumber(Head(tokens)) /\ Head(tokens).num = v
  BY <1>6 DEF IsNumber
<1>8. readfield(r, v) = finish(r, v)
  BY <1>0 DEF readfield
<1>9. LET s == finish(r, v)
      IN  Midway(s, m) /\ s.len = r.len /\ ToCome(s, m, fields) = a
  BY <1>0, <1>a, <1>v, Finish
<1>10. <<>> \o a = a
  BY <1>1, EmptyConcat
<1> QED
  BY <1>5, <1>6, <1>7, <1>8, <1>9, <1>10
LEMMA TakeCount ==
    ASSUME NEW m, NEW fields, NEW r, Sent(m, fields, r.len), Midway(r, m), r.todo # <<>>,
           r.want = ANumber, Kind(Head(r.todo)) = "names"
    PROVE  LET tokens == ToCome(r, m, fields)
               s == readfield(r, Head(tokens).num)
           IN  /\ tokens # <<>> /\ IsNumber(Head(tokens))
               /\ Midway(s, m) /\ s.len = r.len /\ ToCome(s, m, fields) = Tail(tokens)
<1>v. PICK names : names = m.vals.names
  OBVIOUS
<1>n. PICK n : n = Len(names)
  OBVIOUS
<1>w. PICK vals : vals = With(r.vals, "names", <<>>)
  OBVIOUS
<1>t. PICK todo : todo = [i \in 1 .. n |-> "name"]
  OBVIOUS
<1>0. Head(r.todo) = "names"
  BY NameKinds
<1>1. AtFields(r, m) /\ r.type = m.type
  BY <1>0, Where DEF Midway
<1>2. /\ Tail(r.todo) = <<>> /\ Elements(r.todo) = {"names"} /\ "names" \in DOMAIN m.vals
      /\ DOMAIN r.vals = DOMAIN m.vals \ {"names"}
      /\ \A g \in DOMAIN r.vals : r.vals[g] = m.vals[g]
  <2>1. Tail(r.todo) = <<>> /\ Elements(r.todo) = {"names"}
    BY <1>0, <1>1, ProperTail, ProperEmpty DEF AtFields
  <2> QED
    BY <1>1, <2>1 DEF AtFields
<1>3. names \in Seq(Seq(Chars)) /\ n \in Nat
  <2>1. names \in Seq(Seq(Chars))
    BY <1>2, <1>v, NameKinds DEF Sent
  <2> QED
    BY <1>n, <2>1
<1>4. m.type # "none"
  BY DEF Sent, Types, Message
<1>5. Fields(m, <<>>) = <<>>
  BY <1>1, HoldsAt, FieldsFirst
<1>6. Value(r, m) = names /\ After(r, m) = <<>>
  BY <1>0, <1>2, <1>5, <1>v DEF Value, After
<1>7. WriteField("names", names) = writenum(n) \o NamesOf(names)
  BY <1>n, NameKinds DEF WriteField, NamesOf
<1>8. /\ writenum(n) \in Seq(Tokens) /\ writenum(n) # <<>> /\ NamesOf(names) \in Seq(Tokens)
      /\ Head(writenum(n)) = [num |-> n] /\ Tail(writenum(n)) = <<>>
  <2>1. n \in Int
    BY <1>3
  <2> QED
    BY <1>3, <2>1, NumberTyped, NamesFirst
<1>9. PICK tokens : tokens = ToCome(r, m, fields)
  OBVIOUS
<1>10. /\ tokens # <<>> /\ Head(tokens) = [num |-> n] /\ Tail(tokens) = NamesOf(names)
  <2>1. /\ writenum(n) \o NamesOf(names) # <<>>
        /\ Head(writenum(n) \o NamesOf(names)) = Head(writenum(n))
        /\ Tail(writenum(n) \o NamesOf(names)) = Tail(writenum(n)) \o NamesOf(names)
        /\ writenum(n) \o NamesOf(names) \in Seq(Tokens)
    BY <1>8, ConcatTail
  <2>2. tokens = (writenum(n) \o NamesOf(names)) \o <<>>
    BY <1>0, <1>1, <1>4, <1>6, <1>7, <1>9 DEF ToCome
  <2>3. (writenum(n) \o NamesOf(names)) \o <<>> = writenum(n) \o NamesOf(names)
    BY <2>1, EmptyConcat
  <2>4. <<>> \o NamesOf(names) = NamesOf(names)
    BY <1>8, EmptyConcat
  <2> QED
    BY <1>8, <2>1, <2>2, <2>3, <2>4
<1>11. IsNumber(Head(tokens)) /\ Head(tokens).num = n
  BY <1>10 DEF IsNumber
<1> DEFINE s == reading(r, todo, ANumber, vals)
<1>12. todo \in Seq({"name"}) /\ Len(todo) = n /\ (todo # <<>> => Head(todo) = "name")
       /\ todo \o <<>> = todo
  <2>1. todo \in Seq({"name"}) /\ Len(todo) = n
    BY <1>3, <1>t
  <2> QED
    BY <2>1, EmptyConcat
<1>13. readfield(r, n) = s
  BY <1>0, <1>2, <1>12, <1>t, <1>w, NameKinds DEF readfield
<1>14. /\ s = [type |-> s.type, todo |-> s.todo, want |-> s.want, part |-> s.part,
               vals |-> s.vals, len |-> s.len]
       /\ s.type = r.type /\ s.todo = todo /\ s.want = ANumber /\ s.part = <<>>
       /\ s.vals = vals /\ s.len = r.len
  BY ReadingIs
<1>15. /\ DOMAIN vals = DOMAIN m.vals /\ vals.names = <<>>
       /\ \A g \in DOMAIN vals \ {"names"} : vals[g] = m.vals[g]
       /\ vals = [g \in DOMAIN vals |-> vals[g]]
  <2>1. /\ DOMAIN vals = DOMAIN r.vals \cup {"names"} /\ vals["names"] = <<>>
        /\ \A g \in DOMAIN r.vals \ {"names"} : vals[g] = r.vals[g]
        /\ vals = [g \in DOMAIN vals |-> vals[g]]
    BY <1>w DEF With
  <2> QED
    BY <1>2, <2>1
<1>16. AtItem(s, m)
  <2> HIDE DEF s
  <2> QED
    BY <1>12, <1>14 DEF AtItem
<1> HIDE DEF s
<1>17. CASE n = 0
  <2>1. names = <<>> /\ todo = <<>>
    BY <1>3, <1>12, <1>17, <1>n
  <2>2. AtFields(s, m)
    BY <1>14, <1>15, <1>v, <2>1, ProperEmpty DEF AtFields
  <2>3. Midway(s, m)
    BY <1>1, <1>14, <1>16, <2>2 DEF Midway
  <2>4. ToCome(s, m, fields) = <<>> /\ NamesOf(names) = <<>>
    BY <1>1, <1>3, <1>4, <1>14, <2>1, NamesFirst DEF ToCome
  <2> QED
    BY <1>9, <1>10, <1>11, <1>13, <1>14, <2>3, <2>4
<1>18. CASE n > 0
  <2>1. todo # <<>> /\ 0 \in 0 .. n - 1
    BY <1>3, <1>12, <1>18
  <2>0. <<>> \in Seq(Seq(Chars)) /\ Len(<<>>) = 0 /\ DOMAIN <<>> = {}
    OBVIOUS
  <2>2. AtNames(s, m)
    <3>1. Len(s.vals.names) + Len(s.todo) = Len(m.vals.names)
      BY <1>3, <1>12, <1>14, <1>15, <1>n, <1>v, <2>0
    <3> QED
      BY <1>2, <1>12, <1>14, <1>15, <2>0, <2>1, <3>1 DEF AtNames
  <2>3. Midway(s, m)
    BY <1>1, <1>14, <1>16, <2>2 DEF Midway
  <2>4. Value(s, m) = names[0 + 1] /\ After(s, m) = NamesOf(SubSeq(names, 0 + 2, n))
    BY <1>12, <1>14, <1>15, <1>n, <1>v, <2>0, <2>1 DEF Value, After
  <2>5. NamesOf(SubSeq(names, 0 + 1, n)) =
            writestr(names[0 + 1]) \o NamesOf(SubSeq(names, 0 + 2, n))
    BY <1>3, <1>n, <2>1, NamesRest
  <2>6. SubSeq(names, 0 + 1, n) = names
    <3>1. SubSeq(names, 1, n) = names
      BY <1>3, <1>n, SubSeqFull
    <3> QED
      BY <3>1
  <2>7. ToCome(s, m, fields) = WriteField("name", Value(s, m)) \o After(s, m)
    BY <1>1, <1>4, <1>12, <1>14, <2>1 DEF ToCome
  <2>8. ToCome(s, m, fields) = NamesOf(names)
    BY <2>4, <2>5, <2>6, <2>7, NameKinds
  <2> QED
    BY <1>9, <1>10, <1>11, <1>13, <1>14, <2>3, <2>8
<1> QED
  BY <1>3, <1>17, <1>18

LEMMA TakeChar ==
    ASSUME NEW m, NEW fields, NEW r, Sent(m, fields, r.len), Midway(r, m), r.want # ANumber
    PROVE  LET tokens == ToCome(r, m, fields)
               s == readchar(r, Head(tokens))
           IN  /\ tokens # <<>> /\ ~IsNumber(Head(tokens))
               /\ Midway(s, m) /\ s.len = r.len /\ ToCome(s, m, fields) = Tail(tokens)
<1>v. PICK v : v = Value(r, m)
  OBVIOUS
<1>a. PICK a : a = After(r, m)
  OBVIOUS
<1>k. PICK k : k = Len(r.part)
  OBVIOUS
<1>n. PICK n : n = r.want
  OBVIOUS
<1>1. /\ r.todo # <<>> /\ Kind(Head(r.todo)) \in {"string", "data"} /\ n = Len(v)
      /\ r.part \in Seq(Chars \cup {Junk}) /\ k < n
      /\ \A i \in DOMAIN r.part : r.part[i] = v[i]
  BY <1>v, <1>k, <1>n DEF Midway, AtItem
<1>2. v \in Text /\ a \in Seq(Tokens)
  <2>1. v \in Values(Head(r.todo)) /\ a \in Seq(Tokens)
    BY <1>1, <1>v, <1>a, AheadTyped
  <2>2. v \in Seq(Chars) => v \in Text
    BY StringTyped
  <2> QED
    BY <1>1, <2>1, <2>2 DEF Values, Text
<1>3. k \in Nat /\ n \in Nat /\ k \in 0 .. n - 1 /\ k + 1 \in 1 .. n
  <2>1. k \in Nat /\ n \in Nat
    BY <1>1, <1>2, <1>k DEF Text
  <2> QED
    BY <1>1, <2>1
<1>4. r.type # "none" /\ r.type = m.type
  BY DEF Midway, Sent, Types, Message
<1>5. PICK rest : rest = Raw(SubSeq(v, k + 1, n))
  OBVIOUS
<1>6. /\ rest \in Seq(Tokens) /\ rest # <<>> /\ Head(rest) = [char |-> v[k + 1]]
      /\ Tail(rest) = Raw(SubSeq(v, k + 2, n)) /\ Tail(rest) \in Seq(Tokens)
  BY <1>1, <1>2, <1>3, <1>5, RawRest
<1>7. PICK tokens : tokens = ToCome(r, m, fields)
  OBVIOUS
<1>8. tokens = rest \o a
  BY <1>1, <1>4, <1>5, <1>7, <1>a, <1>k, <1>n, <1>v DEF ToCome
<1>9. /\ tokens # <<>> /\ Head(tokens) = [char |-> v[k + 1]]
      /\ Tail(tokens) = Raw(SubSeq(v, k + 2, n)) \o a
  <2>1. rest \o a # <<>> /\ Head(rest \o a) = Head(rest) /\ Tail(rest \o a) = Tail(rest) \o a
    BY <1>2, <1>6, ConcatTail
  <2> QED
    BY <1>6, <1>8, <2>1
<1>10. ~IsNumber(Head(tokens)) /\ Head(tokens).char = v[k + 1]
  BY <1>9 DEF IsNumber
<1>11. PICK part : part = Append(r.part, v[k + 1])
  OBVIOUS
<1>12. /\ part \in Seq(Chars \cup {Junk}) /\ Len(part) = k + 1
       /\ \A i \in DOMAIN part : part[i] = v[i]
  <2>1. v[k + 1] \in Chars \cup {Junk}
    BY <1>1, <1>2, <1>3 DEF Text
  <2>2. /\ part \in Seq(Chars \cup {Junk}) /\ Len(part) = k + 1 /\ part[k + 1] = v[k + 1]
        /\ \A i \in 1 .. k : part[i] = r.part[i]
    BY <1>1, <1>11, <1>k, <2>1, AppendProperties
  <2>3. DOMAIN r.part = 1 .. k /\ DOMAIN part = 1 .. k + 1
    BY <1>1, <1>k, <2>2
  <2>4. \A i \in 1 .. k + 1 : i \in 1 .. k \/ i = k + 1
    BY <1>3
  <2> QED
    BY <1>1, <2>2, <2>3, <2>4
<1>13. readchar(r, Head(tokens)) = IF k + 1 = n THEN finish(r, part)
                                   ELSE [r EXCEPT !.part = part]
  BY <1>10, <1>11, <1>12, <1>n DEF readchar
<1>14. CASE k + 1 = n
  <2>1. part = v
    <3>1. Len(part) = Len(v) /\ \A i \in 1 .. Len(part) : part[i] = v[i]
      BY <1>1, <1>3, <1>12, <1>14
    <3> QED
      BY <1>2, <1>12, <3>1, SeqEqual DEF Text
  <2>2. Head(r.todo) # "names"
    BY <1>1, NameKinds
  <2>3. LET s == finish(r, v)
        IN  Midway(s, m) /\ s.len = r.len /\ ToCome(s, m, fields) = a
    BY <1>1, <1>a, <1>v, <2>2, Finish
  <2>4. Raw(SubSeq(v, k + 2, n)) \o a = a
    <3>1. SubSeq(v, k + 2, n) = <<>>
      BY <1>3, <1>14, SubSeqEmpty
    <3>2. Raw(<<>>) = <<>>
      BY DEF Raw
    <3> QED
      BY <1>2, <3>1, <3>2, EmptyConcat
  <2> QED
    BY <1>7, <1>9, <1>10, <1>13, <1>14, <2>1, <2>3, <2>4
<1>15. CASE k + 1 # n
  <2> DEFINE s == [r EXCEPT !.part = part]
  <2>1. /\ s = [type |-> s.type, todo |-> s.todo, want |-> s.want, part |-> s.part,
                vals |-> s.vals, len |-> s.len]
        /\ s.type = r.type /\ s.todo = r.todo /\ s.want = n /\ s.part = part
        /\ s.vals = r.vals /\ s.len = r.len
    BY <1>n DEF Midway
  <2> HIDE DEF s
  <2>2. Len(s.part) < s.want
    BY <1>3, <1>12, <1>15, <2>1
  <2>3. Midway(s, m) /\ Value(s, m) = v /\ After(s, m) = a /\ s.want # ANumber
    BY <1>1, <1>12, <1>a, <1>v, <2>1, <2>2, SameItem
  <2>4. Len(s.part) + 1 = k + 2
    BY <1>3, <1>12, <2>1
  <2>5. ToCome(s, m, fields) = Raw(SubSeq(v, k + 2, n)) \o a
    BY <1>1, <1>4, <2>1, <2>3, <2>4 DEF ToCome
  <2> QED
    BY <1>7, <1>9, <1>10, <1>13, <1>15, <2>1, <2>3, <2>5 DEF s
<1> QED
  BY <1>14, <1>15
LEMMA OneType ==
    ASSUME NEW ty \in Types, NEW t \in Types, Message[t] = Message[ty]
    PROVE  t = ty
  BY DEF Types, Message

LEMMA TakeType ==
    ASSUME NEW m, NEW fields, NEW r, Sent(m, fields, r.len), r = freshReader(r.len),
           NEW fieldsOf, DOMAIN fieldsOf \subseteq Types, m.type \in DOMAIN fieldsOf,
           fieldsOf[m.type] = fields
    PROVE  LET tokens == ToCome(r, m, fields)
               s == take(r, Head(tokens), fieldsOf)
           IN  /\ tokens # <<>>
               /\ Midway(s, m) /\ s.len = r.len /\ ToCome(s, m, fields) = Tail(tokens)
<1>1. /\ r.type = "none" /\ r.want = ANumber /\ r.part = <<>>
  BY DEF freshReader
<1>n. PICK n : n = Message[m.type]
  OBVIOUS
<1>2. n \in Int /\ m.type # "none"
  BY <1>n DEF Sent, Types, Message
<1>3. Holds(m, fields)
  BY DEF Sent, Proper, Elements, Holds
<1>4. /\ Fields(m, fields) \in Seq(Tokens)
      /\ Fields(m, fields) =
           WriteField(Head(fields), m.vals[Head(fields)]) \o Fields(m, Tail(fields))
  BY <1>3, FieldsFirst DEF Sent
<1>5. PICK tokens : tokens = ToCome(r, m, fields)
  OBVIOUS
<1>6. tokens = writenum(n) \o Fields(m, fields)
  BY <1>1, <1>5, <1>n DEF ToCome, serialize, Fields
<1>7. tokens # <<>> /\ Head(tokens) = [num |-> n] /\ Tail(tokens) = Fields(m, fields)
  <2>1. /\ writenum(n) \in Seq(Tokens) /\ writenum(n) # <<>>
        /\ Head(writenum(n)) = [num |-> n] /\ Tail(writenum(n)) = <<>>
    BY <1>2, NumberTyped
  <2>2. /\ writenum(n) \o Fields(m, fields) # <<>>
        /\ Head(writenum(n) \o Fields(m, fields)) = Head(writenum(n))
        /\ Tail(writenum(n) \o Fields(m, fields)) = Tail(writenum(n)) \o Fields(m, fields)
    BY <1>4, <2>1, ConcatTail
  <2>3. <<>> \o Fields(m, fields) = Fields(m, fields)
    BY <1>4, EmptyConcat
  <2> QED
    BY <1>6, <2>1, <2>2, <2>3
<1>8. IsNumber(Head(tokens)) /\ readnum(r, Head(tokens)) = n
  BY <1>1, <1>7 DEF IsNumber, readnum
<1>9. {ty \in DOMAIN fieldsOf : Message[ty] = n} = {m.type}
  BY <1>n, OneType
<1> DEFINE s0 == reading(r, fields, ANumber, <<>>)
           s == [s0 EXCEPT !.type = m.type]
<1>10. take(r, Head(tokens), fieldsOf) = s
  <2>1. (CHOOSE t \in {m.type} : TRUE) = m.type
    OBVIOUS
  <2> HIDE DEF s0
  <2> QED
    BY <1>1, <1>8, <1>9, <2>1 DEF take, s0
<1>11. /\ s = [type |-> s.type, todo |-> s.todo, want |-> s.want, part |-> s.part,
               vals |-> s.vals, len |-> s.len]
       /\ s.type = m.type /\ s.todo = fields /\ s.want = ANumber /\ s.part = <<>>
       /\ s.vals = <<>> /\ s.len = r.len
  BY DEF reading
<1> HIDE DEF s, s0
<1>12. DOMAIN <<>> = {} /\ <<>> = [f \in DOMAIN <<>> |-> <<>>[f]]
  OBVIOUS
<1>13. AtFields(s, m)
  BY <1>11, <1>12 DEF AtFields, Sent
<1>14. Midway(s, m)
  BY <1>11, <1>13 DEF Midway, AtItem, Sent
<1>15. Head(fields) # "name" /\ fields # <<>>
  BY ProperTail DEF Sent
<1>16. ToCome(s, m, fields) = Fields(m, fields)
  BY <1>2, <1>4, <1>11, <1>15 DEF ToCome, Value, After
<1> QED
  BY <1>5, <1>7, <1>10, <1>11, <1>14, <1>16

\* A reader takes the next token of the message, and all those after it are still to come.
LEMMA TakeKeeps ==
    ASSUME NEW m, NEW fields, NEW r, Sent(m, fields, r.len), Reads(r, m),
           NEW fieldsOf, DOMAIN fieldsOf \subseteq Types, m.type \in DOMAIN fieldsOf,
           fieldsOf[m.type] = fields, ToCome(r, m, fields) # <<>>
    PROVE  LET tokens == ToCome(r, m, fields)
               s == take(r, Head(tokens), fieldsOf)
           IN  Midway(s, m) /\ s.len = r.len /\ ToCome(s, m, fields) = Tail(tokens)
<1>1. CASE r = freshReader(r.len)
  BY <1>1, TakeType
<1>2. CASE Midway(r, m)
  <2>1. r.type # "none"
    BY <1>2 DEF Midway, Sent, Types, Message
  <2>2. r.todo # <<>>
    BY <2>1 DEF ToCome
  <2>3. CASE r.want # ANumber
    <3>1. take(r, Head(ToCome(r, m, fields)), fieldsOf) = readchar(r, Head(ToCome(r, m, fields)))
      BY <2>3 DEF take
    <3> QED
      BY <1>2, <2>3, <3>1, TakeChar
  <2>4. CASE r.want = ANumber
    <3>1. LET tokens == ToCome(r, m, fields)
              s == readfield(r, Head(tokens).num)
          IN  /\ tokens # <<>> /\ IsNumber(Head(tokens))
              /\ Midway(s, m) /\ s.len = r.len /\ ToCome(s, m, fields) = Tail(tokens)
      BY <1>2, <2>2, <2>4, TakeLength, TakeCount, TakeNumber
    <3>2. r.part = <<>>
      BY <1>2, <2>4 DEF Midway, AtItem
    <3>3. take(r, Head(ToCome(r, m, fields)), fieldsOf) =
              readfield(r, Head(ToCome(r, m, fields)).num)
      BY <2>1, <2>4, <3>1, <3>2 DEF take, readnum
    <3> QED
      BY <3>1, <3>3
  <2> QED
    BY <2>3, <2>4
<1> QED
  BY <1>1, <1>2 DEF Reads

\* A reader has all of m when nothing is to come.
LEMMA Done ==
    ASSUME NEW m, NEW fields, NEW r, Sent(m, fields, r.len), Reads(r, m)
    PROVE  /\ Complete(r) <=> ToCome(r, m, fields) = <<>>
           /\ Complete(r) => message(r) = m
<1>1. CASE r = freshReader(r.len)
  <2>1. ~Complete(r)
    BY <1>1 DEF freshReader, Complete
  <2>2. PICK fieldsOf : fieldsOf = [ty \in {m.type} |-> fields]
    OBVIOUS
  <2>3. DOMAIN fieldsOf = {m.type} /\ m.type \in Types /\ fieldsOf[m.type] = fields
    BY <2>2 DEF Sent
  <2>4. LET tokens == ToCome(r, m, fields)
            s == take(r, Head(tokens), fieldsOf)
        IN  /\ tokens # <<>>
            /\ Midway(s, m) /\ s.len = r.len /\ ToCome(s, m, fields) = Tail(tokens)
    BY <1>1, <2>3, TakeType
  <2> QED
    BY <2>1, <2>4
<1>2. CASE Midway(r, m)
  <2>1. r.type # "none" /\ r.type = m.type
    BY <1>2 DEF Midway, Sent, Types, Message
  <2>2. ASSUME r.todo = <<>>
        PROVE  ToCome(r, m, fields) = <<>> /\ message(r) = m
    <3>1. ToCome(r, m, fields) = <<>>
      BY <2>1, <2>2 DEF ToCome
    <3>2. AtFields(r, m)
      BY <1>2, <2>2 DEF Midway, AtNames
    <3>3. r.vals = [f \in DOMAIN r.vals |-> r.vals[f]] /\ DOMAIN r.vals = DOMAIN m.vals
          /\ \A f \in DOMAIN r.vals : r.vals[f] = m.vals[f]
      BY <2>2, <3>2, ProperEmpty DEF AtFields
    <3>4. m = [type |-> m.type, vals |-> [f \in DOMAIN m.vals |-> m.vals[f]]]
      BY DEF Sent
    <3>5. [f \in DOMAIN m.vals |-> m.vals[f]] = [f \in DOMAIN r.vals |-> r.vals[f]]
      BY <3>3
    <3>6. m = [type |-> r.type, vals |-> r.vals]
      BY <2>1, <3>3, <3>4, <3>5
    <3> QED
      BY <3>1, <3>6 DEF message
  <2>3. ASSUME r.todo # <<>>
        PROVE  ToCome(r, m, fields) # <<>>
    <3>1. CASE r.want # ANumber
      BY <1>2, <3>1, TakeChar
    <3>2. CASE r.want = ANumber
      BY <1>2, <2>3, <3>2, TakeLength, TakeCount, TakeNumber
    <3> QED
      BY <3>1, <3>2
  <2> QED
    BY <2>1, <2>2, <2>3 DEF Complete
<1> QED
  BY <1>1, <1>2 DEF Reads
LEMMA CutIs ==
    ASSUME NEW m, NEW fields, NEW len, Sent(m, fields, len), "data" \in DOMAIN m.vals, NEW c
    PROVE  c \in Cut(m) <=>
             \E n \in 0 .. Len(m.vals.data) :
                c = [type |-> m.type,
                     vals |-> [f \in DOMAIN m.vals |->
                                 IF f = "data"
                                 THEN [i \in DOMAIN m.vals.data |->
                                         IF i > n THEN Junk ELSE m.vals.data[i]]
                                 ELSE m.vals[f]]]
<1>1. m = [type |-> m.type, vals |-> [f \in DOMAIN m.vals |-> m.vals[f]]]
  BY DEF Sent
<1> DEFINE spoilt(n) == [i \in DOMAIN m.vals.data |-> IF i > n THEN Junk ELSE m.vals.data[i]]
           cut(n) == [m EXCEPT !.vals.data = spoilt(n)]
           record(n) ==
               [type |-> m.type,
                vals |-> [f \in DOMAIN m.vals |->
                            IF f = "data"
                            THEN [i \in DOMAIN m.vals.data |->
                                    IF i > n THEN Junk ELSE m.vals.data[i]]
                            ELSE m.vals[f]]]
<1>2. ASSUME NEW n \in 0 .. Len(m.vals.data)
      PROVE  cut(n) = record(n)
  <2>1. m.vals = [f \in DOMAIN m.vals |-> m.vals[f]]
    BY <1>1
  <2> DEFINE vals == [m.vals EXCEPT !["data"] = spoilt(n)]
  <2>2. vals = [f \in DOMAIN m.vals |-> IF f = "data" THEN spoilt(n) ELSE m.vals[f]]
    BY <2>1
  <2>3. cut(n) = [m EXCEPT !.vals = vals]
    OBVIOUS
  <2>4. [m EXCEPT !.vals = vals] = [type |-> m.type, vals |-> vals]
    <3> HIDE DEF vals
    <3> QED
      BY <1>1
  <2> QED
    BY <2>2, <2>3, <2>4
<1>3. Cut(m) = {cut(n) : n \in 0 .. Len(m.vals.data)}
  BY DEF Cut
<1> HIDE DEF cut
<1>4. c \in Cut(m) <=> \E n \in 0 .. Len(m.vals.data) : c = cut(n)
  BY <1>3
<1> HIDE DEF record
<1>5. c \in Cut(m) <=> \E n \in 0 .. Len(m.vals.data) : c = record(n)
  BY <1>2, <1>4
<1> QED
  BY <1>5 DEF record

LEMMA CutTyped ==
    ASSUME NEW m, NEW fields, NEW len, Sent(m, fields, len), "data" \in DOMAIN m.vals,
           NEW c \in Cut(m)
    PROVE  /\ c.type = m.type /\ IsMessage(c, fields)
           /\ \A f \in DOMAIN m.vals \ {"data"} : c.vals[f] = m.vals[f]
<1>d. PICK data : data = m.vals.data
  OBVIOUS
<1>1. PICK n \in 0 .. Len(data) :
          c = [type |-> m.type,
               vals |-> [f \in DOMAIN m.vals |->
                           IF f = "data"
                           THEN [i \in DOMAIN data |-> IF i > n THEN Junk ELSE data[i]]
                           ELSE m.vals[f]]]
  BY <1>d, CutIs
<1>2. data \in Text
  BY <1>d, NameKinds DEF Sent
<1>3. [i \in DOMAIN data |-> IF i > n THEN Junk ELSE data[i]] \in Text
  <2>1. Len(data) \in Nat /\ DOMAIN data = 1 .. Len(data)
        /\ \A i \in 1 .. Len(data) : data[i] \in Chars \cup {Junk}
    BY <1>2 DEF Text
  <2> QED
    BY <2>1 DEF Text
<1>4. /\ DOMAIN c.vals = DOMAIN m.vals /\ c.type = m.type
      /\ \A f \in DOMAIN m.vals \ {"data"} : c.vals[f] = m.vals[f]
      /\ c.vals["data"] \in Values("data")
  BY <1>1, <1>3, NameKinds
<1>5. \A f \in DOMAIN c.vals : c.vals[f] \in Values(f)
  BY <1>4 DEF Sent
<1>6. DOMAIN c.vals = {fields[i] : i \in DOMAIN fields}
  BY <1>4 DEF Sent, Elements
<1> QED
  BY <1>4, <1>5, <1>6 DEF IsMessage

\* At the end of the stream data is completed, and nothing else.
LEMMA TornCut ==
    ASSUME NEW m, NEW fields, NEW r, Sent(m, fields, r.len), Reads(r, m), InData(r)
    PROVE  /\ "data" \in DOMAIN m.vals /\ Complete(Torn(r)) /\ message(Torn(r)) \in Cut(m)
           /\ Torn(r).len = r.len /\ Torn(r).want = ANumber /\ IsReader(Torn(r))
<1>1. Midway(r, m) /\ r.want # ANumber /\ r.todo # <<>> /\ Head(r.todo) = "data"
  <2>1. r.want # ANumber /\ Head(r.todo) = "data"
    BY DEF InData
  <2>2. r # freshReader(r.len)
    BY <2>1 DEF freshReader
  <2>3. Midway(r, m)
    BY <2>2 DEF Reads
  <2> QED
    BY <2>1, <2>3 DEF Midway, AtItem
<1>d. PICK data : data = m.vals.data
  OBVIOUS
<1>p. PICK p : p = Len(r.part)
  OBVIOUS
<1>2. AtFields(r, m) /\ r.type = m.type
  BY <1>1, Where DEF Midway
<1>3. /\ Tail(r.todo) = <<>> /\ Elements(r.todo) = {"data"} /\ "data" \in DOMAIN m.vals
      /\ DOMAIN r.vals = DOMAIN m.vals \ {"data"}
      /\ \A f \in DOMAIN r.vals : r.vals[f] = m.vals[f]
  <2>1. Tail(r.todo) = <<>> /\ Elements(r.todo) = {"data"}
    BY <1>1, <1>2, ProperTail, ProperEmpty DEF AtFields
  <2> QED
    BY <1>2, <2>1 DEF AtFields
<1>4. data \in Text
  BY <1>3, <1>d, NameKinds DEF Sent
<1>5. /\ r.want = Len(data) /\ r.part \in Seq(Chars \cup {Junk}) /\ p < Len(data)
      /\ \A i \in DOMAIN r.part : r.part[i] = data[i]
  BY <1>1, <1>d, <1>p DEF Midway, AtItem, Value
<1>6. p \in 0 .. Len(data) /\ DOMAIN r.part = 1 .. p /\ DOMAIN data = 1 .. Len(data)
  BY <1>4, <1>5, <1>p DEF Text
<1>t. PICK torn : torn = [i \in 1 .. r.want |-> IF i =< Len(r.part) THEN r.part[i] ELSE Junk]
  OBVIOUS
<1>7. torn = [i \in DOMAIN data |-> IF i > p THEN Junk ELSE data[i]]
  BY <1>5, <1>6, <1>p, <1>t
<1>8. Torn(r) = reading(r, <<>>, ANumber, With(r.vals, "data", torn))
  BY <1>1, <1>3, <1>t DEF Torn, finish
<1>9. /\ Torn(r).type = m.type /\ Torn(r).todo = <<>> /\ Torn(r).len = r.len
      /\ Torn(r).vals = With(r.vals, "data", torn) /\ Torn(r).want = ANumber
  BY <1>2, <1>8 DEF reading
<1>10. With(r.vals, "data", torn) =
         [f \in DOMAIN m.vals |-> IF f = "data" THEN torn ELSE m.vals[f]]
  <2>1. DOMAIN r.vals \cup {"data"} = DOMAIN m.vals
    BY <1>3
  <2>2. \A f \in DOMAIN m.vals : f = "data" \/ r.vals[f] = m.vals[f]
    BY <1>3
  <2> QED
    BY <2>1, <2>2 DEF With
<1>11. message(Torn(r)) \in Cut(m)
  <2>1. message(Torn(r)) =
           [type |-> m.type,
            vals |-> [f \in DOMAIN m.vals |->
                        IF f = "data"
                        THEN [i \in DOMAIN m.vals.data |->
                                IF i > p THEN Junk ELSE m.vals.data[i]]
                        ELSE m.vals[f]]]
    BY <1>7, <1>9, <1>10, <1>d DEF message
  <2> QED
    BY <1>3, <1>6, <1>d, <2>1, CutIs
<1>12. Complete(Torn(r))
  BY <1>9 DEF Complete, Sent, Types, Message
<1>13. IsReader(Torn(r))
  <2>1. IsMessage(message(Torn(r)), fields)
    BY <1>3, <1>11, CutTyped
  <2>2. \A f \in DOMAIN Torn(r).vals : Torn(r).vals[f] \in Values(f)
    BY <2>1 DEF IsMessage, message
  <2>3. Torn(r).type \in Types
    BY <1>9 DEF Sent
  <2> QED
    BY <1>9, <2>2, <2>3 DEF IsReader
<1> QED
  BY <1>3, <1>9, <1>11, <1>12, <1>13

LEMMA ReaderTyped ==
    ASSUME NEW m, NEW fields, NEW r, Sent(m, fields, r.len), Reads(r, m)
    PROVE  IsReader(r)
<1>1. CASE r = freshReader(r.len)
  BY <1>1 DEF freshReader, IsReader
<1>2. CASE Midway(r, m)
  <2>1. r.type \in Types
    BY <1>2 DEF Midway, Sent
  <2>2. r.want = ANumber \/ (r.want > Len(r.part) /\ r.todo # <<>>)
    <3>1. ASSUME r.want # ANumber
          PROVE  r.want > Len(r.part) /\ r.todo # <<>>
      <4>1. Len(r.part) < r.want /\ r.todo # <<>>
        BY <1>2, <3>1 DEF Midway, AtItem
      <4> QED
        BY <4>1
    <3> QED
      BY <3>1
  <2>3. CASE AtFields(r, m)
    <3>1. \A i \in DOMAIN r.todo : r.todo[i] \notin DOMAIN r.vals
      BY <2>3 DEF AtFields, Elements
    <3>2. \A f \in DOMAIN r.vals : r.vals[f] \in Values(f)
      BY <2>3 DEF AtFields, Sent
    <3> QED
      BY <2>1, <2>2, <3>1, <3>2 DEF IsReader
  <2>4. CASE AtNames(r, m)
    <3>1. \A i \in DOMAIN r.todo : r.todo[i] = "name"
      BY <2>4 DEF AtNames
    <3>2. "name" \notin DOMAIN m.vals
      BY DEF Sent, Proper, Elements
    <3>3. \A f \in DOMAIN r.vals : r.vals[f] \in Values(f)
      BY <2>4, NameKinds DEF AtNames, Sent
    <3>4. DOMAIN r.vals = DOMAIN m.vals
      BY <2>4 DEF AtNames
    <3> QED
      BY <2>1, <2>2, <3>1, <3>2, <3>3, <3>4 DEF IsReader
  <2> QED
    BY <1>2, <2>3, <2>4 DEF Midway
<1> QED
  BY <1>1, <1>2 DEF Reads
(* What the processes send can be read. *)

LEMMA ListOf1 ==
    ASSUME NEW s, NEW a, s = <<a>>,
           a # "name"
    PROVE  Proper(s) /\ s # <<>> /\ Head(s) = a /\ Elements(s) = {a}
<1>1. Elements(<<a>>) = {a} /\ <<a>> \in Seq({a})
  BY DEF Elements
<1>2. /\ DOMAIN s = {1} /\ Len(s) = 1
      /\ s[1] = a
  OBVIOUS
<1>3. s \in Seq(Elements(s)) /\ Elements(s) = {a}
  BY <1>1, Zenon
<1>4. \A i, j \in DOMAIN s : s[i] = s[j] => i = j
  BY <1>2
<1>5. \A i \in DOMAIN s : s[i] # "name" /\ (s[i] \in {"data", "names"} => i = Len(s))
  BY <1>2
<1> QED
  BY <1>2, <1>3, <1>4, <1>5 DEF Proper

LEMMA ListOf2 ==
    ASSUME NEW s, NEW a, NEW b, s = <<a, b>>,
           {a} \cap {"name", "data", "names"} = {}, b # "name",
           a # b
    PROVE  Proper(s) /\ s # <<>> /\ Head(s) = a /\ Elements(s) = {a, b}
<1>1. Elements(<<a, b>>) = {a, b} /\ <<a, b>> \in Seq({a, b})
  BY DEF Elements
<1>2. /\ DOMAIN s = {1, 2} /\ Len(s) = 2
      /\ s[1] = a /\ s[2] = b
  OBVIOUS
<1>3. s \in Seq(Elements(s)) /\ Elements(s) = {a, b}
  BY <1>1, Zenon
<1>4. \A i, j \in DOMAIN s : s[i] = s[j] => i = j
  BY <1>2
<1>5. \A i \in DOMAIN s : s[i] # "name" /\ (s[i] \in {"data", "names"} => i = Len(s))
  BY <1>2
<1> QED
  BY <1>2, <1>3, <1>4, <1>5 DEF Proper

LEMMA ListOf3 ==
    ASSUME NEW s, NEW a, NEW b, NEW c, s = <<a, b, c>>,
           {a, b} \cap {"name", "data", "names"} = {}, c # "name",
           a # b, a # c, b # c
    PROVE  Proper(s) /\ s # <<>> /\ Head(s) = a /\ Elements(s) = {a, b, c}
<1>1. Elements(<<a, b, c>>) = {a, b, c} /\ <<a, b, c>> \in Seq({a, b, c})
  BY DEF Elements
<1>2. /\ DOMAIN s = {1, 2, 3} /\ Len(s) = 3
      /\ s[1] = a /\ s[2] = b /\ s[3] = c
  OBVIOUS
<1>3. s \in Seq(Elements(s)) /\ Elements(s) = {a, b, c}
  BY <1>1, Zenon
<1>4. \A i, j \in DOMAIN s : s[i] = s[j] => i = j
  BY <1>2
<1>5. \A i \in DOMAIN s : s[i] # "name" /\ (s[i] \in {"data", "names"} => i = Len(s))
  BY <1>2
<1> QED
  BY <1>2, <1>3, <1>4, <1>5 DEF Proper

LEMMA ListOf4 ==
    ASSUME NEW s, NEW a, NEW b, NEW c, NEW d, s = <<a, b, c, d>>,
           {a, b, c} \cap {"name", "data", "names"} = {}, d # "name",
           a # b, a # c, a # d, b # c, b # d, c # d
    PROVE  Proper(s) /\ s # <<>> /\ Head(s) = a /\ Elements(s) = {a, b, c, d}
<1>1. Elements(<<a, b, c, d>>) = {a, b, c, d} /\ <<a, b, c, d>> \in Seq({a, b, c, d})
  <2> DEFINE l == <<a, b, c, d>>
  <2>1. DOMAIN l = {1, 2, 3, 4}
    OBVIOUS
  <2>2. Elements(l) = {l[1], l[2], l[3], l[4]}
    BY <2>1 DEF Elements
  <2> QED
    BY <2>2
<1>2. /\ DOMAIN s = {1, 2, 3, 4} /\ Len(s) = 4
      /\ s[1] = a /\ s[2] = b /\ s[3] = c /\ s[4] = d
  OBVIOUS
<1>3. s \in Seq(Elements(s)) /\ Elements(s) = {a, b, c, d}
  BY <1>1, Zenon
<1>4. \A i, j \in DOMAIN s : s[i] = s[j] => i = j
  BY <1>2
<1>5. \A i \in DOMAIN s : s[i] # "name" /\ (s[i] \in {"data", "names"} => i = Len(s))
  BY <1>2
<1> QED
  BY <1>2, <1>3, <1>4, <1>5 DEF Proper

LEMMA ListOf5 ==
    ASSUME NEW s, NEW a, NEW b, NEW c, NEW d, NEW e, s = <<a, b, c, d, e>>,
           {a, b, c, d} \cap {"name", "data", "names"} = {}, e # "name",
           a # b, a # c, a # d, a # e, b # c, b # d, b # e, c # d, c # e, d # e
    PROVE  Proper(s) /\ s # <<>> /\ Head(s) = a /\ Elements(s) = {a, b, c, d, e}
<1>1. Elements(<<a, b, c, d, e>>) = {a, b, c, d, e} /\ <<a, b, c, d, e>> \in Seq({a, b, c, d, e})
  <2> DEFINE l == <<a, b, c, d, e>>
  <2>1. DOMAIN l = {1, 2, 3, 4, 5}
    OBVIOUS
  <2>2. Elements(l) = {l[1], l[2], l[3], l[4], l[5]}
    BY <2>1 DEF Elements
  <2> QED
    BY <2>2
<1>2. /\ DOMAIN s = {1, 2, 3, 4, 5} /\ Len(s) = 5
      /\ s[1] = a /\ s[2] = b /\ s[3] = c /\ s[4] = d /\ s[5] = e
  OBVIOUS
<1>3. s \in Seq(Elements(s)) /\ Elements(s) = {a, b, c, d, e}
  BY <1>1, Zenon
<1>4. \A i, j \in DOMAIN s : s[i] = s[j] => i = j
  BY <1>2
<1>5. \A i \in DOMAIN s : s[i] # "name" /\ (s[i] \in {"data", "names"} => i = Len(s))
  BY <1>2
<1> QED
  BY <1>2, <1>3, <1>4, <1>5 DEF Proper

LEMMA RequestFieldsProper ==
    ASSUME NEW ty \in Types
    PROVE  /\ Proper(RequestFields[ty]) /\ RequestFields[ty] # <<>>
           /\ Head(RequestFields[ty]) = "path"
           /\ "data" \in Elements(RequestFields[ty]) => ty = "WRITE"
           /\ ty = "WRITE" => "size" \in Elements(RequestFields[ty])
<1>f. PICK fields : fields = RequestFields[ty]
  OBVIOUS
<1>1. CASE ty \in {"GETATTR", "READDIR", "READLINK", "UNLINK", "RMDIR", "STATFS"}
  <2>1. fields = <<"path">>
    BY <1>f, <1>1 DEF RequestFields
  <2> QED
    BY <1>f, <1>1, <2>1, ListOf1
<1>2. CASE ty \in {"ACCESS", "TRUNCATE", "CHMOD", "LINK", "RENAME"}
  <2>1. CASE ty \in {"ACCESS"}
    <3>1. fields = <<"path", "acc">>
      BY <1>f, <2>1 DEF RequestFields
    <3> QED
      BY <1>f, <2>1, <3>1, ListOf2
  <2>2. CASE ty \in {"TRUNCATE"}
    <3>1. fields = <<"path", "length">>
      BY <1>f, <2>2 DEF RequestFields
    <3> QED
      BY <1>f, <2>2, <3>1, ListOf2
  <2>3. CASE ty \in {"CHMOD"}
    <3>1. fields = <<"path", "mode">>
      BY <1>f, <2>3 DEF RequestFields
    <3> QED
      BY <1>f, <2>3, <3>1, ListOf2
  <2>4. CASE ty \in {"LINK", "RENAME"}
    <3>1. fields = <<"path", "path2">>
      BY <1>f, <2>4 DEF RequestFields
    <3> QED
      BY <1>f, <2>4, <3>1, ListOf2
  <2> QED
    BY <1>2, <2>1, <2>2, <2>3, <2>4
<1>3. CASE ty \in {"READ", "OPEN", "CHOWN"}
  <2>1. CASE ty \in {"READ"}
    <3>1. fields = <<"path", "size", "offset">>
      BY <1>f, <2>1 DEF RequestFields
    <3> QED
      BY <1>f, <2>1, <3>1, ListOf3
  <2>2. CASE ty \in {"OPEN"}
    <3>1. fields = <<"path", "mode", "flags">>
      BY <1>f, <2>2 DEF RequestFields
    <3> QED
      BY <1>f, <2>2, <3>1, ListOf3
  <2>3. CASE ty \in {"CHOWN"}
    <3>1. fields = <<"path", "uid", "gid">>
      BY <1>f, <2>3 DEF RequestFields
    <3> QED
      BY <1>f, <2>3, <3>1, ListOf3
  <2> QED
    BY <1>3, <2>1, <2>2, <2>3
<1>4. CASE ty \in {"WRITE", "CREAT", "MKDIR", "SYMLINK"}
  <2>1. CASE ty \in {"WRITE"}
    <3>1. fields = <<"path", "size", "offset", "data">>
      BY <1>f, <2>1 DEF RequestFields
    <3> QED
      BY <1>f, <2>1, <3>1, ListOf4
  <2>2. CASE ty \in {"CREAT", "MKDIR"}
    <3>1. fields = <<"path", "uid", "gid", "mode">>
      BY <1>f, <2>2 DEF RequestFields
    <3> QED
      BY <1>f, <2>2, <3>1, ListOf4
  <2>3. CASE ty \in {"SYMLINK"}
    <3>1. fields = <<"path", "uid", "gid", "from">>
      BY <1>f, <2>3 DEF RequestFields
    <3> QED
      BY <1>f, <2>3, <3>1, ListOf4
  <2> QED
    BY <1>4, <2>1, <2>2, <2>3
<1>5. CASE ty \in {"MKNOD", "UTIMENS"}
  <2>1. CASE ty \in {"MKNOD"}
    <3>1. fields = <<"path", "dev", "uid", "gid", "mode">>
      BY <1>f, <2>1 DEF RequestFields
    <3> QED
      BY <1>f, <2>1, <3>1, ListOf5
  <2>2. CASE ty \in {"UTIMENS"}
    <3>1. fields = <<"path", "atime", "atimens", "mtime", "mtimens">>
      BY <1>f, <2>2 DEF RequestFields
    <3> QED
      BY <1>f, <2>2, <3>1, ListOf5
  <2> QED
    BY <1>5, <2>1, <2>2
<1> QED
  BY <1>1, <1>2, <1>3, <1>4, <1>5 DEF Types, Message

\* A field in front of the others.
LEMMA ProperCons ==
    ASSUME NEW f, f \notin {"name", "data", "names"}, NEW s, Proper(s), f \notin Elements(s)
    PROVE  LET t == <<f>> \o s
           IN  /\ Proper(t) /\ t # <<>> /\ Head(t) = f /\ Elements(t) = {f} \cup Elements(s)
               /\ Len(t) = Len(s) + 1 /\ \A i \in DOMAIN s : t[i + 1] = s[i]
<1>t. PICK t : t = <<f>> \o s
  OBVIOUS
<1>n. PICK n : n = Len(s)
  OBVIOUS
<1> DEFINE S == {f} \cup Elements(s)
<1>1. s \in Seq(S) /\ <<f>> \in Seq(S) /\ n \in Nat /\ DOMAIN s = 1 .. n
  BY <1>n DEF Proper
<1>2. /\ t \in Seq(S) /\ Len(t) = 1 + n
      /\ \A i \in 1 .. 1 + n : t[i] = IF i =< 1 THEN <<f>>[i] ELSE s[i - 1]
  BY <1>1, <1>n, <1>t, ConcatProperties
<1>3. /\ DOMAIN t = 1 .. n + 1 /\ t[1] = f /\ Len(t) = n + 1
      /\ \A i \in 1 .. n : t[i + 1] = s[i]
      /\ \A i \in 1 .. n + 1 : i = 1 \/ (i - 1 \in 1 .. n /\ t[i] = s[i - 1])
  BY <1>1, <1>2
<1>p. \A i \in 1 .. n :
        /\ s[i] # "name" /\ (s[i] \in {"data", "names"} => i = n) /\ s[i] # f
        /\ \A j \in 1 .. n : s[i] = s[j] => i = j
  BY <1>1, <1>n DEF Proper, Elements
<1>4. Elements(t) = S
  <2>1. \A i \in 1 .. n : s[i] \in Elements(t)
    <3>1. \A i \in 1 .. n : i + 1 \in DOMAIN t
      BY <1>1, <1>3
    <3> QED
      BY <1>3, <3>1 DEF Elements
  <2>2. f \in Elements(t)
    <3>1. 1 \in DOMAIN t
      BY <1>1, <1>3
    <3> QED
      BY <1>3, <3>1 DEF Elements
  <2>3. \A i \in 1 .. n + 1 : t[i] \in S
    BY <1>1, <1>3 DEF Elements
  <2> QED
    BY <1>1, <1>3, <2>1, <2>2, <2>3 DEF Elements
<1>5. ASSUME NEW i \in 1 .. n + 1
      PROVE  /\ t[i] # "name" /\ (t[i] \in {"data", "names"} => i = n + 1)
             /\ \A j \in 1 .. n + 1 : t[i] = t[j] => i = j
  <2>1. t[i] # "name"
    BY <1>3, <1>p
  <2>2. t[i] \in {"data", "names"} => i = n + 1
    BY <1>1, <1>3, <1>p
  <2>3. ASSUME NEW j \in 1 .. n + 1, t[i] = t[j]
        PROVE  i = j
    <3>1. CASE i = 1 \/ j = 1
      BY <1>3, <1>p, <2>3, <3>1
    <3>2. CASE i # 1 /\ j # 1
      <4>1. i - 1 = j - 1
        BY <1>3, <1>p, <2>3, <3>2
      <4> QED
        BY <1>1, <4>1
    <3> QED
      BY <3>1, <3>2
  <2> QED
    BY <2>1, <2>2, <2>3
<1>6. Proper(t)
  <2> HIDE DEF S
  <2> QED
    BY <1>2, <1>3, <1>4, <1>5 DEF Proper
<1>7. t # <<>> /\ Head(t) = f
  BY <1>1, <1>2, <1>3
<1> QED
  BY <1>1, <1>3, <1>4, <1>6, <1>7, <1>n, <1>t

LEMMA StatProper ==
    \A s \in {StatFields, StatvfsFields} :
        Proper(s) /\ \A i \in DOMAIN s : s[i] # "result" /\ Kind(s[i]) = "number"
<1>1. ASSUME NEW s, s = StatFields
      PROVE  Proper(s) /\ \A i \in DOMAIN s : s[i] # "result" /\ Kind(s[i]) = "number"
  <2>1. DOMAIN s = 1 .. 9 /\ Len(s) = 9
    BY <1>1 DEF StatFields
  <2>2. \A i \in 1 .. 9 : i \in {1, 2, 3, 4, 5, 6, 7, 8, 9}
    OBVIOUS
  <2>3. /\ s[1] = "mode" /\ s[2] = "nlink" /\ s[3] = "uid" /\ s[4] = "gid" /\ s[5] = "rdev"
        /\ s[6] = "size" /\ s[7] = "atime" /\ s[8] = "mtime" /\ s[9] = "ctime"
    BY <1>1 DEF StatFields
  <2>4. \A i \in 1 .. 9 : s[i] \notin {"name", "data", "names", "result"} /\ Kind(s[i]) = "number"
    BY <2>2, <2>3 DEF Kind
  <2>5. \A i, j \in 1 .. 9 : s[i] = s[j] => i = j
    BY <2>2, <2>3
  <2>6. s = [i \in 1 .. 9 |-> s[i]]
    BY <1>1, <2>1 DEF StatFields
  <2>7. s \in Seq(Elements(s))
    <3>1. \A i \in 1 .. 9 : s[i] \in Elements(s)
      BY <2>1 DEF Elements
    <3> QED
      BY <2>6, <3>1
  <2> QED
    BY <2>1, <2>4, <2>5, <2>7 DEF Proper
<1>2. ASSUME NEW s, s = StatvfsFields
      PROVE  Proper(s) /\ \A i \in DOMAIN s : s[i] # "result" /\ Kind(s[i]) = "number"
  <2>1. DOMAIN s = 1 .. 11 /\ Len(s) = 11
    BY <1>2 DEF StatvfsFields
  <2>2. \A i \in 1 .. 11 : i \in {1, 2, 3, 4, 5, 6, 7, 8, 9, 10, 11}
    OBVIOUS
  <2>3. /\ s[1] = "bsize" /\ s[2] = "frsize" /\ s[3] = "blocks" /\ s[4] = "bfree"
        /\ s[5] = "bavail" /\ s[6] = "files" /\ s[7] = "ffree" /\ s[8] = "favail"
        /\ s[9] = "fsid" /\ s[10] = "flag" /\ s[11] = "namemax"
    BY <1>2 DEF StatvfsFields
  <2>4. \A i \in 1 .. 11 : s[i] \notin {"name", "data", "names", "result"} /\ Kind(s[i]) = "number"
    BY <2>2, <2>3 DEF Kind
  <2>5. \A i, j \in 1 .. 11 : s[i] = s[j] => i = j
    BY <2>2, <2>3
  <2>6. s = [i \in 1 .. 11 |-> s[i]]
    BY <1>2, <2>1 DEF StatvfsFields
  <2>7. s \in Seq(Elements(s))
    <3>1. \A i \in 1 .. 11 : s[i] \in Elements(s)
      BY <2>1 DEF Elements
    <3> QED
      BY <2>6, <3>1
  <2> QED
    BY <2>1, <2>4, <2>5, <2>7 DEF Proper
<1> QED
  BY <1>1, <1>2

LEMMA ReplyFieldsProper ==
    ASSUME NEW ty
    PROVE  LET fields == ReplyFields(ty)
           IN  /\ Proper(fields) /\ fields # <<>> /\ Head(fields) = "result"
               /\ Elements(fields) = {"result"} \cup
                    CASE ty = "GETATTR" -> Elements(StatFields)
                      [] ty = "STATFS" -> Elements(StatvfsFields)
                      [] ty = "READDIR" -> {"names"}
                      [] ty = "READLINK" -> {"target"}
                      [] ty = "READ" -> {"data"}
                      [] OTHER -> {}
<1>s. PICK s : s = CASE ty = "GETATTR" -> StatFields
                     [] ty = "STATFS" -> StatvfsFields
                     [] ty = "READDIR" -> <<"names">>
                     [] ty = "READLINK" -> <<"target">>
                     [] ty = "READ" -> <<"data">>
                     [] OTHER -> <<>>
  OBVIOUS
<1>f. PICK fields : fields = <<"result">> \o s
  OBVIOUS
<1>1. fields = ReplyFields(ty)
  BY <1>f, <1>s DEF ReplyFields
<1>2. Proper(s) /\ "result" \notin Elements(s)
      /\ Elements(s) =
                    CASE ty = "GETATTR" -> Elements(StatFields)
                      [] ty = "STATFS" -> Elements(StatvfsFields)
                      [] ty = "READDIR" -> {"names"}
                      [] ty = "READLINK" -> {"target"}
                      [] ty = "READ" -> {"data"}
                      [] OTHER -> {}
  <2>1. CASE ty \in {"GETATTR", "STATFS"}
    <3>1. s \in {StatFields, StatvfsFields}
      BY <1>s, <2>1
    <3>2. Proper(s) /\ "result" \notin Elements(s)
      BY <3>1, StatProper DEF Elements
    <3>3. Elements(s) = IF ty = "GETATTR" THEN Elements(StatFields) ELSE Elements(StatvfsFields)
      BY <1>s, <2>1
    <3> QED
      BY <2>1, <3>2, <3>3
  <2>2. CASE ty = "READDIR"
    BY <1>s, <2>2, ListOf1
  <2>3. CASE ty = "READLINK"
    BY <1>s, <2>3, ListOf1
  <2>4. CASE ty = "READ"
    BY <1>s, <2>4, ListOf1
  <2>5. CASE ty \notin {"GETATTR", "STATFS", "READDIR", "READLINK", "READ"}
    BY <1>s, <2>5, ProperEmpty
  <2> QED
    BY <2>1, <2>2, <2>3, <2>4, <2>5
<1>3. Proper(fields) /\ fields # <<>> /\ Head(fields) = "result"
      /\ Elements(fields) = {"result"} \cup Elements(s)
  BY <1>2, <1>f, ProperCons
<1> QED
  BY <1>1, <1>2, <1>3

\* A request can be read, whatever room there is.
LEMMA RequestSent ==
    ASSUME NEW q \in Requests, NEW len
    PROVE  Sent(q, RequestFields[q.type], len) /\ IsRequest(q)
<1>1. /\ IsRequest(q) /\ q = [type |-> q.type, vals |-> [f \in DOMAIN q.vals |-> q.vals[f]]]
      /\ q.type = "WRITE" => q.vals.size = Len(q.vals.data)
  BY RequestAssumption
<1>2. /\ q.type \in Types /\ DOMAIN q.vals = Elements(RequestFields[q.type])
      /\ \A f \in DOMAIN q.vals : q.vals[f] \in Values(f)
  BY <1>1 DEF IsRequest, IsMessage, Elements
<1>3. /\ Proper(RequestFields[q.type]) /\ RequestFields[q.type] # <<>>
      /\ Head(RequestFields[q.type]) # "data"
      /\ "data" \in DOMAIN q.vals => q.type = "WRITE" /\ "size" \in DOMAIN q.vals
  BY <1>2, RequestFieldsProper
<1>4. "data" \in DOMAIN q.vals =>
        /\ (IF q.type = "WRITE" THEN "size" ELSE "result") \in DOMAIN q.vals
        /\ dataLen([type |-> q.type, vals |-> q.vals, len |-> len]) = Len(q.vals.data)
  BY <1>1, <1>3 DEF dataLen
<1> QED
  BY <1>1, <1>2, <1>3, <1>4 DEF Sent

LEMMA StatAnswer ==
    ASSUME NEW ty \in {"GETATTR", "STATFS"}, NEW v \in StatReplies(ty)
    PROVE  /\ v = [f \in DOMAIN v |-> v[f]] /\ DOMAIN v = Elements(ReplyFields(ty))
           /\ "data" \notin DOMAIN v /\ \A f \in DOMAIN v : v[f] \in Values(f)
<1>1. PICK r \in Fail \cup {0}, s \in Stats :
          v = [f \in Elements(ReplyFields(ty)) |-> IF f = "result" THEN r ELSE s[f]]
  <2>1. PICK fields : fields = Elements(ReplyFields(ty))
    OBVIOUS
  <2>2. StatReplies(ty) = {[f \in fields |-> IF f = "result" THEN r ELSE s[f]] :
                             r \in Fail \cup {0}, s \in Stats}
    BY <2>1 DEF StatReplies, Elements
  <2> QED
    BY <2>1, <2>2
<1>2. Elements(ReplyFields(ty)) =
          {"result"} \cup Elements(IF ty = "GETATTR" THEN StatFields ELSE StatvfsFields)
  BY ReplyFieldsProper
<1>3. \A t \in {StatFields, StatvfsFields} : \A f \in Elements(t) :
          Kind(f) = "number" /\ s[f] \in Numbers
  BY StatProper, AnswerAssumption DEF Elements
<1>4. r \in Numbers /\ Kind("result") = "number"
  BY AnswerAssumption DEF Kind
<1>5. \A f \in DOMAIN v : Kind(f) = "number" /\ v[f] \in Numbers
  BY <1>1, <1>2, <1>3, <1>4
<1>6. \A f \in DOMAIN v : v[f] \in Values(f)
  BY <1>5 DEF Values
<1>7. "data" \notin DOMAIN v
  BY <1>5, NameKinds
<1> QED
  BY <1>1, <1>6, <1>7

LEMMA MayBeIs ==
    ASSUME NEW m, NEW ty, NEW cut
    PROVE  Remote!MayBe(m, ty, cut) = {m} \cup IF m.type = ty /\ cut THEN Cut(m) ELSE {}
  BY DEF Remote!MayBe, Remote!Cut, Cut

\* An answer can be read by a client with room for what it asked for.
LEMMA AnswerSent ==
    ASSUME NEW q \in Requests, NEW a \in performLocally(q)
    PROVE  /\ a.type = replyType(q.type) /\ IsReply(a)
           /\ Sent(a, ReplyFields(a.type), RoomFor(q))
           /\ "data" \in DOMAIN a.vals => a.type = "READ"
<1>1. q.type \in Types /\ Fail \cup {0} \subseteq Numbers
  BY RequestSent, AnswerAssumption DEF IsRequest
<1>t. PICK ty : ty = replyType(q.type)
  OBVIOUS
<1>2. /\ ty \in Types
      /\ q.type \in {"GETATTR", "STATFS", "READDIR", "READLINK", "READ", "WRITE"} => ty = q.type
      /\ q.type \notin {"GETATTR", "STATFS", "READDIR", "READLINK", "READ", "WRITE"} =>
           ty \notin {"GETATTR", "STATFS", "READDIR", "READLINK", "READ", "WRITE"}
  BY <1>1, <1>t DEF replyType, Types, Message
<1>v. PICK v : /\ a = [type |-> ty, vals |-> v]
               /\ v \in CASE q.type \in {"GETATTR", "STATFS"} -> StatReplies(q.type)
                          [] q.type = "READDIR" -> ReaddirReplies
                          [] q.type = "READLINK" -> ReadlinkReplies
                          [] q.type = "READ" -> ReadReplies(q.vals.size)
                          [] q.type = "WRITE" -> WriteReplies(q.vals.size)
                          [] OTHER -> CallReplies
  BY <1>t DEF performLocally
<1> DEFINE Good == /\ v = [f \in DOMAIN v |-> v[f]] /\ DOMAIN v = Elements(ReplyFields(ty))
                   /\ \A f \in DOMAIN v : v[f] \in Values(f)
                   /\ "data" \in DOMAIN v =>
                        /\ ty = "READ" /\ "result" \in DOMAIN v
                        /\ (IF v.result > 0 /\ v.result =< RoomFor(q) THEN v.result ELSE 0)
                             = Len(v.data)
<1>r. \A n \in Numbers : n \in Values("result")
  BY DEF Values, Kind
<1>3. ASSUME q.type \in {"GETATTR", "STATFS"}
      PROVE  Good
  <2>1. v \in StatReplies(ty) /\ ty \in {"GETATTR", "STATFS"}
    BY <1>2, <1>3, <1>v
  <2> QED
    BY <2>1, StatAnswer
<1>4. ASSUME q.type = "READDIR"
      PROVE  Good
  <2>1. v \in ReaddirReplies /\ ty = "READDIR"
    BY <1>2, <1>4, <1>v
  <2>2. PICK r \in Fail \cup {0}, names \in Listings \cup {<<>>} : v = [result |-> r, names |-> names]
    BY <2>1 DEF ReaddirReplies
  <2>3. names \in Seq(Seq(Chars)) /\ r \in Numbers
    <3>1. <<>> \in Seq(Seq(Chars))
      OBVIOUS
    <3> QED
      BY <1>1, <3>1, AnswerAssumption
  <2>4. DOMAIN v = {"result", "names"} /\ v["result"] = r /\ v["names"] = names
        /\ v = [f \in DOMAIN v |-> v[f]]
    BY <2>2
  <2>5. Elements(ReplyFields(ty)) = {"result", "names"}
    BY <2>1, ReplyFieldsProper
  <2> QED
    BY <1>r, <2>3, <2>4, <2>5, NameKinds
<1>5. ASSUME q.type = "READLINK"
      PROVE  Good
  <2>1. v \in ReadlinkReplies /\ ty = "READLINK"
    BY <1>2, <1>5, <1>v
  <2>2. PICK r \in Fail \cup {0}, target \in Targets \cup {<<>>} : v = [result |-> r, target |-> target]
    BY <2>1 DEF ReadlinkReplies
  <2>3. target \in Values("target") /\ r \in Numbers
    <3>1. <<>> \in Seq(Chars)
      OBVIOUS
    <3> QED
      BY <1>1, <3>1, AnswerAssumption DEF Values, Kind
  <2>4. DOMAIN v = {"result", "target"} /\ v["result"] = r /\ v["target"] = target
        /\ v = [f \in DOMAIN v |-> v[f]]
    BY <2>2
  <2>5. Elements(ReplyFields(ty)) = {"result", "target"}
    BY <2>1, ReplyFieldsProper
  <2> QED
    BY <1>r, <2>3, <2>4, <2>5
<1>6. ASSUME q.type = "READ"
      PROVE  Good
  <2>1. v \in ReadReplies(q.vals.size) /\ ty = "READ" /\ RoomFor(q) = q.vals.size
    BY <1>2, <1>6, <1>v DEF RoomFor
  <2>2. \E r \in Numbers : \E d \in Seq(Chars) :
            /\ v = [result |-> r, data |-> d]
            /\ (IF r > 0 /\ r =< RoomFor(q) THEN r ELSE 0) = Len(d)
    <3>1. CASE v \in [result : Fail, data : {<<>>}]
      <4>1. PICK r \in Fail : v = [result |-> r, data |-> <<>>]
        BY <3>1
      <4>2. r \in Numbers /\ ~(r > 0)
        <5>1. PICK e \in Errnos : r = -e
          BY DEF Fail
        <5> QED
          BY <1>1, <5>1, WireAssumption
      <4>3. <<>> \in Seq(Chars) /\ Len(<<>>) = 0
        OBVIOUS
      <4> QED
        BY <4>1, <4>2, <4>3
    <3>2. CASE v \notin [result : Fail, data : {<<>>}]
      <4>1. PICK d \in Contents : Len(d) =< q.vals.size /\ v = [result |-> Len(d), data |-> d]
        BY <2>1, <3>2 DEF ReadReplies
      <4>2. d \in Seq(Chars) /\ Len(d) \in Numbers /\ Len(d) \in Nat
        BY AnswerAssumption
      <4>3. (IF Len(d) > 0 /\ Len(d) =< RoomFor(q) THEN Len(d) ELSE 0) = Len(d)
        BY <2>1, <4>1, <4>2
      <4> QED
        BY <4>1, <4>2, <4>3
    <3> QED
      BY <3>1, <3>2
  <2>3. PICK r \in Numbers : \E d \in Seq(Chars) :
            /\ v = [result |-> r, data |-> d]
            /\ (IF r > 0 /\ r =< RoomFor(q) THEN r ELSE 0) = Len(d)
    BY <2>2
  <2>4. PICK d \in Seq(Chars) :
            /\ v = [result |-> r, data |-> d]
            /\ (IF r > 0 /\ r =< RoomFor(q) THEN r ELSE 0) = Len(d)
    BY <2>3
  <2>5. d \in Values("data")
    BY NameKinds DEF Text
  <2>6. DOMAIN v = {"result", "data"} /\ v["result"] = r /\ v["data"] = d
        /\ v = [f \in DOMAIN v |-> v[f]]
    BY <2>4
  <2>7. Elements(ReplyFields(ty)) = {"result", "data"}
    BY <2>1, ReplyFieldsProper
  <2>8. (IF v.result > 0 /\ v.result =< RoomFor(q) THEN v.result ELSE 0) = Len(v.data)
    BY <2>4, <2>6
  <2> QED
    BY <1>r, <2>1, <2>5, <2>6, <2>7, <2>8
<1>7. ASSUME q.type \notin {"GETATTR", "STATFS", "READDIR", "READLINK", "READ"}
      PROVE  Good
  <2>1. PICK r \in Numbers : v = [result |-> r]
    <3>1. CASE q.type = "WRITE"
      <4>1. v \in WriteReplies(q.vals.size) /\ 0 .. q.vals.size \subseteq Numbers
        BY <1>v, <3>1, RequestAssumption
      <4> QED
        BY <1>1, <4>1 DEF WriteReplies
    <3>2. CASE q.type # "WRITE"
      <4>1. v \in CallReplies
        BY <1>7, <1>v, <3>2
      <4> QED
        BY <1>1, <4>1 DEF CallReplies
    <3> QED
      BY <3>1, <3>2
  <2>2. DOMAIN v = {"result"} /\ v["result"] = r /\ v = [f \in DOMAIN v |-> v[f]]
    BY <2>1
  <2>3. Elements(ReplyFields(ty)) = {"result"}
    <3>1. ty \notin {"GETATTR", "STATFS", "READDIR", "READLINK", "READ"}
      BY <1>2, <1>7
    <3> QED
      BY <3>1, ReplyFieldsProper
  <2> QED
    BY <1>r, <2>2, <2>3
<1>8. Good
  BY <1>3, <1>4, <1>5, <1>6, <1>7
<1>9. a.type = ty /\ a.vals = v
  BY <1>v
<1>10. "data" \in DOMAIN v =>
         /\ (IF ty = "WRITE" THEN "size" ELSE "result") \in DOMAIN v
         /\ dataLen([type |-> ty, vals |-> v, len |-> RoomFor(q)]) = Len(v.data)
  BY <1>8 DEF dataLen
<1>11. Proper(ReplyFields(ty)) /\ ReplyFields(ty) # <<>> /\ Head(ReplyFields(ty)) # "data"
  BY ReplyFieldsProper
<1>12. Sent(a, ReplyFields(ty), RoomFor(q))
  BY <1>2, <1>8, <1>9, <1>10, <1>11, <1>v DEF Sent
<1>13. IsReply(a)
  BY <1>2, <1>8, <1>9 DEF IsReply, IsMessage, Elements
<1> QED
  BY <1>8, <1>9, <1>12, <1>13, <1>t

\* Data that was cut short is performed like the whole.
LEMMA CutPerformed ==
    ASSUME NEW q \in Requests, NEW c \in Remote!MayBe(q, "WRITE", TRUE)
    PROVE  performLocally(c) = performLocally(q) /\ IsRequest(c)
<1>1. CASE c = q
  BY <1>1, RequestSent
<1>2. CASE c # q
  <2>1. q.type = "WRITE" /\ c \in Cut(q)
    BY <1>2, MayBeIs
  <2>2. Sent(q, RequestFields[q.type], 0) /\ IsRequest(q)
    BY RequestSent
  <2>3. {"data", "size"} \subseteq DOMAIN q.vals
    <3>1. Elements(RequestFields["WRITE"]) = {"path", "size", "offset", "data"}
      <4>1. RequestFields["WRITE"] = <<"path", "size", "offset", "data">>
        BY DEF RequestFields
      <4> QED
        BY <4>1, ListOf4
    <3> QED
      BY <2>1, <2>2, <3>1 DEF Sent
  <2>4. c.type = "WRITE" /\ IsMessage(c, RequestFields[q.type]) /\ c.vals["size"] = q.vals["size"]
    BY <2>1, <2>2, <2>3, CutTyped
  <2>5. IsRequest(c)
    BY <2>1, <2>2, <2>4 DEF IsRequest
  <2>6. performLocally(c) = performLocally(q)
    BY <2>1, <2>4 DEF performLocally
  <2> QED
    BY <2>5, <2>6
<1> QED
  BY <1>1, <1>2


LEMMA SerializeTyped ==
    ASSUME NEW m, NEW fields, NEW len, Sent(m, fields, len)
    PROVE  serialize(m, fields) \in Seq(Tokens) /\ serialize(m, fields) # <<>>
<1>1. Holds(m, fields)
  BY DEF Sent, Holds, Proper, Elements
<1>2. Fields(m, fields) \in Seq(Tokens)
  BY <1>1, FieldsFirst
<1>3. Message[m.type] \in Int
  BY DEF Sent, Types, Message
<1>4. writenum(Message[m.type]) \in Seq(Tokens) /\ writenum(Message[m.type]) # <<>>
  BY <1>3, NumberTyped
<1>5. serialize(m, fields) = writenum(Message[m.type]) \o Fields(m, fields)
  BY DEF serialize, Fields
<1> QED
  BY <1>2, <1>4, <1>5, ConcatTail


(* Pipes. *)

LEMMA ToComeTyped ==
    ASSUME NEW m, NEW fields, NEW r, Sent(m, fields, r.len), Reads(r, m)
    PROVE  ToCome(r, m, fields) \in Seq(Tokens)
<1>1. CASE r = freshReader(r.len)
  <2>1. ToCome(r, m, fields) = serialize(m, fields)
    BY <1>1 DEF ToCome, freshReader
  <2> QED
    BY <2>1, SerializeTyped
<1>2. CASE Midway(r, m) /\ r.todo = <<>>
  <2>1. ToCome(r, m, fields) = <<>>
    BY <1>2 DEF ToCome, Midway, Sent, Types, Message
  <2> QED
    BY <2>1
<1>3. CASE Midway(r, m) /\ r.todo # <<>>
  <2>v. PICK v : v = Value(r, m)
    OBVIOUS
  <2>1. v \in Values(Head(r.todo)) /\ After(r, m) \in Seq(Tokens) /\ r.type # "none"
    BY <1>3, <2>v, AheadTyped DEF Midway, Sent, Types, Message
  <2>2. CASE r.want = ANumber
    <3>1. ToCome(r, m, fields) = WriteField(Head(r.todo), v) \o After(r, m)
      BY <1>3, <2>1, <2>2, <2>v DEF ToCome
    <3> QED
      BY <2>1, <3>1, FieldTyped, ConcatProperties
  <2>3. CASE r.want # ANumber
    <3>k. PICK k : k = Len(r.part)
      OBVIOUS
    <3>1. /\ r.want = Len(v) /\ k < Len(v) /\ k \in Nat
          /\ Kind(Head(r.todo)) \in {"string", "data"}
      BY <1>3, <2>3, <2>v, <3>k DEF Midway, AtItem
    <3>2. v \in Text
      <4>1. v \in Seq(Chars) \/ v \in Text
        BY <2>1, <3>1 DEF Values, Text
      <4> QED
        BY <4>1, StringTyped
    <3>3. k \in 0 .. Len(v) - 1
      <4>1. Len(v) \in Nat
        BY <3>2 DEF Text
      <4> QED
        BY <3>1, <4>1
    <3>4. Raw(SubSeq(v, k + 1, Len(v))) \in Seq(Tokens)
      BY <3>2, <3>3, RawRest
    <3>5. ToCome(r, m, fields) = Raw(SubSeq(v, k + 1, Len(v))) \o After(r, m)
      BY <1>3, <2>1, <2>3, <2>v, <3>1, <3>k DEF ToCome
    <3> QED
      BY <2>1, <3>4, <3>5, ConcatProperties
  <2> QED
    BY <2>2, <2>3
<1> QED
  BY <1>1, <1>2, <1>3 DEF Reads

LEMMA CarriesRead ==
    ASSUME NEW pipe \in Seq(Tokens), pipe # <<>>, NEW p, p.out \in Seq(Tokens),
           NEW tokens \in Seq(Tokens), Carries(pipe, p, tokens)
    PROVE  /\ tokens # <<>> /\ Head(tokens) = Head(pipe) /\ Tail(pipe) \in Seq(Tokens)
           /\ Len(Tail(pipe)) = Len(pipe) - 1 /\ Carries(Tail(pipe), p, Tail(tokens))
<1>t. PICK t : t = Tail(pipe)
  OBVIOUS
<1>n. PICK n : n = Len(pipe)
  OBVIOUS
<1>1. /\ t \in Seq(Tokens) /\ Len(t) = n - 1 /\ \A i \in 1 .. n - 1 : t[i] = pipe[i + 1]
      /\ n \in Nat \ {0} /\ DOMAIN t = 1 .. n - 1 /\ DOMAIN pipe = 1 .. n /\ Head(pipe) = pipe[1]
  BY <1>n, <1>t, HeadTailProperties
<1>2. CASE Ended(p)
  <2>1. Len(pipe) =< Len(tokens) /\ \A i \in DOMAIN pipe : pipe[i] = tokens[i]
    BY <1>2 DEF Carries, Starts
  <2>k. PICK k : k = Len(tokens)
    OBVIOUS
  <2>2. k \in Nat /\ n =< k /\ tokens # <<>> /\ Head(tokens) = tokens[1] /\ tokens[1] = pipe[1]
    BY <1>1, <1>n, <2>1, <2>k
  <2>u. PICK u : u = Tail(tokens)
    OBVIOUS
  <2>3. Len(u) = k - 1 /\ \A i \in 1 .. k - 1 : u[i] = tokens[i + 1]
    BY <2>2, <2>k, <2>u, HeadTailProperties
  <2>4. \A i \in 1 .. n - 1 : i + 1 \in 1 .. n /\ i \in 1 .. k - 1
    BY <1>1, <2>2
  <2>5. \A i \in DOMAIN t : t[i] = u[i]
    BY <1>1, <2>1, <2>3, <2>4
  <2>6. Starts(t, u)
    BY <1>1, <2>2, <2>3, <2>5 DEF Starts
  <2> QED
    BY <1>1, <1>2, <1>n, <1>t, <2>2, <2>6, <2>u DEF Carries
<1>3. CASE ~Ended(p)
  <2>1. tokens = pipe \o p.out
    BY <1>3 DEF Carries
  <2>2. Head(tokens) = Head(pipe) /\ Tail(tokens) = Tail(pipe) \o p.out /\ tokens # <<>>
    BY <2>1, ConcatTail
  <2> QED
    BY <1>1, <1>3, <1>n, <1>t, <2>2 DEF Carries
<1> QED
  BY <1>2, <1>3

LEMMA CarriesSend ==
    ASSUME NEW pipe \in Seq(Tokens), NEW out \in Seq(Tokens), out # <<>>
    PROVE  /\ pipe \o out = Append(pipe, Head(out)) \o Tail(out)
           /\ Tail(out) \in Seq(Tokens) /\ Append(pipe, Head(out)) \in Seq(Tokens)
           /\ Len(Append(pipe, Head(out))) = Len(pipe) + 1
<1>1. Head(out) \in Tokens /\ Tail(out) \in Seq(Tokens) /\ out = <<Head(out)>> \o Tail(out)
  BY HeadTailProperties
<1>h. PICK h \in Tokens : h = Head(out)
  BY <1>1
<1>2. Append(pipe, h) = pipe \o <<h>> /\ <<h>> \in Seq(Tokens)
  BY AppendIsConcat
<1>3. pipe \o (<<h>> \o Tail(out)) = (pipe \o <<h>>) \o Tail(out)
  BY <1>1, <1>2, ConcatAssociative
<1>4. Append(pipe, h) \in Seq(Tokens) /\ Len(Append(pipe, h)) = Len(pipe) + 1
  BY AppendProperties
<1> QED
  BY <1>1, <1>2, <1>3, <1>4, <1>h

\* What a process that ends has sent is what it would have sent first.
LEMMA CarriesEnd ==
    ASSUME NEW pipe \in Seq(Tokens), NEW out \in Seq(Tokens)
    PROVE  Starts(pipe, pipe \o out)
<1>1. /\ Len(pipe) \in Nat /\ Len(out) \in Nat /\ Len(pipe \o out) = Len(pipe) + Len(out)
      /\ DOMAIN pipe = 1 .. Len(pipe)
  BY ConcatProperties
<1>2. \A i \in 1 .. Len(pipe) : (pipe \o out)[i] = pipe[i]
  <2>1. \A i \in 1 .. Len(pipe) : i \in 1 .. Len(pipe) + Len(out) /\ i =< Len(pipe)
    BY <1>1
  <2> QED
    BY <2>1, ConcatProperties
<1> QED
  BY <1>1, <1>2 DEF Starts

LEMMA CarriesNothing ==
    ASSUME NEW pipe \in Seq(Tokens), NEW p, p.out \in Seq(Tokens), Carries(pipe, p, <<>>)
    PROVE  pipe = <<>> /\ (Ended(p) \/ p.out = <<>>)
<1>1. CASE Ended(p)
  <2>1. Len(pipe) =< 0 /\ Len(pipe) \in Nat
    BY <1>1 DEF Carries, Starts
  <2> QED
    BY <1>1, <2>1
<1>2. CASE ~Ended(p)
  <2>1. <<>> = pipe \o p.out
    BY <1>2 DEF Carries
  <2>2. Len(pipe) \in Nat /\ Len(p.out) \in Nat /\ Len(pipe \o p.out) = Len(pipe) + Len(p.out)
    BY ConcatProperties
  <2>3. Len(<<>>) = 0
    OBVIOUS
  <2>4. Len(pipe) + Len(p.out) = 0
    BY <2>1, <2>2, <2>3, Zenon
  <2>5. Len(pipe) = 0 /\ Len(p.out) = 0
    BY <2>2, <2>4
  <2> QED
    BY <2>5
<1> QED
  BY <1>1, <1>2

-----------------------------------------------------------------------------
(* The inductive invariant. *)

LEMMA AskedSent ==
    ASSUME Typed, request # <<>>
    PROVE  /\ request \in Requests /\ IsRequest(request)
           /\ \A len : Sent(request, RequestFields[request.type], len)
  BY RequestSent DEF Typed

LEMMA AnsweredSent ==
    ASSUME Typed, request # <<>>, ~Pending
    PROVE  /\ answer \in performLocally(request) /\ answer # <<>> /\ performed # <<>>
           /\ answer.type = replyType(request.type) /\ IsReply(answer)
           /\ Sent(answer, ReplyFields(answer.type), RoomFor(request))
           /\ "data" \in DOMAIN answer.vals => answer.type = "READ"
  BY AskedSent, AnswerSent DEF Typed, Pending

LEMMA MessageIsNotEmpty ==
    /\ \A q \in Requests : q # <<>>
    /\ \A q \in Requests : \A a \in performLocally(q) : a # <<>>
    /\ \A r : message(r) # <<>>
<1>1. \A ty, vals : [type |-> ty, vals |-> vals] # <<>>
  <2>1. \A ty, vals : "type" \in DOMAIN [type |-> ty, vals |-> vals]
    OBVIOUS
  <2>2. "type" \notin DOMAIN <<>>
    OBVIOUS
  <2> QED
    BY <2>1, <2>2, Zenon
<1>2. \A q \in Requests : \E ty, vals : q = [type |-> ty, vals |-> vals]
  BY DEF Requests, FuseRequest
<1>3. \A q \in Requests : \A a \in performLocally(q) : \E ty, vals : a = [type |-> ty, vals |-> vals]
  BY DEF performLocally
<1>4. \A r : \E ty, vals : message(r) = [type |-> ty, vals |-> vals]
  BY DEF message
<1> QED
  BY <1>1, <1>2, <1>3, <1>4, Zenon

LEMMA Initially == Init => Inv
<1> SUFFICES ASSUME Init PROVE Inv
  OBVIOUS
<1>1. /\ client.at = "idle" /\ client.out = <<>> /\ client.in = freshReader(0) /\ client.code = 0
      /\ server.at = "read" /\ server.out = <<>> /\ server.in = freshReader(0) /\ server.code = 0
  BY DEF Init
<1>2. IsReader(freshReader(0)) /\ <<>> \in Seq(Tokens) /\ Len(<<>>) =< Cap /\ 0 \in Code
  BY WireAssumption DEF freshReader, IsReader, Code
<1>3. Typed
  BY <1>1, <1>2 DEF Init, Typed, IsProcess
<1>4. Asking /\ Answering /\ Ending
  BY <1>1 DEF Init, Asking, Answering, Ending, Pending, Ended
<1> QED
  BY <1>3, <1>4 DEF Inv

LEMMA Fresh ==
    ASSUME NEW len
    PROVE  /\ IsReader(freshReader(len)) /\ freshReader(len).len = len
           /\ ~Complete(freshReader(len)) /\ ~InData(freshReader(len))
           /\ \A m : Reads(freshReader(len), m)
           /\ \A m, fields : ToCome(freshReader(len), m, fields) = serialize(m, fields)
  BY DEF freshReader, IsReader, Complete, InData, Reads, ToCome

LEMMA CallStep == Inv /\ Call => Inv'
<1> SUFFICES ASSUME Inv, Call PROVE Inv'
  OBVIOUS
<1> USE DEF Inv
<1>o. PICK o : o = serialize(request', RequestFields[request'.type])
  OBVIOUS
<1>r. PICK r : r = freshReader(RoomFor(request'))
  OBVIOUS
<1>1. /\ request' \in Requests /\ request' # <<>> /\ performed' = <<>> /\ answer' = <<>>
      /\ server' = server /\ up' = up /\ down' = down /\ client.at = "idle"
  BY MessageIsNotEmpty DEF Call
<1>2. client' = [at |-> "send", out |-> o, in |-> r, code |-> client.code]
  <2>1. client = [at |-> client.at, out |-> client.out, in |-> client.in, code |-> client.code]
    BY DEF Typed, IsProcess
  <2>2. client' = [client EXCEPT !.at = "send", !.out = o, !.in = r]
    BY <1>o, <1>r DEF Call, RoomFor
  <2> QED
    BY <2>1, <2>2
<1>3. down = <<>> /\ ~Pending /\ server.at \in {"read", "ended"} /\ client.code \in Code
      /\ (server.at = "read" => server.in = freshReader(0) /\ up = <<>> /\ server.out = <<>>)
  BY <1>1 DEF Answering, Asking, Typed, IsProcess
<1>4. Sent(request', RequestFields[request'.type], 0)
  BY <1>1, RequestSent
<1>5. o \in Seq(Tokens) /\ o # <<>> /\ <<>> \o o = o
  BY <1>4, <1>o, SerializeTyped, EmptyConcat
<1>6. Typed'
  <2>1. IsReader(r)
    BY <1>r, Fresh
  <2> QED
    BY <1>1, <1>2, <1>3, <1>5, <2>1 DEF Typed, IsProcess
<1>7. Asking'
  <2>1. server.at = "read" =>
          /\ Reads(server.in, request')
          /\ ToCome(server.in, request', RequestFields[request'.type]) = o
    BY <1>3, <1>o, Fresh
  <2>2. ~Ended(client') /\ client'.out = o
    BY <1>2 DEF Ended
  <2>3. server.at = "read" =>
          Carries(up, client', ToCome(server.in, request', RequestFields[request'.type]))
    BY <1>3, <1>5, <2>1, <2>2 DEF Carries
  <2> QED
    BY <1>1, <1>3, <2>1, <2>3 DEF Asking, Pending
<1>8. Answering'
  BY <1>1, <1>2, <1>3, <1>5, <1>r DEF Answering, Pending
<1>9. Ending'
  BY <1>1, <1>2 DEF Ending, Ended
<1> QED
  BY <1>6, <1>7, <1>8, <1>9

LEMMA SendUpStep == Inv /\ SendUp => Inv'
<1> SUFFICES ASSUME Inv, SendUp PROVE Inv'
  OBVIOUS
<1> USE DEF Inv
<1>o. PICK o : o = client.out
  OBVIOUS
<1>t. PICK t : t = IF Ended(server) THEN <<>> ELSE Tail(client.out)
  OBVIOUS
<1>1. /\ client.at = "send" /\ server' = server /\ down' = down
      /\ request' = request /\ performed' = performed /\ answer' = answer
  BY DEF SendUp
<1>2. client' = [at |-> IF t = <<>> THEN "receive" ELSE "send", out |-> t,
                 in |-> client.in, code |-> client.code]
  <2>1. client = [at |-> client.at, out |-> client.out, in |-> client.in, code |-> client.code]
    BY DEF Typed, IsProcess
  <2>2. client' = [client EXCEPT !.out = t, !.at = IF t = <<>> THEN "receive" ELSE "send"]
    BY <1>t DEF SendUp
  <2> QED
    BY <2>1, <2>2
<1>3. /\ Pending /\ o # <<>> /\ o \in Seq(Tokens) /\ server.at \in {"read", "ended"}
      /\ client.in = freshReader(RoomFor(request)) /\ down = <<>> /\ request # <<>>
      /\ IsReader(client.in) /\ client.code \in Code
  BY <1>1, <1>o DEF Answering, Pending, Typed, IsProcess
<1>4. up' \in Seq(Tokens) /\ Len(up') =< Cap /\ t \in Seq(Tokens)
  <2>1. CASE Ended(server)
    BY <1>t, <2>1 DEF SendUp, Typed
  <2>2. CASE ~Ended(server)
    <3>1. up' = Append(up, Head(o)) /\ Len(up) < Cap /\ t = Tail(o)
      BY <1>o, <1>t, <2>2 DEF SendUp
    <3>2. Len(up) \in Nat /\ up \in Seq(Tokens) /\ Cap \in Nat
      BY WireAssumption DEF Typed
    <3>3. Append(up, Head(o)) \in Seq(Tokens) /\ Tail(o) \in Seq(Tokens)
          /\ Len(Append(up, Head(o))) = Len(up) + 1
      BY <1>3, <3>2, CarriesSend
    <3> QED
      BY <3>1, <3>2, <3>3
  <2> QED
    BY <2>1, <2>2
<1>5. Typed'
  BY <1>1, <1>2, <1>3, <1>4 DEF Typed, IsProcess
<1>6. Asking'
  <2>1. CASE Ended(server)
    BY <1>1, <2>1 DEF Asking, Ended
  <2>2. CASE ~Ended(server)
    <3>1. up' = Append(up, Head(o)) /\ t = Tail(o) /\ server.at = "read"
      BY <1>3, <1>o, <1>t, <2>2 DEF SendUp, Ended
    <3>m. PICK tokens : tokens = ToCome(server.in, request, RequestFields[request.type])
      OBVIOUS
    <3>2. Reads(server.in, request) /\ tokens = up \o o /\ server.out = <<>>
      BY <1>1, <1>3, <1>o, <3>1, <3>m DEF Asking, Carries, Ended
    <3>3. tokens = up' \o t
      BY <1>3, <3>1, <3>2, CarriesSend DEF Typed
    <3>4. ~Ended(client') /\ client'.out = t
      BY <1>2 DEF Ended
    <3>5. Carries(up', client', tokens)
      BY <3>3, <3>4 DEF Carries
    <3> QED
      BY <1>1, <1>3, <3>1, <3>2, <3>5, <3>m DEF Asking, Pending
  <2> QED
    BY <2>1, <2>2
<1>7. Answering'
  BY <1>1, <1>2, <1>3 DEF Answering, Pending
<1>8. Ending'
  BY <1>1, <1>2 DEF Ending, Ended
<1> QED
  BY <1>5, <1>6, <1>7, <1>8

LEMMA ReadDownStep == Inv /\ ReadDown => Inv'
<1> SUFFICES ASSUME Inv, ReadDown PROVE Inv'
  OBVIOUS
<1> USE DEF Inv
<1>i. PICK i : i = client.in
  OBVIOUS
<1>f. PICK fieldsOf : fieldsOf = [ty \in {replyType(request.type)} |-> ReplyFields(ty)]
  OBVIOUS
<1>r. PICK r : r = take(i, Head(down), fieldsOf)
  OBVIOUS
<1>m. PICK tokens : tokens = ToCome(i, answer, ReplyFields(answer.type))
  OBVIOUS
<1>1. /\ client.at = "receive" /\ down # <<>> /\ down' = Tail(down)
      /\ server' = server /\ up' = up
      /\ request' = request /\ performed' = performed /\ answer' = answer
  BY DEF ReadDown
<1>2. request # <<>> /\ ~Pending /\ client.out = <<>> /\ client.code \in Code
  BY <1>1 DEF Answering, Typed, IsProcess
<1>3. /\ Reads(i, answer) /\ i.len = RoomFor(request) /\ Carries(down, server, tokens)
  BY <1>1, <1>2, <1>i, <1>m DEF Answering
<1>4. /\ Sent(answer, ReplyFields(answer.type), i.len) /\ answer.type = replyType(request.type)
      /\ answer.type \in Types
  BY <1>2, <1>3, AnsweredSent DEF IsReply
<1>5. /\ down \in Seq(Tokens) /\ Len(down) =< Cap /\ server.out \in Seq(Tokens)
      /\ tokens \in Seq(Tokens)
  BY <1>3, <1>4, <1>m, ToComeTyped DEF Typed, IsProcess
<1>6. /\ tokens # <<>> /\ Head(tokens) = Head(down) /\ Tail(down) \in Seq(Tokens)
      /\ Len(Tail(down)) = Len(down) - 1 /\ Carries(Tail(down), server, Tail(tokens))
  BY <1>1, <1>3, <1>5, CarriesRead
<1>7. /\ DOMAIN fieldsOf \subseteq Types /\ answer.type \in DOMAIN fieldsOf
      /\ fieldsOf[answer.type] = ReplyFields(answer.type)
  BY <1>4, <1>f
<1>8. /\ Midway(r, answer) /\ r.len = i.len
      /\ ToCome(r, answer, ReplyFields(answer.type)) = Tail(tokens)
  BY <1>3, <1>4, <1>6, <1>7, <1>m, <1>r, TakeKeeps
<1>9. IsReader(r) /\ Reads(r, answer) /\ ~Unknown(r)
  <2>1. Reads(r, answer) /\ Sent(answer, ReplyFields(answer.type), r.len)
    BY <1>4, <1>8 DEF Reads
  <2>2. r.type \in Types
    BY <1>4, <1>8 DEF Midway
  <2> QED
    BY <2>1, <2>2, ReaderTyped DEF Unknown, Types, Message
<1>10. client' = [at |-> "receive", out |-> client.out, in |-> r, code |-> client.code]
  <2>1. client = [at |-> client.at, out |-> client.out, in |-> client.in, code |-> client.code]
    BY DEF Typed, IsProcess
  <2>2. client' = [client EXCEPT !.in = r]
    BY <1>9, <1>f, <1>i, <1>r DEF ReadDown
  <2> QED
    BY <1>1, <2>1, <2>2
<1>11. Typed'
  <2>1. Len(Tail(down)) =< Cap
    BY <1>5, <1>6, WireAssumption
  <2> QED
    BY <1>1, <1>2, <1>6, <1>9, <1>10, <2>1 DEF Typed, IsProcess
<1>12. Asking'
  <2>1. (client.at = "receive") /\ ~Ended(client) /\ ~Ended(client')
    BY <1>1, <1>10 DEF Ended
  <2>2. client'.at = "receive" /\ client'.out = client.out
    BY <1>10
  <2>3. server.at = "read" => server.in = freshReader(0) /\ up = <<>>
    BY <1>2 DEF Asking
  <2> QED
    BY <1>1, <1>2, <2>1, <2>2, <2>3 DEF Asking, Pending
<1>13. Answering'
  <2>1. client'.in = r /\ client'.at = "receive" /\ client'.out = <<>> /\ r.len = RoomFor(request)
    BY <1>2, <1>3, <1>8, <1>10
  <2> QED
    BY <1>1, <1>2, <1>6, <1>8, <1>9, <2>1 DEF Answering, Pending
<1>14. Ending'
  BY <1>1, <1>10 DEF Ending, Ended
<1> QED
  BY <1>11, <1>12, <1>13, <1>14


\* The client ends, between calls or because it is killed.
LEMMA ClientEnds ==
    ASSUME Inv, ~Ended(client), NEW code \in Code, client' = End(client, code),
           code = Signalled \/ client.at = "idle",
           UNCHANGED <<server, up, down, request, performed, answer>>
    PROVE  Inv'
<1> USE DEF Inv
<1>1. /\ server' = server /\ up' = up /\ down' = down
      /\ request' = request /\ performed' = performed /\ answer' = answer
  OBVIOUS
<1>2. /\ client' = [at |-> "ended", out |-> client.out, in |-> client.in, code |-> code]
      /\ client.out \in Seq(Tokens) /\ IsReader(client.in)
  <2>1. /\ client = [at |-> client.at, out |-> client.out, in |-> client.in, code |-> client.code]
        /\ client.out \in Seq(Tokens) /\ IsReader(client.in)
    BY DEF Typed, IsProcess
  <2> QED
    BY <2>1 DEF End
<1>3. Ended(client')
  BY <1>2 DEF Ended
<1>4. Typed'
  BY <1>1, <1>2 DEF Typed, IsProcess
<1>5. Asking'
  <2>m. PICK tokens : tokens = ToCome(server.in, request, RequestFields[request.type])
    OBVIOUS
  <2>1. Carries(up, client, tokens) => Carries(up, client', tokens)
    BY <1>2, <1>3, CarriesEnd DEF Carries, Typed
  <2>2. server.at = "perform" => message(server.in) \in Remote!MayBe(request, "WRITE", TRUE)
    BY MayBeIs DEF Asking
  <2>3. Ended(client') = TRUE
    BY <1>3 DEF Ended
  <2>4. client'.at = "ended"
    BY <1>2
  <2>5. (server.at = "read" =>
          IF Pending
          THEN /\ Reads(server.in, request)
               /\ Carries(up, client', ToCome(server.in, request, RequestFields[request.type]))
          ELSE server.in = freshReader(0) /\ up = <<>>)
    BY <2>1, <2>m DEF Asking
  <2>6. server.at = "perform" =>
          /\ Pending /\ up = <<>> /\ client'.at \in {"receive", "ended"}
          /\ message(server.in) \in Remote!MayBe(request, "WRITE", Ended(client'))
    BY <2>2, <2>3, <2>4 DEF Asking
  <2> QED
    BY <1>1, <1>3, <2>4, <2>5, <2>6 DEF Asking, Pending
<1>6. Answering'
  BY <1>2 DEF Answering
<1>7. Ending'
  <2>1. client'.code = code
    BY <1>2
  <2>2. ASSUME code # Signalled
        PROVE  IF Ended(server) THEN server.code = Signalled
               ELSE server.at = "read" /\ ~Pending
    BY <2>2 DEF Answering, Ending, Ended
  <2> QED
    BY <1>1, <1>3, <2>1, <2>2 DEF Ending, Pending
<1> QED
  BY <1>4, <1>5, <1>6, <1>7

LEMMA EofDownStep == Inv /\ EofDown => Inv'
<1> SUFFICES ASSUME Inv, EofDown PROVE Inv'
  OBVIOUS
<1> USE DEF Inv
<1>1. /\ client.at = "receive" /\ ~Complete(client.in) /\ down = <<>> /\ Ended(server)
      /\ server' = server /\ up' = up /\ down' = down
      /\ request' = request /\ performed' = performed /\ answer' = answer
  BY DEF EofDown
<1>2. CASE ~InData(client.in)
  <2>1. client' = End(client, Signalled) /\ Signalled \in Code /\ ~Ended(client)
    BY <1>1, <1>2 DEF EofDown, Code, Ended
  <2> QED
    BY <1>1, <2>1, ClientEnds
<1>3. CASE InData(client.in)
  <2>r. PICK r : r = Torn(client.in)
    OBVIOUS
  <2>1. request # <<>> /\ ~Pending /\ client.out = <<>> /\ client.code \in Code
    BY <1>1, <1>3, Fresh DEF Answering, Typed, IsProcess
  <2>2. /\ Reads(client.in, answer)
        /\ Sent(answer, ReplyFields(answer.type), client.in.len)
        /\ "data" \in DOMAIN answer.vals => answer.type = "READ"
    BY <1>1, <2>1, AnsweredSent DEF Answering
  <2>3. /\ "data" \in DOMAIN answer.vals /\ Complete(r) /\ message(r) \in Cut(answer)
        /\ IsReader(r)
    BY <1>3, <2>2, <2>r, TornCut
  <2>4. message(r) \in Remote!MayBe(answer, "READ", TRUE)
    BY <2>2, <2>3, MayBeIs
  <2>5. client' = [at |-> "receive", out |-> client.out, in |-> r, code |-> client.code]
    <3>1. client = [at |-> client.at, out |-> client.out, in |-> client.in, code |-> client.code]
      BY DEF Typed, IsProcess
    <3>2. client' = [client EXCEPT !.in = r]
      BY <1>3, <2>r DEF EofDown
    <3> QED
      BY <1>1, <3>1, <3>2
  <2>6. client'.in = r /\ client'.at = "receive" /\ client'.out = <<>> /\ client'.code = client.code
    BY <2>1, <2>5
  <2>7. Typed'
    BY <1>1, <2>1, <2>3, <2>5 DEF Typed, IsProcess
  <2>8. Asking'
    BY <1>1 DEF Asking, Ended
  <2>9. Answering'
    BY <1>1, <2>1, <2>3, <2>4, <2>6 DEF Answering, Pending
  <2>10. Ending'
    BY <1>1, <2>6 DEF Ending, Ended
  <2> QED
    BY <2>7, <2>8, <2>9, <2>10
<1> QED
  BY <1>2, <1>3

\* What a callback is given when it returns.
LEMMA Received ==
    ASSUME Inv, client.at = "receive", Complete(client.in)
    PROVE  /\ ~Pending /\ request # <<>> /\ answer # <<>> /\ down = <<>>
           /\ server.at \in {"read", "ended"}
           /\ message(client.in) \in Remote!MayBe(answer, "READ", Ended(server))
<1> USE DEF Inv
<1>1. request # <<>> /\ ~Pending
  BY Fresh DEF Answering
<1>2. answer # <<>> /\ Sent(answer, ReplyFields(answer.type), RoomFor(request))
  BY <1>1, AnsweredSent
<1>m. PICK tokens : tokens = ToCome(client.in, answer, ReplyFields(answer.type))
  OBVIOUS
<1>3. CASE /\ Reads(client.in, answer) /\ client.in.len = RoomFor(request)
           /\ Carries(down, server, tokens)
  <2>1. tokens = <<>> /\ message(client.in) = answer
    BY <1>2, <1>3, <1>m, Done
  <2>2. down = <<>> /\ (Ended(server) \/ server.out = <<>>)
    BY <1>3, <2>1, CarriesNothing DEF Typed, IsProcess
  <2>3. server.at \in {"read", "ended"}
    BY <1>1, <2>2 DEF Asking, Typed, IsProcess, Ended
  <2> QED
    BY <1>1, <1>2, <2>1, <2>2, <2>3, MayBeIs
<1>4. CASE /\ Ended(server) /\ down = <<>> /\ Complete(client.in)
           /\ message(client.in) \in Remote!MayBe(answer, "READ", TRUE)
  <2>1. server.at = "ended" /\ Ended(server) = TRUE
    BY <1>4 DEF Ended
  <2> QED
    BY <1>1, <1>2, <1>4, <2>1
<1> QED
  BY <1>1, <1>3, <1>4, <1>m DEF Answering

LEMMA ReturnStep == Inv /\ Return => Inv'
<1> SUFFICES ASSUME Inv, Return PROVE Inv'
  OBVIOUS
<1> USE DEF Inv
<1>1. /\ client.at = "receive" /\ Complete(client.in)
      /\ server' = server /\ up' = up /\ down' = down
      /\ request' = request /\ performed' = performed /\ answer' = answer
  BY DEF Return
<1>2. ~Pending /\ down = <<>> /\ server.at \in {"read", "ended"}
  BY <1>1, Received
<1>3. client' = [at |-> "idle", out |-> <<>>, in |-> freshReader(0), code |-> client.code]
      /\ client.code \in Code
  <2>1. /\ client = [at |-> client.at, out |-> client.out, in |-> client.in, code |-> client.code]
        /\ client.out = <<>> /\ client.code \in Code
    BY <1>1 DEF Typed, IsProcess, Answering
  <2>2. client' = [client EXCEPT !.at = "idle", !.in = freshReader(0)]
    BY DEF Return
  <2> QED
    BY <2>1, <2>2
<1>4. client'.at = "idle" /\ client'.out = <<>> /\ ~Ended(client') /\ ~Ended(client)
  BY <1>1, <1>3 DEF Ended
<1>5. Typed'
  BY <1>1, <1>3, Fresh DEF Typed, IsProcess
<1>6. Asking'
  BY <1>1, <1>2 DEF Asking, Pending
<1>7. Answering'
  BY <1>1, <1>2, <1>4 DEF Answering, Pending
<1>8. Ending'
  BY <1>1, <1>4 DEF Ending
<1> QED
  BY <1>5, <1>6, <1>7, <1>8


LEMMA ReadUpStep == Inv /\ ReadUp => Inv'
<1> SUFFICES ASSUME Inv, ReadUp PROVE Inv'
  OBVIOUS
<1> USE DEF Inv
<1>i. PICK i : i = server.in
  OBVIOUS
<1>f. PICK fieldsOf : fieldsOf = [ty \in Types |-> RequestFields[ty]]
  OBVIOUS
<1>r. PICK r : r = take(i, Head(up), fieldsOf)
  OBVIOUS
<1>d. PICK fields : fields = RequestFields[request.type]
  OBVIOUS
<1>m. PICK tokens : tokens = ToCome(i, request, fields)
  OBVIOUS
<1>1. /\ server.at = "read" /\ up # <<>> /\ up' = Tail(up)
      /\ client' = client /\ down' = down
      /\ request' = request /\ performed' = performed /\ answer' = answer
  BY DEF ReadUp
<1>2. /\ Pending /\ request # <<>> /\ server.out = <<>> /\ server.code \in Code
      /\ Reads(i, request) /\ Carries(up, client, tokens)
  BY <1>1, <1>d, <1>i, <1>m DEF Asking, Pending, Typed, IsProcess
<1>3. Sent(request, fields, i.len) /\ request.type \in Types
  BY <1>2, <1>d, AskedSent DEF IsRequest
<1>4. /\ up \in Seq(Tokens) /\ Len(up) =< Cap /\ client.out \in Seq(Tokens)
      /\ tokens \in Seq(Tokens)
  BY <1>2, <1>3, <1>m, ToComeTyped DEF Typed, IsProcess
<1>5. /\ tokens # <<>> /\ Head(tokens) = Head(up) /\ Tail(up) \in Seq(Tokens)
      /\ Len(Tail(up)) = Len(up) - 1 /\ Carries(Tail(up), client, Tail(tokens))
  BY <1>1, <1>2, <1>4, CarriesRead
<1>6. /\ DOMAIN fieldsOf \subseteq Types /\ request.type \in DOMAIN fieldsOf
      /\ fieldsOf[request.type] = fields
  BY <1>3, <1>d, <1>f
<1>7. /\ Midway(r, request) /\ r.len = i.len
      /\ ToCome(r, request, fields) = Tail(tokens)
  BY <1>2, <1>3, <1>5, <1>6, <1>m, <1>r, TakeKeeps
<1>8. IsReader(r) /\ Reads(r, request) /\ ~Unknown(r) /\ Sent(request, fields, r.len)
  <2>1. Reads(r, request) /\ Sent(request, fields, r.len)
    BY <1>3, <1>7 DEF Reads
  <2>2. r.type \in Types
    BY <1>3, <1>7 DEF Midway
  <2> QED
    BY <2>1, <2>2, ReaderTyped DEF Unknown, Types, Message
<1>9. server' = [at |-> IF Complete(r) THEN "perform" ELSE "read", out |-> <<>>,
                 in |-> r, code |-> server.code]
  <2>1. server = [at |-> server.at, out |-> server.out, in |-> server.in, code |-> server.code]
    BY DEF Typed, IsProcess
  <2>2. fieldsOf = [ty \in Types |-> DeserializeFields(ty)]
    BY <1>f DEF DeserializeFields
  <2>3. server' = [server EXCEPT !.in = r, !.at = IF Complete(r) THEN "perform" ELSE "read"]
    BY <1>8, <1>i, <1>r, <2>2 DEF ReadUp
  <2> QED
    BY <1>2, <2>1, <2>3
<1>10. Typed'
  <2>1. Len(Tail(up)) =< Cap
    BY <1>4, <1>5, WireAssumption
  <2> QED
    BY <1>1, <1>2, <1>5, <1>8, <1>9, <2>1 DEF Typed, IsProcess
<1>11. client.at \in {"send", "receive", "ended"} /\ ~Ended(server) /\ ~Ended(server')
  BY <1>1, <1>2, <1>9 DEF Answering, Typed, IsProcess, Ended
<1>12. CASE Complete(r)
  <2>1. Tail(tokens) = <<>> /\ message(r) = request
    BY <1>7, <1>8, <1>12, Done
  <2>2. Tail(up) = <<>> /\ (Ended(client) \/ client.out = <<>>)
    BY <1>4, <1>5, <2>1, CarriesNothing
  <2>3. client.at \in {"receive", "ended"}
    BY <1>11, <2>2 DEF Answering, Ended
  <2>4. server'.at = "perform" /\ server'.in = r /\ server'.out = <<>>
    BY <1>9, <1>12
  <2>5. Asking'
    BY <1>1, <1>2, <2>1, <2>2, <2>3, <2>4, MayBeIs DEF Asking, Pending
  <2>6. Answering'
    BY <1>1, <1>2, <2>3 DEF Answering, Pending
  <2>7. Ending'
    BY <1>1, <1>2, <1>11 DEF Ending
  <2> QED
    BY <1>10, <2>5, <2>6, <2>7
<1>13. CASE ~Complete(r)
  <2>1. server'.at = "read" /\ server'.in = r /\ server'.out = <<>>
    BY <1>9, <1>13
  <2>2. Asking'
    BY <1>1, <1>2, <1>5, <1>7, <1>8, <1>d, <2>1 DEF Asking, Pending
  <2>3. Answering'
    BY <1>1, <1>2, <1>11, <2>1 DEF Answering, Pending
  <2>4. Ending'
    BY <1>1, <1>2, <1>11 DEF Ending
  <2> QED
    BY <1>10, <2>2, <2>3, <2>4
<1> QED
  BY <1>12, <1>13

LEMMA EofUpStep == Inv /\ EofUp => Inv'
<1> SUFFICES ASSUME Inv, EofUp PROVE Inv'
  OBVIOUS
<1> USE DEF Inv
<1>1. /\ server.at = "read" /\ up = <<>> /\ Ended(client)
      /\ client' = client /\ up' = up /\ down' = down
      /\ request' = request /\ performed' = performed /\ answer' = answer
  BY DEF EofUp
<1>2. /\ server = [at |-> server.at, out |-> server.out, in |-> server.in, code |-> server.code]
      /\ server.out = <<>> /\ server.code \in Code /\ IsReader(server.in) /\ ~Ended(server)
      /\ client.at = "ended"
  BY <1>1 DEF Typed, IsProcess, Asking, Ended
<1>3. CASE InData(server.in)
  <2>r. PICK r : r = Torn(server.in)
    OBVIOUS
  <2>1. Pending /\ Reads(server.in, request)
    BY <1>1, <1>3, Fresh DEF Asking
  <2>2. Sent(request, RequestFields[request.type], server.in.len) /\ request.type \in Types
    BY <2>1, AskedSent DEF Pending, IsRequest
  <2>3. "data" \in DOMAIN request.vals /\ message(r) \in Cut(request) /\ IsReader(r)
    BY <1>3, <2>1, <2>2, <2>r, TornCut
  <2>4. request.type = "WRITE"
    BY <2>2, <2>3, RequestFieldsProper DEF Sent
  <2>5. message(r) \in Remote!MayBe(request, "WRITE", TRUE) /\ Ended(client) = TRUE
    BY <1>1, <2>3, <2>4, MayBeIs DEF Ended
  <2>6. server' = [at |-> "perform", out |-> server.out, in |-> r, code |-> server.code]
    <3>1. server' = [server EXCEPT !.in = r, !.at = "perform"]
      BY <1>3, <2>r DEF EofUp
    <3> QED
      BY <1>2, <3>1
  <2>7. server'.at = "perform" /\ server'.in = r /\ server'.out = <<>> /\ ~Ended(server')
    BY <1>2, <2>6 DEF Ended
  <2>8. Typed'
    BY <1>1, <1>2, <2>3, <2>6 DEF Typed, IsProcess
  <2>9. Asking'
    BY <1>1, <1>2, <2>1, <2>5, <2>7 DEF Asking, Pending
  <2>10. Answering'
    BY <1>1, <1>2 DEF Answering
  <2>11. Ending'
    BY <1>1, <1>2, <2>1, <2>7 DEF Ending
  <2> QED
    BY <2>8, <2>9, <2>10, <2>11
<1>4. CASE ~InData(server.in)
  <2>1. server' = [at |-> "wait", out |-> server.out, in |-> server.in, code |-> server.code]
    <3>1. server' = [server EXCEPT !.at = "wait"]
      BY <1>4 DEF EofUp
    <3> QED
      BY <1>2, <3>1
  <2>2. server'.at = "wait" /\ server'.out = <<>> /\ ~Ended(server')
    BY <1>2, <2>1 DEF Ended
  <2>3. Typed'
    BY <1>1, <1>2, <2>1 DEF Typed, IsProcess
  <2>4. Asking'
    BY <1>1, <1>2, <2>2 DEF Asking
  <2>5. Answering'
    BY <1>1, <1>2 DEF Answering
  <2>6. Ending'
    BY <1>1, <2>2 DEF Ending
  <2> QED
    BY <2>3, <2>4, <2>5, <2>6
<1> QED
  BY <1>3, <1>4

\* What the server performs is what was asked for.
LEMMA Performed ==
    ASSUME Inv, server.at = "perform", NEW a \in performLocally(message(server.in))
    PROVE  /\ Pending /\ request \in Requests
           /\ message(server.in) \in Remote!MayBe(request, "WRITE", Ended(client))
           /\ IsRequest(message(server.in)) /\ a \in performLocally(request)
<1> USE DEF Inv
<1>1. /\ Pending /\ message(server.in) \in Remote!MayBe(request, "WRITE", Ended(client))
      /\ request \in Requests
  BY AskedSent DEF Asking, Pending
<1>2. message(server.in) \in Remote!MayBe(request, "WRITE", TRUE)
  BY <1>1, MayBeIs
<1> QED
  BY <1>1, <1>2, CutPerformed

LEMMA PerformStep == Inv /\ Perform => Inv'
<1> SUFFICES ASSUME Inv, Perform PROVE Inv'
  OBVIOUS
<1> USE DEF Inv
<1>o. PICK o : o = serialize(answer', ReplyFields(answer'.type))
  OBVIOUS
<1>1. /\ server.at = "perform" /\ performed' = message(server.in)
      /\ answer' \in performLocally(message(server.in))
      /\ client' = client /\ up' = up /\ down' = down /\ request' = request
  BY DEF Perform
<1>2. /\ Pending /\ request \in Requests /\ IsRequest(message(server.in))
      /\ answer' \in performLocally(request)
  BY <1>1, Performed
<1>3. Sent(answer', ReplyFields(answer'.type), RoomFor(request))
  BY <1>2, AnswerSent
<1>4. o \in Seq(Tokens) /\ o # <<>> /\ <<>> \o o = o
  BY <1>3, <1>o, SerializeTyped, EmptyConcat
<1>5. server' = [at |-> "send", out |-> o, in |-> server.in, code |-> server.code]
      /\ server.code \in Code /\ IsReader(server.in)
  <2>1. /\ server = [at |-> server.at, out |-> server.out, in |-> server.in, code |-> server.code]
        /\ server.code \in Code /\ IsReader(server.in)
    BY DEF Typed, IsProcess
  <2>2. server' = [server EXCEPT !.at = "send", !.out = o]
    BY <1>o DEF Perform
  <2> QED
    BY <2>1, <2>2
<1>6. performed' # <<>> /\ answer' # <<>> /\ request # <<>>
  BY <1>1, <1>2, MessageIsNotEmpty
<1>7. server'.at = "send" /\ server'.out = o /\ ~Ended(server') /\ ~Ended(server)
  BY <1>1, <1>5 DEF Ended
<1>8. up = <<>> /\ client.at \in {"receive", "ended"}
  BY <1>1 DEF Asking
<1>9. Typed'
  BY <1>1, <1>2, <1>4, <1>5, <1>6 DEF Typed, IsProcess
<1>10. Asking'
  BY <1>1, <1>4, <1>6, <1>7, <1>8 DEF Asking
<1>11. Answering'
  <2>1. ASSUME client.at = "receive"
        PROVE  /\ Reads(client.in, answer') /\ client.in.len = RoomFor(request)
               /\ Carries(down, server', ToCome(client.in, answer', ReplyFields(answer'.type)))
    <3>1. client.in = freshReader(RoomFor(request)) /\ down = <<>>
      BY <1>2, <2>1 DEF Answering
    <3>2. ToCome(client.in, answer', ReplyFields(answer'.type)) = o
      BY <1>o, <3>1, Fresh
    <3> QED
      BY <1>4, <1>7, <3>1, <3>2, Fresh DEF Carries
  <2>2. ~Pending'
    BY <1>6 DEF Pending
  <2> QED
    BY <1>1, <1>6, <1>8, <2>1, <2>2 DEF Answering
<1>12. Ending'
  BY <1>1, <1>7 DEF Ending
<1> QED
  BY <1>9, <1>10, <1>11, <1>12

\* The server ends; with the client's status unless a signal ends it.
LEMMA ServerEnds ==
    ASSUME Inv, ~Ended(server), NEW code \in Code, server' = End(server, code),
           ~Ended(client) => code = Signalled,
           Ended(client) /\ client.code # Signalled => code \in {Signalled, client.code},
           UNCHANGED <<client, up, down, request, performed, answer>>
    PROVE  Inv'
<1> USE DEF Inv
<1>1. /\ client' = client /\ up' = up /\ down' = down
      /\ request' = request /\ performed' = performed /\ answer' = answer
  OBVIOUS
<1>2. /\ server' = [at |-> "ended", out |-> server.out, in |-> server.in, code |-> code]
      /\ server.out \in Seq(Tokens) /\ IsReader(server.in)
  <2>1. /\ server = [at |-> server.at, out |-> server.out, in |-> server.in, code |-> server.code]
        /\ server.out \in Seq(Tokens) /\ IsReader(server.in)
    BY DEF Typed, IsProcess
  <2> QED
    BY <2>1 DEF End
<1>3. Ended(server') /\ server'.at = "ended" /\ server'.code = code
  BY <1>2 DEF Ended
<1>4. Typed'
  BY <1>1, <1>2 DEF Typed, IsProcess
<1>5. Asking'
  BY <1>3 DEF Asking
<1>6. Answering'
  <2>m. PICK tokens : tokens = ToCome(client.in, answer, ReplyFields(answer.type))
    OBVIOUS
  <2>1. Carries(down, server, tokens) => Carries(down, server', tokens)
    BY <1>2, <1>3, CarriesEnd DEF Carries, Typed
  <2>2. client.at = "receive" /\ ~Pending =>
          /\ Reads(client.in, answer) /\ client.in.len = RoomFor(request)
          /\ Carries(down, server', ToCome(client.in, answer, ReplyFields(answer.type)))
    BY <2>1, <2>m DEF Answering
  <2>3. client.at \in {"idle", "send"} => server'.at \in {"read", "ended"}
    BY <1>3
  <2> QED
    BY <1>1, <2>2, <2>3 DEF Answering, Pending
<1>7. Ending'
  BY <1>1, <1>3 DEF Ending
<1> QED
  BY <1>4, <1>5, <1>6, <1>7

LEMMA SendDownStep == Inv /\ SendDown => Inv'
<1> SUFFICES ASSUME Inv, SendDown PROVE Inv'
  OBVIOUS
<1> USE DEF Inv
<1>1. /\ server.at = "send" /\ client' = client /\ up' = up
      /\ request' = request /\ performed' = performed /\ answer' = answer
  BY DEF SendDown
<1>2. /\ performed # <<>> /\ up = <<>> /\ server.out # <<>> /\ client.at \in {"receive", "ended"}
      /\ ~Ended(server) /\ ~Pending
  BY <1>1 DEF Asking, Ended, Pending
<1>3. CASE Ended(client)
  <2>1. /\ server' = End(server, Sigpipe) /\ down' = down /\ Sigpipe \in Code
    BY <1>3 DEF SendDown, Code
  <2>2. client.code = Signalled
    BY <1>1, <1>2, <1>3 DEF Ending
  <2> QED
    BY <1>1, <1>2, <1>3, <2>1, <2>2, ServerEnds
<1>4. CASE ~Ended(client)
  <2>o. PICK o : o = server.out
    OBVIOUS
  <2>t. PICK t : t = Tail(o)
    OBVIOUS
  <2>m. PICK tokens : tokens = ToCome(client.in, answer, ReplyFields(answer.type))
    OBVIOUS
  <2>1. /\ server = [at |-> server.at, out |-> server.out, in |-> server.in, code |-> server.code]
        /\ o \in Seq(Tokens) /\ o # <<>> /\ IsReader(server.in) /\ server.code \in Code
        /\ down \in Seq(Tokens) /\ Len(down) =< Cap /\ request # <<>>
    BY <1>2, <2>o DEF Typed, IsProcess
  <2>2. /\ Len(down) < Cap /\ down' = Append(down, Head(o)) /\ client.at = "receive"
    BY <1>2, <1>4, <2>o DEF SendDown, Ended
  <2>3. /\ down \o o = down' \o t /\ t \in Seq(Tokens) /\ down' \in Seq(Tokens)
        /\ Len(down') = Len(down) + 1
    BY <2>1, <2>2, <2>t, CarriesSend
  <2>4. Len(down') =< Cap
    BY <2>1, <2>2, <2>3, WireAssumption
  <2>5. server' = [at |-> IF t = <<>> THEN "read" ELSE "send", out |-> t,
                   in |-> IF t = <<>> THEN freshReader(0) ELSE server.in, code |-> server.code]
    <3>1. CASE t = <<>>
      <4>1. server' = [server EXCEPT !.out = <<>>, !.at = "read", !.in = freshReader(0)]
        BY <1>4, <2>o, <2>t, <3>1 DEF SendDown
      <4> QED
        BY <2>1, <3>1, <4>1
    <3>2. CASE t # <<>>
      <4>1. server' = [server EXCEPT !.out = t]
        BY <1>4, <2>o, <2>t, <3>2 DEF SendDown
      <4> QED
        BY <1>1, <2>1, <3>2, <4>1
    <3> QED
      BY <3>1, <3>2
  <2>6. server'.out = t /\ ~Ended(server')
    BY <2>5 DEF Ended
  <2>7. /\ Reads(client.in, answer) /\ client.in.len = RoomFor(request) /\ tokens = down \o o
    BY <1>2, <2>2, <2>m, <2>o DEF Answering, Carries
  <2>8. Carries(down', server', tokens)
    BY <2>3, <2>6, <2>7 DEF Carries
  <2>9. Typed'
    BY <1>1, <2>1, <2>3, <2>4, <2>5, Fresh DEF Typed, IsProcess
  <2>10. Asking'
    BY <1>1, <1>2, <2>2, <2>5 DEF Asking, Pending
  <2>11. Answering'
    BY <1>1, <1>2, <2>2, <2>7, <2>8, <2>m DEF Answering, Pending
  <2>12. Ending'
    BY <1>1, <1>4, <2>6 DEF Ending
  <2> QED
    BY <2>9, <2>10, <2>11, <2>12
<1> QED
  BY <1>3, <1>4

LEMMA WaitStep == Inv /\ Wait => Inv'
<1> SUFFICES ASSUME Inv, Wait PROVE Inv'
  OBVIOUS
<1>c. PICK code : code = IF client.code = Signalled THEN 127 ELSE client.code
  OBVIOUS
<1>1. /\ server.at = "wait" /\ Ended(client) /\ server' = End(server, code) /\ ~Ended(server)
      /\ UNCHANGED <<client, up, down, request, performed, answer>>
  BY <1>c DEF Wait, Ended
<1>2. code \in Code /\ (client.code # Signalled => code = client.code)
  BY <1>c DEF Inv, Typed, IsProcess, Code
<1> QED
  BY <1>1, <1>2, ServerEnds

LEMMA NextStep == Inv /\ [Next]_vars => Inv'
<1> SUFFICES ASSUME Inv, [Next]_vars PROVE Inv'
  OBVIOUS
<1>1. CASE Call
  BY <1>1, CallStep
<1>2. CASE SendUp \/ ReadDown \/ EofDown \/ Return
  BY <1>2, SendUpStep, ReadDownStep, EofDownStep, ReturnStep
<1>3. CASE Quit
  <2>1. PICK code \in Statuses : client' = End(client, code)
    BY <1>3 DEF Quit
  <2>2. code \in Code /\ client.at = "idle" /\ ~Ended(client)
        /\ UNCHANGED <<server, up, down, request, performed, answer>>
    BY <1>3, WireAssumption DEF Quit, Code, Ended
  <2> QED
    BY <2>1, <2>2, ClientEnds
<1>4. CASE ClientDies
  BY <1>4, ClientEnds DEF ClientDies, Code
<1>5. CASE ReadUp \/ EofUp \/ Perform \/ SendDown \/ Wait
  BY <1>5, ReadUpStep, EofUpStep, PerformStep, SendDownStep, WaitStep
<1>6. CASE ServerDies
  BY <1>6, ServerEnds DEF ServerDies, Code
<1>7. CASE UNCHANGED vars
  BY <1>7 DEF vars, Inv, Typed, Asking, Answering, Ending, Pending
<1> QED
  BY <1>1, <1>2, <1>3, <1>4, <1>5, <1>6, <1>7 DEF Next, ClientStep, ServerStep

LEMMA AlwaysInv == Spec => []Inv
<1>1. Init => Inv
  BY Initially
<1>2. Inv /\ [Next]_vars => Inv'
  BY NextStep
<1> QED
  BY <1>1, <1>2, PTL DEF Spec

-----------------------------------------------------------------------------
(* What follows. *)

\* The processes are where they can be, and every message that is complete is well-formed
\* (Request::receive, erlent.cc:89-132; Reply::receive, erlent.cc:134-160).
THEOREM WireTyped == Spec => []TypeOK
<1>1. Inv => TypeOK
  <2> SUFFICES ASSUME Inv PROVE TypeOK
    OBVIOUS
  <2> USE DEF Inv
  <2>1. client.at = "receive" /\ Complete(client.in) => IsReply(message(client.in))
    <3> SUFFICES ASSUME client.at = "receive", Complete(client.in)
                 PROVE  IsReply(message(client.in))
      OBVIOUS
    <3>1. /\ request # <<>> /\ ~Pending
          /\ message(client.in) \in Remote!MayBe(answer, "READ", Ended(server))
      BY Received
    <3>2. IsReply(answer) /\ Sent(answer, ReplyFields(answer.type), RoomFor(request))
          /\ ("data" \in DOMAIN answer.vals <=> answer.type = "READ")
      BY <3>1, AnsweredSent, ReplyFieldsProper DEF Sent
    <3>3. CASE message(client.in) \in Cut(answer) /\ answer.type = "READ"
      <4>1. /\ message(client.in).type = answer.type
            /\ IsMessage(message(client.in), ReplyFields(answer.type))
        BY <3>2, <3>3, CutTyped
      <4> QED
        BY <3>2, <4>1 DEF IsReply
    <3> QED
      BY <3>1, <3>2, <3>3, MayBeIs
  <2>2. server.at = "perform" => IsRequest(message(server.in))
    <3>1. server.at = "perform" =>
            request \in Requests /\ message(server.in) \in Remote!MayBe(request, "WRITE", TRUE)
      BY AskedSent, MayBeIs DEF Asking, Pending
    <3> QED
      BY <3>1, CutPerformed
  <2>3. request = <<>> \/ IsRequest(request)
    BY AskedSent
  <2>4. answer = <<>> \/ IsReply(answer)
    BY AskedSent, AnswerSent DEF Typed
  <2>5. /\ client.at = "send" => client.out # <<>>
        /\ server.at = "send" => server.out # <<>>
    BY DEF Asking, Answering
  <2>6. /\ client.at \in {"idle", "send", "receive", "ended"} /\ client.code \in Code
        /\ server.at \in {"read", "perform", "send", "wait", "ended"} /\ server.code \in Code
        /\ Len(up) =< Cap /\ Len(down) =< Cap
        /\ IsReader(client.in) /\ IsReader(server.in)
        /\ performed = <<>> \/ IsRequest(performed)
    BY DEF Typed, IsProcess
  <2> QED
    BY <2>1, <2>2, <2>3, <2>4, <2>5, <2>6 DEF TypeOK
<1> QED
  BY <1>1, AlwaysInv, PTL

\* Between calls nothing is left in the pipes or half read, so that the next reply belongs
\* to the next request (erlent.cc:333-347).
THEOREM StaysInSync == Spec => []InSync
<1>1. Inv => InSync
  BY DEF Inv, InSync, Asking, Answering, Ended
<1> QED
  BY <1>1, AlwaysInv, PTL

\* A client that ends between calls hands its exit status on through the server
\* (server/main.cc:110-118).
THEOREM StatusIsPassed == Spec => []StatusPassed
<1>1. Inv => StatusPassed
  <2>1. \A code \in Statuses : code # Signalled
    BY WireAssumption DEF Signalled
  <2> QED
    BY <2>1 DEF Inv, StatusPassed, Ending
<1> QED
  BY <1>1, AlwaysInv, PTL

\* The abstract states of a client and a server.
LEMMA RemoteInitially == Init => Remote!Init
  BY DEF Init, Remote!Init, Ended

\* A process that ends leaves the last call as it is.
LEMMA RemoteEnds ==
    ASSUME UNCHANGED <<request, performed, answer, result>>,
           client' = client \/ (~Ended(client) /\ Ended(client')),
           server' = server \/ (~Ended(server) /\ Ended(server')),
           client' = client \/ server' = server,
           client.at \in {"idle", "send", "receive", "ended"}
    PROVE  [Remote!Next]_Remote!vars
<1>1. CASE client' = client /\ server' = server
  BY <1>1 DEF Remote!vars, Ended
<1>2. CASE ~Ended(client) /\ Ended(client') /\ server' = server
  <2>1. Remote!EndClient
    BY <1>2 DEF Remote!EndClient, Ended
  <2> QED
    BY <2>1 DEF Remote!Next
<1>3. CASE ~Ended(server) /\ Ended(server') /\ client' = client
  <2>1. Remote!EndServer
    BY <1>3 DEF Remote!EndServer, Ended
  <2> QED
    BY <2>1 DEF Remote!Next
<1> QED
  BY <1>1, <1>2, <1>3

LEMMA EndIs ==
    ASSUME NEW p, NEW ats, IsProcess(p, ats), NEW code
    PROVE  Ended(End(p, code))
  BY DEF IsProcess, End, Ended

\* A step that only moves a process on is none of Rpc.
LEMMA RemoteStutters ==
    ASSUME UNCHANGED <<request, performed, answer, result>>,
           IF client.at \in {"idle", "ended"} THEN client'.at = client.at
           ELSE client'.at \in {"send", "receive"},
           Ended(server') <=> Ended(server),
           client.at \in {"idle", "send", "receive", "ended"}
    PROVE  [Remote!Next]_Remote!vars
  BY DEF Remote!vars, Ended

LEMMA RemoteStep == Inv /\ [Next]_vars => [Remote!Next]_Remote!vars
<1> SUFFICES ASSUME Inv, [Next]_vars PROVE [Remote!Next]_Remote!vars
  OBVIOUS
<1>0. /\ IsProcess(client, {"idle", "send", "receive", "ended"})
      /\ IsProcess(server, {"read", "perform", "send", "wait", "ended"})
      /\ client.at \in {"idle", "send", "receive", "ended"}
      /\ server.at \in {"read", "perform", "send", "wait", "ended"}
      /\ client = [at |-> client.at, out |-> client.out, in |-> client.in, code |-> client.code]
      /\ server = [at |-> server.at, out |-> server.out, in |-> server.in, code |-> server.code]
  BY DEF Inv, Typed, IsProcess
<1>1. CASE Call
  <2>1. client'.at = "send"
    BY <1>0, <1>1 DEF Call
  <2>2. Remote!Call
    BY <1>1, <2>1 DEF Call, Remote!Call, Ended
  <2> QED
    BY <2>2 DEF Remote!Next
<1>2. CASE SendUp
  <2>1. client.at = "send" /\ client'.at \in {"send", "receive"} /\ server' = server
    BY <1>0, <1>2 DEF SendUp
  <2> QED
    BY <1>0, <1>2, <2>1, RemoteStutters DEF SendUp
<1>3. CASE ReadDown
  <2>1. client.at = "receive" /\ server' = server /\ UNCHANGED <<request, performed, answer, result>>
    BY <1>3 DEF ReadDown
  <2>2. client' = End(client, 1) \/ \E r : client' = [client EXCEPT !.in = r]
    BY <1>3 DEF ReadDown
  <2>3. Ended(client') \/ client'.at = "receive"
    BY <1>0, <2>1, <2>2, EndIs
  <2> QED
    BY <1>0, <2>1, <2>3, RemoteEnds, RemoteStutters DEF Ended
<1>4. CASE EofDown
  <2>1. client.at = "receive" /\ server' = server /\ UNCHANGED <<request, performed, answer, result>>
    BY <1>4 DEF EofDown
  <2>2. client' = End(client, Signalled) \/ \E r : client' = [client EXCEPT !.in = r]
    BY <1>4 DEF EofDown
  <2>3. Ended(client') \/ client'.at = "receive"
    BY <1>0, <2>1, <2>2, EndIs
  <2> QED
    BY <1>0, <2>1, <2>3, RemoteEnds, RemoteStutters DEF Ended
<1>5. CASE Return
  <2>1. /\ client.at = "receive" /\ Complete(client.in) /\ result' = delivered(message(client.in))
        /\ server' = server /\ request' = request /\ performed' = performed /\ answer' = answer
    BY <1>5 DEF Return
  <2>2. client'.at = "idle"
    BY <1>0, <1>5 DEF Return
  <2>3. answer # <<>> /\ message(client.in) \in Remote!MayBe(answer, "READ", Ended(server))
    BY <2>1, Received
  <2>4. \A a : Remote!delivered(a) = delivered(a)
    BY DEF Remote!delivered, delivered
  <2>5. Remote!Return
    BY <2>1, <2>2, <2>3, <2>4, MayBeIs DEF Remote!Return, Ended
  <2> QED
    BY <2>5 DEF Remote!Next
<1>6. CASE Quit \/ ClientDies
  <2>1. ~Ended(client) /\ \E code : client' = End(client, code)
    BY <1>6 DEF Quit, ClientDies, Ended
  <2>2. Ended(client')
    BY <1>0, <2>1, EndIs
  <2> QED
    BY <1>0, <1>6, <2>1, <2>2, RemoteEnds DEF Quit, ClientDies
<1>7. CASE ReadUp
  <2>1. server.at = "read" /\ client' = client /\ UNCHANGED <<request, performed, answer, result>>
    BY <1>7 DEF ReadUp
  <2>2. \/ server' = End(server, 1)
        \/ \E r : server' = [server EXCEPT !.in = r, !.at = IF Complete(r) THEN "perform" ELSE "read"]
    BY <1>7 DEF ReadUp
  <2>3. Ended(server') \/ server'.at \in {"perform", "read"}
    BY <1>0, <2>2, EndIs
  <2> QED
    BY <1>0, <2>1, <2>3, RemoteEnds, RemoteStutters DEF Ended
<1>8. CASE EofUp
  <2>1. server.at = "read" /\ client' = client /\ UNCHANGED <<request, performed, answer, result>>
    BY <1>8 DEF EofUp
  <2>2. server'.at \in {"perform", "wait"}
    BY <1>0, <1>8 DEF EofUp
  <2> QED
    BY <1>0, <2>1, <2>2, RemoteStutters DEF Ended
<1>9. CASE Perform
  <2>1. /\ server.at = "perform" /\ performed' = message(server.in)
        /\ answer' \in performLocally(message(server.in))
        /\ client' = client /\ request' = request /\ result' = result
    BY <1>9 DEF Perform
  <2>2. server'.at = "send"
    BY <1>0, <1>9 DEF Perform
  <2>3. /\ Pending /\ answer' \in performLocally(request)
        /\ message(server.in) \in Remote!MayBe(request, "WRITE", Ended(client))
    BY <2>1, Performed
  <2>4. Remote!Perform
    BY <2>1, <2>2, <2>3, MayBeIs DEF Remote!Perform, Ended, Pending
  <2> QED
    BY <2>4 DEF Remote!Next
<1>10. CASE SendDown
  <2>1. server.at = "send" /\ client' = client /\ UNCHANGED <<request, performed, answer, result>>
    BY <1>10 DEF SendDown
  <2>2. \/ server' = End(server, Sigpipe)
        \/ server' = [server EXCEPT !.out = <<>>, !.at = "read", !.in = freshReader(0)]
        \/ server' = [server EXCEPT !.out = Tail(@)]
    BY <1>10 DEF SendDown
  <2>3. Ended(server') \/ server'.at \in {"read", "send"}
    BY <1>0, <2>1, <2>2, EndIs
  <2> QED
    BY <1>0, <2>1, <2>3, RemoteEnds, RemoteStutters DEF Ended
<1>11. CASE Wait \/ ServerDies
  <2>1. ~Ended(server) /\ \E code : server' = End(server, code)
    BY <1>11 DEF Wait, ServerDies, Ended
  <2>2. Ended(server')
    BY <1>0, <2>1, EndIs
  <2> QED
    BY <1>0, <1>11, <2>1, <2>2, RemoteEnds DEF Wait, ServerDies
<1>12. CASE UNCHANGED vars
  BY <1>0, <1>12, RemoteEnds DEF vars
<1> QED
  BY <1>1, <1>2, <1>3, <1>4, <1>5, <1>6, <1>7, <1>8, <1>9, <1>10, <1>11, <1>12
     DEF Next, ClientStep, ServerStep

\* The server performs the very request the callback made, at most once, and the callback
\* gets the reply to this request; only a process that ends can damage data under way
\* (processMessage, server/main.cc:16-25; process, fuse/main.cc:31-48).
THEOREM ImplementsRpcAlways == Spec => ImplementsRpc
<1>1. Init => Remote!Init
  BY RemoteInitially
<1>2. Inv /\ [Next]_vars => [Remote!Next]_Remote!vars
  BY RemoteStep
<1> QED
  BY <1>1, <1>2, AlwaysInv, PTL DEF Spec, ImplementsRpc, Remote!Spec
=============================================================================
