---------------------------- MODULE PtyLoopProofs ----------------------------
(***************************************************************************)
(* Proofs about the copying between the terminal and the pty, for buffers  *)
(* and queues of every size, any input and output and any number of        *)
(* signals.                                                                *)
(***************************************************************************)
EXTENDS PtyLoopProps, SequenceTheorems, TLAPS

-----------------------------------------------------------------------------
(* Queues *)

\* A queue is cut in two without loss.
LEMMA SplitSeq ==
    ASSUME NEW S, NEW s \in Seq(S), NEW n \in 0 .. Len(s)
    PROVE  /\ SubSeq(s, 1, n) \in Seq(S) /\ Len(SubSeq(s, 1, n)) = n
           /\ SubSeq(s, n + 1, Len(s)) \in Seq(S)
           /\ SubSeq(s, 1, n) \o SubSeq(s, n + 1, Len(s)) = s
<1>1. Len(s) \in Nat
  BY LenProperties
<1>2. SubSeq(s, 1, n) \in Seq(S) /\ Len(SubSeq(s, 1, n)) = n
  <2>1. \A i \in 1 .. n : s[i] \in S
    BY <1>1, ElementOfSeq
  <2> QED
    BY <1>1, <2>1, SubSeqProperties
<1>3. SubSeq(s, n + 1, Len(s)) \in Seq(S)
  <2>1. \A i \in n + 1 .. Len(s) : s[i] \in S
    BY <1>1, ElementOfSeq
  <2> QED
    BY <1>1, <2>1, SubSeqProperties
<1>4. SubSeq(s, 1, n) \o SubSeq(s, n + 1, Len(s)) = SubSeq(s, 1, Len(s))
  <2>1. 1 \in 1 .. Len(s) + 1 /\ n \in 1 - 1 .. Len(s) /\ Len(s) \in n .. Len(s)
    BY <1>1
  <2> QED
    BY <2>1, ConcatAdjacentSubSeq
<1> QED
  BY <1>2, <1>3, <1>4, SubSeqFull

LEMMA ReadSplits ==
    ASSUME BufSize \in Nat, NEW s \in Seq(Nat)
    PROVE  /\ Input(s) \in Seq(Nat) /\ Len(Input(s)) =< BufSize
           /\ Remains(s) \in Seq(Nat) /\ Len(Remains(s)) =< Len(s)
           /\ Input(s) \o Remains(s) = s
<1>1. Len(s) \in Nat
  BY LenProperties
<1>2. Rc(s) \in 0 .. Len(s) /\ Rc(s) =< BufSize
  BY <1>1 DEF Rc
<1>3. /\ Input(s) \in Seq(Nat) /\ Len(Input(s)) = Rc(s) /\ Remains(s) \in Seq(Nat)
      /\ Input(s) \o Remains(s) = s
  BY <1>2, SplitSeq DEF Input, Remains
<1>4. Len(Input(s)) + Len(Remains(s)) = Len(s)
  BY <1>3, ConcatProperties
<1> QED
  BY <1>1, <1>2, <1>3, <1>4, LenProperties

LEMMA Assoc ==
    ASSUME NEW a \in Seq(Nat), NEW b \in Seq(Nat), NEW c \in Seq(Nat)
    PROVE  (a \o b) \o c = a \o (b \o c)
  BY ConcatAssociative

\* The provers instantiate this one sooner with a name for \o.
Cat(a, b) == a \o b

\* A character, or a chunk, moves from the front of one queue to the end of another.
LEMMA MoveChunk ==
    ASSUME NEW a \in Seq(Nat), NEW b \in Seq(Nat), NEW l \in Seq(Nat), NEW r \in Seq(Nat)
    PROVE  Cat(Cat(a, Cat(b, l)), r) = Cat(Cat(a, b), Cat(l, r))
<1>1. a \o (b \o l) = (a \o b) \o l
  BY Assoc
<1>2. a \o b \in Seq(Nat)
  BY ConcatProperties
<1>3. ((a \o b) \o l) \o r = (a \o b) \o (l \o r)
  BY <1>2, Assoc
<1> QED
  BY <1>1, <1>3 DEF Cat

LEMMA TakeChunk ==
    ASSUME NEW a \in Seq(Nat), NEW l \in Seq(Nat), NEW r \in Seq(Nat)
    PROVE  a \o l \o r = a \o <<>> \o (l \o r)
<1>1. a \o <<>> = a
  BY ConcatEmptySeq
<1>2. (a \o l) \o r = a \o (l \o r)
  BY Assoc
<1> QED
  BY <1>1, <1>2

LEMMA MoveHead ==
    ASSUME NEW a \in Seq(Nat), NEW b \in Seq(Nat), b # <<>>
    PROVE  Append(a, Head(b)) \o Tail(b) = a \o b
<1>1. Head(b) \in Nat /\ Tail(b) \in Seq(Nat)
  BY HeadTailProperties
<1>2. Append(a, Head(b)) = a \o <<Head(b)>>
  BY <1>1, AppendIsConcat
<1>3. <<Head(b)>> \o Tail(b) = b
  <2>1. Len(b) \in Nat \ {0}
    BY EmptySeq
  <2>2. 1 \in 1 .. Len(b) /\ Len(b) \in 1 .. Len(b)
    BY <2>1
  <2>3. SubSeq(b, 1, Len(b)) = <<b[1]>> \o SubSeq(b, 1 + 1, Len(b))
    BY <2>2, SubSeqRecursiveFirst
  <2> QED
    BY <2>3, SubSeqFull, TailIsSubSeq
<1>4. <<Head(b)>> \in Seq(Nat)
  BY <1>1
<1>5. (a \o <<Head(b)>>) \o Tail(b) = a \o (<<Head(b)>> \o Tail(b))
  BY <1>1, <1>4, Assoc
<1> QED
  BY <1>2, <1>3, <1>5

LEMMA AddLast ==
    ASSUME NEW a \in Seq(Nat), NEW b \in Seq(Nat), NEW e \in Nat
    PROVE  a \o Append(b, e) = Append(a \o b, e)
<1>1. <<e>> \in Seq(Nat) /\ a \o b \in Seq(Nat)
  BY ConcatProperties
<1>2. Append(b, e) = b \o <<e>> /\ Append(a \o b, e) = (a \o b) \o <<e>>
  BY <1>1, AppendIsConcat
<1> QED
  BY <1>1, <1>2, Assoc

LEMMA CountOn ==
    ASSUME NEW n \in Nat
    PROVE  Numbers(n) \in Seq(Nat) /\ Append(Numbers(n), n + 1) = Numbers(n + 1)
<1>1. Numbers(n) \in Seq(Nat) /\ Len(Numbers(n)) = n
  BY DEF Numbers
<1>2. Numbers(n + 1) \in Seq(Nat) /\ Len(Numbers(n + 1)) = n + 1
  BY DEF Numbers
<1>3. \A i \in 1 .. n : Numbers(n)[i] = i
  BY DEF Numbers
<1>4. \A i \in 1 .. n + 1 : Numbers(n + 1)[i] = i
  BY DEF Numbers
<1>5. /\ Append(Numbers(n), n + 1) \in Seq(Nat) /\ Len(Append(Numbers(n), n + 1)) = n + 1
      /\ \A i \in 1 .. n : Append(Numbers(n), n + 1)[i] = Numbers(n)[i]
      /\ Append(Numbers(n), n + 1)[n + 1] = n + 1
  BY <1>1, AppendProperties
<1>6. \A i \in 1 .. n + 1 : Append(Numbers(n), n + 1)[i] = Numbers(n + 1)[i]
  BY <1>3, <1>4, <1>5
<1> QED
  BY <1>1, <1>2, <1>5, <1>6, SeqEqual

-----------------------------------------------------------------------------
(* Types *)

\* What is on its way: the characters, by their numbers.
Text == Seq(Nat)

Typed ==
    /\ pid1 \in [at : Where, ready : SUBSET {"tty", "pty"}, chunk : Text,
                 quit : BOOLEAN, moved : BOOLEAN]
    /\ tty \in [mode : {"cooked", "raw"}, size : Sizes, hungup : BOOLEAN, keys : Nat,
                typed : Text, queued : Text, shown : Text]
    /\ pty \in [size : Sizes, in : Text, out : Text, open : SUBSET Holders]
    /\ cmd \in [at : {"none", "sem", "run", "ended"}, got : Text, wrote : Text]
    /\ pend \subseteq {"WINCH", "CHLD", "HUP"}
    /\ signals \in Nat /\ cut \in BOOLEAN

Bounded ==
    /\ Len(pid1.chunk) =< BufSize
    /\ pid1.chunk # <<>> => pid1.at \in {"writePty", "writeTty"}
    /\ Len(pty.in) =< InCap /\ Len(pty.out) =< OutCap /\ Len(tty.queued) =< TtyCap

LEMMA WriteSplits ==
    ASSUME Typed, Bounded, NEW q \in Seq(Nat), NEW cap \in Nat, Len(q) =< cap,
           NEW room, room = cap - Len(q)
    PROVE  LET l == SubSeq(pid1.chunk, 1, Written(room))
               r == SubSeq(pid1.chunk, Written(room) + 1, Len(pid1.chunk))
           IN  /\ l \in Seq(Nat) /\ r \in Seq(Nat) /\ l \o r = pid1.chunk
               /\ Append1(q, room) = q \o l
               /\ Append1(q, room) \in Seq(Nat) /\ Len(Append1(q, room)) =< cap
               /\ Len(r) =< BufSize
<1> DEFINE s == pid1.chunk
           n == Written(room)
           l == SubSeq(s, 1, n)
           r == SubSeq(s, n + 1, Len(s))
<1>1. s \in Seq(Nat) /\ Len(s) \in Nat /\ Len(q) \in Nat /\ BufSize \in Nat
  BY LenProperties, PtyLoopAssumption DEF Typed, Text
<1>2. n \in 0 .. Len(s) /\ n =< room
  BY <1>1 DEF Written
<1>3. l \in Seq(Nat) /\ Len(l) = n /\ r \in Seq(Nat) /\ l \o r = s
  BY <1>1, <1>2, SplitSeq
<1>4. Len(l) + Len(r) = Len(s) /\ Len(r) \in Nat
  <2> HIDE DEF l, r, s, n
  <2> QED
    BY <1>3, ConcatProperties, LenProperties
<1>5. q \o l \in Seq(Nat) /\ Len(q \o l) = Len(q) + n
  BY <1>3, ConcatProperties
<1>6. Append1(q, room) = q \o l
  BY DEF Append1
<1>7. Len(r) =< BufSize
  BY <1>1, <1>2, <1>3, <1>4 DEF Bounded
<1> HIDE DEF l, r, n, s
<1>8. Len(q \o l) =< cap
  BY <1>1, <1>2, <1>5
<1> QED
  BY Zenon, <1>3, <1>5, <1>6, <1>7, <1>8 DEF l, r, n, s

LEMMA TypedInit == Init => Typed /\ Bounded
<1> SUFFICES ASSUME Init
             PROVE  Typed /\ Bounded
  OBVIOUS
<1>1. <<>> \in Text /\ Len(<<>>) = 0
  BY EmptySeq DEF Text
<1>2. PICK s \in Sizes :
        /\ tty = [mode |-> "cooked", size |-> s, hungup |-> FALSE, keys |-> 0,
                  typed |-> <<>>, queued |-> <<>>, shown |-> <<>>]
        /\ pty = [size |-> s, in |-> <<>>, out |-> <<>>, open |-> {}]
  BY DEF Init
<1>3. Typed
  BY <1>1, <1>2 DEF Init, Typed, Where
<1>4. Bounded
  BY <1>1, <1>2, PtyLoopAssumption DEF Init, Bounded
<1> QED
  BY <1>3, <1>4

\* What the reads and the writes change, field by field.
LEMMA ReadTtyStep ==
    ASSUME Typed, ReadTty
    PROVE  /\ pid1.at = "readTty" /\ UNCHANGED <<pend, pty, cmd, signals, cut>>
           /\ pid1' \in [at : {"writePty", "readPty"}, ready : {pid1.ready},
                         chunk : {pid1.chunk, Input(tty.typed)}, quit : BOOLEAN,
                         moved : BOOLEAN]
           /\ \/ /\ pid1'.at = "writePty" /\ pid1'.chunk = Input(tty.typed)
                 /\ pid1'.quit = pid1.quit
                 /\ ~tty.hungup /\ tty' = [tty EXCEPT !.typed = Remains(@)]
              \/ /\ pid1'.at = "readPty" /\ pid1'.chunk = pid1.chunk
                 /\ pid1'.quit => tty.hungup
                 /\ UNCHANGED tty
<1> DEFINE b == "tty" \in pid1.ready
<1>1. b \in BOOLEAN
  OBVIOUS
<1>2. CASE b /\ ~tty.hungup
  <2>1. /\ pid1' = [pid1 EXCEPT !.at = "writePty", !.chunk = Input(tty.typed), !.moved = FALSE]
        /\ tty' = [tty EXCEPT !.typed = Remains(@)]
        /\ pid1.at = "readTty" /\ UNCHANGED <<pend, pty, cmd, signals, cut>>
    BY <1>2 DEF ReadTty
  <2>2. pid1'.at = "writePty" /\ pid1'.chunk = Input(tty.typed) /\ pid1'.quit = pid1.quit
    BY <2>1 DEF Typed
  <2>3. pid1' \in [at : {"writePty"}, ready : {pid1.ready}, chunk : {Input(tty.typed)},
                   quit : BOOLEAN, moved : BOOLEAN]
    BY <2>1 DEF Typed
  <2> QED
    BY <1>2, <2>1, <2>2, <2>3
<1>3. CASE ~(b /\ ~tty.hungup)
  <2>1. pid1' = [pid1 EXCEPT !.at = "readPty", !.quit = b] /\ UNCHANGED tty
    BY <1>3 DEF ReadTty
  <2>2. b => tty.hungup
    BY <1>3 DEF Typed
  <2>3. pid1.at = "readTty" /\ UNCHANGED <<pend, pty, cmd, signals, cut>>
    BY DEF ReadTty
  <2> HIDE DEF b
  <2> QED
    BY <1>1, <2>1, <2>2, <2>3 DEF Typed
<1> QED
  BY <1>2, <1>3

LEMMA ReadPtyStep ==
    ASSUME Typed, Bounded, ReadPty
    PROVE  /\ pid1.at \in {"readPty", "writePty"} /\ pid1.chunk = <<>>
           /\ UNCHANGED <<pend, tty, cmd, signals, cut>>
           /\ pid1' \in [at : {"writeTty", "again"}, ready : {pid1.ready},
                         chunk : {<<>>, Input(pty.out)}, quit : BOOLEAN, moved : BOOLEAN]
           /\ \/ /\ pid1'.at = "writeTty" /\ pid1'.chunk = Input(pty.out)
                 /\ pid1'.quit = pid1.quit /\ pty' = [pty EXCEPT !.out = Remains(@)]
              \/ /\ pid1'.at = "again" /\ pid1'.chunk = <<>> /\ UNCHANGED pty
                 /\ pid1'.quit => pid1.quit \/ ("pty" \in pid1.ready /\ pty.out = <<>>)
<1> DEFINE b == "pty" \in pid1.ready
           q == pid1.quit \/ b
<1>1. q \in BOOLEAN
  BY DEF Typed
<1>2. pid1.chunk = <<>>
  BY DEF ReadPty, Bounded
<1>3. CASE b /\ pty.out # <<>>
  <2>1. /\ pid1' = [pid1 EXCEPT !.at = "writeTty", !.chunk = Input(pty.out), !.moved = FALSE]
        /\ pty' = [pty EXCEPT !.out = Remains(@)]
    BY <1>3 DEF ReadPty
  <2>2. /\ pid1.at \in {"readPty", "writePty"}
        /\ UNCHANGED <<pend, tty, cmd, signals, cut>>
    BY DEF ReadPty
  <2>3. /\ pid1' \in [at : {"writeTty", "again"}, ready : {pid1.ready},
                      chunk : {<<>>, Input(pty.out)}, quit : BOOLEAN, moved : BOOLEAN]
        /\ pid1'.at = "writeTty" /\ pid1'.chunk = Input(pty.out) /\ pid1'.quit = pid1.quit
    BY <2>1 DEF Typed
  <2> QED
    BY <1>2, <2>1, <2>2, <2>3
<1>4. CASE ~(b /\ pty.out # <<>>)
  <2>1. pid1' = [pid1 EXCEPT !.at = "again", !.quit = q] /\ UNCHANGED pty
    BY <1>4 DEF ReadPty
  <2>2. q => pid1.quit \/ (b /\ pty.out = <<>>)
    BY <1>4
  <2>3. /\ pid1.at \in {"readPty", "writePty"}
        /\ UNCHANGED <<pend, tty, cmd, signals, cut>>
    BY DEF ReadPty
  <2> HIDE DEF q
  <2>4. /\ pid1' \in [at : {"writeTty", "again"}, ready : {pid1.ready},
                      chunk : {<<>>, Input(pty.out)}, quit : BOOLEAN, moved : BOOLEAN]
        /\ pid1'.at = "again" /\ pid1'.chunk = <<>> /\ pid1'.quit = q
    BY <1>1, <1>2, <2>1 DEF Typed
  <2> QED
    BY <1>2, <2>1, <2>2, <2>3, <2>4
<1> QED
  BY <1>3, <1>4

\* Reading takes at most a buffer, and from a queue that the loop alone empties.
LEMMA ReadTyped ==
    ASSUME Typed, Bounded, ReadTty \/ ReadPty
    PROVE  Typed' /\ Bounded'
<1>1. BufSize \in Nat /\ InCap \in Nat /\ OutCap \in Nat /\ TtyCap \in Nat
  BY PtyLoopAssumption
<1>2. CASE ReadTty
  <2>1. /\ Input(tty.typed) \in Text /\ Remains(tty.typed) \in Text
        /\ Len(Input(tty.typed)) =< BufSize
    BY <1>1, ReadSplits DEF Typed, Text
  <2>2. pid1.chunk = <<>>
    BY <1>2 DEF ReadTty, Bounded
  <2>3. /\ pid1' \in [at : Where, ready : SUBSET {"tty", "pty"}, chunk : Text,
                   quit : BOOLEAN, moved : BOOLEAN]
        /\ Len(pid1'.chunk) =< BufSize
        /\ pid1'.chunk # <<>> => pid1'.at \in {"writePty", "writeTty"}
    BY <1>2, <2>1, <2>2, ReadTtyStep DEF Typed, Bounded, Where
  <2>4. /\ tty' \in [mode : {"cooked", "raw"}, size : Sizes, hungup : BOOLEAN, keys : Nat,
                     typed : Text, queued : Text, shown : Text]
        /\ tty'.queued = tty.queued
    BY <1>2, <2>1 DEF ReadTty, Typed
  <2>5. UNCHANGED <<pend, pty, cmd, signals, cut>>
    BY <1>2 DEF ReadTty
  <2> QED
    BY <2>3, <2>4, <2>5 DEF Typed, Bounded
<1>3. CASE ReadPty
  <2>1. /\ Input(pty.out) \in Text /\ Remains(pty.out) \in Text
        /\ Len(Input(pty.out)) =< BufSize /\ Len(Remains(pty.out)) =< Len(pty.out)
    BY <1>1, ReadSplits DEF Typed, Text
  <2>2. Len(pty.out) \in Nat /\ Len(Remains(pty.out)) \in Nat
    BY <2>1, LenProperties DEF Typed, Text
  <2>9. /\ pid1' \in [at : Where, ready : SUBSET {"tty", "pty"}, chunk : Text,
                   quit : BOOLEAN, moved : BOOLEAN]
        /\ Len(pid1'.chunk) =< BufSize
        /\ pid1'.chunk # <<>> => pid1'.at \in {"writePty", "writeTty"}
    BY <1>3, <2>1, ReadPtyStep DEF Typed, Bounded, Where
  <2>5. /\ pty' \in [size : Sizes, in : Text, out : Text, open : SUBSET Holders]
        /\ pty'.in = pty.in
    BY <1>3, <2>1 DEF ReadPty, Typed
  <2>6. pty'.out = pty.out \/ pty'.out = Remains(pty.out)
    BY <1>3 DEF ReadPty, Typed
  <2>7. Len(pty'.out) =< OutCap
    BY <1>1, <2>1, <2>2, <2>6 DEF Bounded
  <2>8. UNCHANGED <<pend, tty, cmd, signals, cut>>
    BY <1>3 DEF ReadPty
  <2> QED
    BY <2>5, <2>7, <2>8, <2>9 DEF Typed, Bounded
<1> QED
  BY <1>2, <1>3

\* Writing moves what fits.
LEMMA WriteTyped ==
    ASSUME Typed, Bounded, WritePty \/ WriteTty
    PROVE  Typed' /\ Bounded'
<1>1. BufSize \in Nat /\ InCap \in Nat /\ OutCap \in Nat /\ TtyCap \in Nat
  BY PtyLoopAssumption
<1>3. CASE WritePty
  <2> DEFINE r == SubSeq(pid1.chunk, Written(InRoom) + 1, Len(pid1.chunk))
             q == Append1(pty.in, InRoom)
  <2>1. pty.in \in Seq(Nat) /\ Len(pty.in) =< InCap
    BY DEF Typed, Bounded, Text
  <2>2. r \in Text /\ Len(r) =< BufSize /\ q \in Text /\ Len(q) =< InCap
    BY <1>1, <2>1, WriteSplits DEF InRoom, Text
  <2>3. /\ pid1' = [pid1 EXCEPT !.chunk = r, !.moved = TRUE]
        /\ pty' = [pty EXCEPT !.in = q]
    BY <1>3 DEF WritePty, Writes
  <2>4. pid1.at = "writePty" /\ UNCHANGED <<pend, tty, cmd, signals, cut>>
    BY <1>3 DEF WritePty, Writes
  <2> HIDE DEF r, q
  <2>5. /\ pid1' \in [at : Where, ready : SUBSET {"tty", "pty"}, chunk : Text,
                      quit : BOOLEAN, moved : BOOLEAN]
        /\ pid1'.at = pid1.at /\ pid1'.chunk = r
    BY <2>2, <2>3 DEF Typed
  <2>6. /\ pty' \in [size : Sizes, in : Text, out : Text, open : SUBSET Holders]
        /\ pty'.out = pty.out
        /\ pty'.in = q
    BY <2>2, <2>3 DEF Typed
  <2> QED
    BY <2>2, <2>4, <2>5, <2>6 DEF Typed, Bounded
<1>4. CASE WriteTty
  <2> DEFINE r == SubSeq(pid1.chunk, Written(TtyRoom) + 1, Len(pid1.chunk))
             q == Append1(tty.queued, TtyRoom)
  <2>1. tty.queued \in Seq(Nat) /\ Len(tty.queued) =< TtyCap
    BY DEF Typed, Bounded, Text
  <2>2. r \in Text /\ Len(r) =< BufSize /\ q \in Text /\ Len(q) =< TtyCap
    BY <1>1, <2>1, WriteSplits DEF TtyRoom, Text
  <2>3. /\ pid1' = [pid1 EXCEPT !.chunk = r, !.moved = TRUE]
        /\ tty' = [tty EXCEPT !.queued = q]
        /\ pid1.at = "writeTty" /\ UNCHANGED <<pend, pty, cmd, signals, cut>>
    BY <1>4 DEF WriteTty, Writes
  <2> HIDE DEF r, q
  <2>4. /\ pid1' \in [at : Where, ready : SUBSET {"tty", "pty"}, chunk : Text,
                      quit : BOOLEAN, moved : BOOLEAN]
        /\ pid1'.at = pid1.at /\ pid1'.chunk = r
    BY <2>2, <2>3 DEF Typed
  <2>5. /\ tty' \in [mode : {"cooked", "raw"}, size : Sizes, hungup : BOOLEAN, keys : Nat,
                     typed : Text, queued : Text, shown : Text]
        /\ tty'.queued = q
    BY <2>2, <2>3 DEF Typed
  <2> QED
    BY <2>2, <2>3, <2>4, <2>5 DEF Typed, Bounded
<1> QED
  BY <1>3, <1>4

\* The steps that add a character to a queue or take one.
LEMMA QueueTyped ==
    ASSUME Typed, Bounded, Type \/ Show \/ CmdRead \/ CmdWrite
    PROVE  Typed' /\ Bounded'
<1>1. BufSize \in Nat /\ InCap \in Nat /\ OutCap \in Nat /\ TtyCap \in Nat
  BY PtyLoopAssumption
<1>2. CASE Type
  <2>1. tty.typed \in Seq(Nat) /\ tty.keys + 1 \in Nat
    BY DEF Typed, Text
  <2>2. Append(tty.typed, tty.keys + 1) \in Text
    BY <2>1, AppendProperties DEF Text
  <2>3. /\ tty' \in [mode : {"cooked", "raw"}, size : Sizes, hungup : BOOLEAN, keys : Nat,
                     typed : Text, queued : Text, shown : Text]
        /\ tty'.queued = tty.queued
    BY <1>2, <2>1, <2>2 DEF Type, Typed
  <2> QED
    BY <1>2, <2>3 DEF Type, Typed, Bounded
<1>3. CASE Show
  <2>1. tty.queued \in Seq(Nat) /\ tty.shown \in Seq(Nat) /\ tty.queued # <<>>
    BY <1>3 DEF Show, Typed, Text
  <2>2. /\ Head(tty.queued) \in Nat /\ Tail(tty.queued) \in Text
        /\ Len(Tail(tty.queued)) = Len(tty.queued) - 1
    BY <2>1, HeadTailProperties DEF Text
  <2>3. Append(tty.shown, Head(tty.queued)) \in Text /\ Len(tty.queued) \in Nat
    BY <2>1, <2>2, AppendProperties, LenProperties DEF Text
  <2>4. /\ tty' \in [mode : {"cooked", "raw"}, size : Sizes, hungup : BOOLEAN, keys : Nat,
                     typed : Text, queued : Text, shown : Text]
        /\ tty'.queued = Tail(tty.queued)
    BY <1>3, <2>2, <2>3 DEF Show, Typed
  <2>5. Len(tty'.queued) =< TtyCap
    BY <1>1, <2>2, <2>3, <2>4 DEF Bounded
  <2> QED
    BY <1>3, <2>4, <2>5 DEF Show, Typed, Bounded
<1>4. CASE CmdRead
  <2>1. pty.in \in Seq(Nat) /\ cmd.got \in Seq(Nat) /\ pty.in # <<>>
    BY <1>4 DEF CmdRead, Typed, Text
  <2>2. /\ Head(pty.in) \in Nat /\ Tail(pty.in) \in Text
        /\ Len(Tail(pty.in)) = Len(pty.in) - 1
    BY <2>1, HeadTailProperties DEF Text
  <2>3. Append(cmd.got, Head(pty.in)) \in Text /\ Len(pty.in) \in Nat
    BY <2>1, <2>2, AppendProperties, LenProperties DEF Text
  <2>4. /\ cmd' \in [at : {"none", "sem", "run", "ended"}, got : Text, wrote : Text]
        /\ pty' \in [size : Sizes, in : Text, out : Text, open : SUBSET Holders]
        /\ pty'.in = Tail(pty.in) /\ pty'.out = pty.out
    BY <1>4, <2>2, <2>3 DEF CmdRead, Typed
  <2>5. Len(pty'.in) =< InCap
    BY <1>1, <2>2, <2>3, <2>4 DEF Bounded
  <2> QED
    BY <1>4, <2>4, <2>5 DEF CmdRead, Typed, Bounded
<1>5. CASE CmdWrite
  <2> DEFINE c == Len(cmd.wrote) + 1
  <2>1. pty.out \in Seq(Nat) /\ cmd.wrote \in Seq(Nat)
    BY DEF Typed, Text
  <2>2. c \in Nat /\ Len(pty.out) \in Nat
    BY <2>1, LenProperties
  <2> HIDE DEF c
  <2>3. /\ Append(cmd.wrote, c) \in Text /\ Append(pty.out, c) \in Text
        /\ Len(Append(pty.out, c)) = Len(pty.out) + 1
    BY <2>1, <2>2, AppendProperties DEF Text
  <2>4. /\ cmd' = [cmd EXCEPT !.wrote = Append(@, c)]
        /\ pty' = [pty EXCEPT !.out = Append(@, c)]
        /\ Len(pty.out) < OutCap /\ UNCHANGED <<pid1, pend, tty, signals, cut>>
    BY <1>5 DEF CmdWrite, c
  <2>5. /\ cmd' \in [at : {"none", "sem", "run", "ended"}, got : Text, wrote : Text]
        /\ pty' \in [size : Sizes, in : Text, out : Text, open : SUBSET Holders]
        /\ pty'.in = pty.in /\ pty'.out = Append(pty.out, c)
    BY <2>3, <2>4 DEF Typed
  <2>6. Len(pty'.out) =< OutCap
    BY <1>1, <2>2, <2>3, <2>4, <2>5
  <2> QED
    BY <2>4, <2>5, <2>6 DEF Typed, Bounded
<1> QED
  BY <1>2, <1>3, <1>4, <1>5

\* The other steps of PID 1, of its handlers and of the rest.
LEMMA OtherTyped ==
    ASSUME Typed, Bounded,
           \/ ForkPty \/ InstallHandler \/ SetRaw \/ Select \/ SelectFails \/ WriteFails
           \/ Again \/ ExitInit \/ Sigwinch \/ OtherSignal \/ Resize \/ Orphan \/ Hangup
           \/ OpenPty \/ ClosePty \/ CmdEnd
    PROVE  Typed' /\ Bounded'
<1>1. <<>> \in Text /\ Len(<<>>) = 0 /\ BufSize \in Nat /\ 0 =< BufSize
  BY EmptySeq, PtyLoopAssumption DEF Text
<1>2. CASE ForkPty \/ InstallHandler
  <2>1. CASE ForkPty
    <3>1. /\ pty' \in [size : Sizes, in : Text, out : Text, open : SUBSET Holders]
          /\ pty'.in = pty.in /\ pty'.out = pty.out
      BY <2>1 DEF ForkPty, Typed, Holders
    <3>2. /\ pid1' \in [at : Where, ready : SUBSET {"tty", "pty"}, chunk : Text,
                        quit : BOOLEAN, moved : BOOLEAN]
          /\ pid1'.chunk = <<>>
      BY <1>1, <2>1 DEF ForkPty, Goto, Typed, Bounded, Where
    <3>3. cmd' \in [at : {"none", "sem", "run", "ended"}, got : Text, wrote : Text]
      BY <2>1 DEF ForkPty, Typed
    <3>4. UNCHANGED <<pend, tty, signals, cut>>
      BY <2>1 DEF ForkPty
    <3> QED
      BY <1>1, <3>1, <3>2, <3>3, <3>4 DEF Typed, Bounded
  <2>2. CASE InstallHandler
    BY <2>2 DEF InstallHandler, Goto, Typed, Bounded, Where
  <2> QED
    BY <1>2, <2>1, <2>2
<1>3. CASE SetRaw \/ SelectFails \/ ExitInit
  <2>1. /\ pid1' = [pid1 EXCEPT !.at = pid1'.at] /\ pid1'.at \in Where
        /\ pid1.at \notin {"writePty", "writeTty"}
    BY <1>3 DEF SetRaw, SelectFails, ExitInit, EndAll, Goto, Typed, Where
  <2>2. tty' = tty \/ \E m \in {"cooked", "raw"} : tty' = [tty EXCEPT !.mode = m]
    BY <1>3 DEF SetRaw, SelectFails, ExitInit, RestoredTty
  <2>3. pty' = pty \/ pty' = [pty EXCEPT !.open = {}]
    BY <1>3 DEF SetRaw, SelectFails, ExitInit, EndAll
  <2>4. \E at \in {"run", "ended"} : cmd' = [cmd EXCEPT !.at = at]
    BY <1>3 DEF SetRaw, SelectFails, ExitInit, EndAll
  <2>5. UNCHANGED <<pend, signals>> /\ cut' \in BOOLEAN
    BY <1>3 DEF SetRaw, SelectFails, ExitInit, Typed
  <2>6. /\ pid1' \in [at : Where, ready : SUBSET {"tty", "pty"}, chunk : Text,
                      quit : BOOLEAN, moved : BOOLEAN]
        /\ pid1'.chunk = <<>>
    BY <1>1, <2>1 DEF Typed, Bounded
  <2>7. /\ tty' \in [mode : {"cooked", "raw"}, size : Sizes, hungup : BOOLEAN, keys : Nat,
                     typed : Text, queued : Text, shown : Text]
        /\ tty'.queued = tty.queued
    BY <2>2 DEF Typed
  <2>8. /\ pty' \in [size : Sizes, in : Text, out : Text, open : SUBSET Holders]
        /\ pty'.in = pty.in /\ pty'.out = pty.out
    BY <2>3 DEF Typed
  <2>9. cmd' \in [at : {"none", "sem", "run", "ended"}, got : Text, wrote : Text]
    BY <2>4 DEF Typed
  <2> QED
    BY <1>1, <2>5, <2>6, <2>7, <2>8, <2>9 DEF Typed, Bounded
<1>5. CASE Select
  BY <1>5 DEF Select, Typed, Bounded, Where
<1>6. CASE WriteFails
  BY <1>1, <1>6 DEF WriteFails, Typed, Bounded, Where
<1>7. CASE Again
  <2>1. /\ pid1' \in [at : Where, ready : SUBSET {"tty", "pty"}, chunk : Text,
                      quit : BOOLEAN, moved : BOOLEAN]
        /\ pid1'.chunk = pid1.chunk /\ pid1.chunk = <<>>
    BY <1>7 DEF Again, Goto, Typed, Bounded, Where
  <2>2. /\ tty' \in [mode : {"cooked", "raw"}, size : Sizes, hungup : BOOLEAN, keys : Nat,
                     typed : Text, queued : Text, shown : Text]
        /\ tty'.queued = tty.queued
    BY <1>7 DEF Again, RestoredTty, Typed
  <2> QED
    BY <1>1, <1>7, <2>1, <2>2 DEF Again, Typed, Bounded
<1>8. CASE Sigwinch \/ OtherSignal
  <2>1. \/ UNCHANGED pid1
        \/ \E b \in BOOLEAN : pid1' = [pid1 EXCEPT !.chunk = <<>>, !.quit = b]
    BY <1>8 DEF Sigwinch, OtherSignal, Handled, Typed
  <2>2. /\ \/ UNCHANGED pty
           \/ \E z \in Sizes : pty' = [pty EXCEPT !.size = z]
        /\ pend' \subseteq pend /\ UNCHANGED <<tty, cmd, signals>>
    BY <1>8 DEF Sigwinch, OtherSignal, Handled
  <2>3. cut' \in BOOLEAN
    BY Zenon, <1>8 DEF Sigwinch, OtherSignal, Handled, Typed
  <2>4. /\ pid1' \in [at : Where, ready : SUBSET {"tty", "pty"}, chunk : Text,
                      quit : BOOLEAN, moved : BOOLEAN]
        /\ pid1'.at = pid1.at /\ pid1'.chunk \in {pid1.chunk, <<>>}
    BY <1>1, <2>1 DEF Typed
  <2>5. /\ pty' \in [size : Sizes, in : Text, out : Text, open : SUBSET Holders]
        /\ pty'.in = pty.in /\ pty'.out = pty.out
    BY <2>2 DEF Typed
  <2> QED
    BY <1>1, <2>2, <2>3, <2>4, <2>5 DEF Typed, Bounded
<1>9. CASE Resize
  BY <1>9 DEF Resize, Typed, Bounded
<1>10. CASE Orphan \/ OpenPty \/ ClosePty \/ CmdEnd
  BY <1>10 DEF Orphan, OpenPty, ClosePty, CmdEnd, Typed, Bounded
<1>11. CASE Hangup
  BY <1>1, <1>11 DEF Hangup, Typed, Bounded
<1> QED
  BY <1>2, <1>3, <1>5, <1>6, <1>7, <1>8, <1>9, <1>10, <1>11

LEMMA TypedNext == Typed /\ Bounded /\ [Next]_vars => Typed' /\ Bounded'
<1>1. Typed /\ Bounded /\ UNCHANGED vars => Typed' /\ Bounded'
  BY DEF vars, Typed, Bounded
<1> QED
  BY <1>1, ReadTyped, WriteTyped, QueueTyped, OtherTyped DEF Next, Copy, Signal

LEMMA TypedAlways == Spec => [](Typed /\ Bounded)
<1> QED
  BY TypedInit, TypedNext, PTL DEF Spec

\* At most one buffer is on its way, no queue overflows and PID 1 is always at one of its
\* system calls, whatever is typed, written and signalled (child.cc:325-366).
THEOREM LoopTyped == Spec => []TypeOK
<1>1. Typed /\ Bounded => TypeOK
  BY DEF Typed, Bounded, TypeOK
<1> QED
  BY <1>1, TypedAlways, PTL

-----------------------------------------------------------------------------
(* The settings of the terminal *)

\* Whatever ends the loop, an end of input, an error or a signal, the user's terminal has
\* its settings back when the loop is left (child.cc:345, 367).
THEOREM TerminalRestored == Spec => []SettingsRestored
<1>1. Init => SettingsRestored
  BY DEF Init, SettingsRestored
<1>2. ASSUME Typed, Bounded, SettingsRestored, [Next]_vars
      PROVE  SettingsRestored'
  <2>1. CASE Copy
    <3>1. CASE ForkPty \/ InstallHandler \/ SetRaw \/ Select \/ ExitInit
      BY <1>2, <3>1 DEF ForkPty, InstallHandler, SetRaw, Select, ExitInit, EndAll, Goto,
         Typed, SettingsRestored
    <3>2. CASE ReadTty \/ WritePty \/ ReadPty
      <4>1. pid1'.at \in {"writePty", "readPty", "writeTty", "again"}
        BY <1>2, <3>2, ReadTtyStep, ReadPtyStep DEF WritePty, Writes, Typed
      <4> QED
        BY <4>1 DEF SettingsRestored
    <3>3. CASE WriteTty \/ WriteFails
      <4>1. pid1'.at \in {"writeTty", "again"}
        <5>1. CASE WriteTty
          BY <5>1 DEF WriteTty, Writes, Typed
        <5>2. CASE WriteFails
          BY <5>2 DEF WriteFails, Typed
        <5> QED
          BY <3>3, <5>1, <5>2
      <4> QED
        BY <4>1 DEF SettingsRestored
    <3>4. CASE Again
      BY <1>2, <3>4 DEF Again, RestoredTty, Goto, Typed, SettingsRestored
    <3> QED
      BY <2>1, <3>1, <3>2, <3>3, <3>4 DEF Copy
  <2>2. CASE Signal
    BY <1>2, <2>2 DEF Signal, Sigwinch, OtherSignal, Handled, Typed, SettingsRestored
  <2>3. CASE SelectFails
    BY <2>3 DEF SelectFails, RestoredTty, Typed, SettingsRestored
  <2>4. CASE \/ Type \/ Show \/ Resize \/ Orphan \/ Hangup \/ CmdRead \/ CmdWrite
             \/ OpenPty \/ ClosePty \/ CmdEnd \/ UNCHANGED vars
    BY <1>2, <2>4 DEF Type, Show, Resize, Orphan, Hangup, CmdRead, CmdWrite, OpenPty,
       ClosePty, CmdEnd, vars, Typed, SettingsRestored
  <2> QED
    BY <1>2, <2>1, <2>2, <2>3, <2>4 DEF Next
<1> QED
  BY <1>1, <1>2, TypedAlways, PTL DEF Spec

-----------------------------------------------------------------------------
(* Input and output *)

OutRow == tty.shown \o tty.queued \o Chunk("writeTty") \o pty.out
InRow == cmd.got \o pty.in \o Chunk("writePty") \o tty.typed

Listening == (pid1.at = "start" \/ pty.open # {}) /\ ~tty.hungup

\* What was typed and written is somewhere on its way, in order.
Flows ==
    ~cut =>
        /\ OutRow = cmd.wrote
        /\ Listening => InRow = Numbers(tty.keys)

\* A pty that select found ready still is, and the loop is left only with nothing to copy.
QuitInv ==
    /\ pid1.at \in {"readTty", "writePty", "readPty"} /\ "pty" \in pid1.ready => PtyReady
    /\ pid1.at \in {"wait", "ended"} /\ ~tty.hungup => pid1.quit \/ cut
    /\ ~cut /\ ~tty.hungup /\ pid1.quit =>
          pid1.at \in {"again", "wait", "ended"} /\ pty.open = {} /\ pty.out = <<>>

LEMMA QuitNext ==
    ASSUME Typed, Bounded, QuitInv, [Next]_vars
    PROVE  QuitInv'
<1>1. CASE ForkPty \/ InstallHandler \/ SetRaw \/ ExitInit
  BY <1>1 DEF ForkPty, InstallHandler, SetRaw, ExitInit, EndAll, Goto, Typed, QuitInv
<1>2. CASE Select
  BY <1>2 DEF Select, PtyReady, Typed, QuitInv
<1>3. CASE ReadTty
  BY <1>3, ReadTtyStep DEF Typed, QuitInv, PtyReady
<1>4. CASE WritePty
  <2>1. /\ pid1.at = "writePty" /\ pid1'.at = "writePty" /\ pid1'.quit = pid1.quit
        /\ pid1'.ready = pid1.ready
        /\ pty'.out = pty.out /\ pty'.open = pty.open /\ UNCHANGED <<tty, cut>>
    BY <1>4 DEF WritePty, Writes, Typed
  <2> QED
    BY <2>1 DEF QuitInv, PtyReady
<1>5. CASE ReadPty
  <2>1. pid1'.at \in {"writeTty", "again"} /\ UNCHANGED <<tty, cmd, cut>>
    BY <1>5, ReadPtyStep
  <2>2. ~cut /\ ~tty.hungup => ~pid1.quit
    BY <1>5, ReadPtyStep DEF QuitInv
  <2>3. \/ pid1'.quit => pid1.quit
        \/ /\ pid1'.at = "again" /\ UNCHANGED pty
           /\ "pty" \in pid1.ready /\ pty.out = <<>>
    BY <1>5, ReadPtyStep
  <2>4. "pty" \in pid1.ready /\ pty.out = <<>> => pty.open = {}
    BY <1>5, ReadPtyStep DEF QuitInv, PtyReady
  <2> QED
    BY <2>1, <2>2, <2>3, <2>4 DEF QuitInv
<1>6. CASE WriteTty \/ WriteFails
  <2>1. CASE WriteTty
    <3>1. /\ pid1'.at = pid1.at /\ pid1.at = "writeTty" /\ pid1'.quit = pid1.quit
          /\ tty'.hungup = tty.hungup /\ UNCHANGED <<pty, cmd, cut>>
      BY <2>1 DEF WriteTty, Writes, Typed
    <3> QED
      BY <3>1 DEF QuitInv
  <2>2. CASE WriteFails
    <3>1. pid1'.at = "again" /\ cut'
      BY <2>2 DEF WriteFails, Typed
    <3> QED
      BY <3>1 DEF QuitInv
  <2> QED
    BY <1>6, <2>1, <2>2
<1>7. CASE Again
  BY <1>7 DEF Again, RestoredTty, Goto, Typed, QuitInv
<1>8. CASE Sigwinch \/ OtherSignal
  <2>1. /\ pid1'.at = pid1.at /\ pid1'.ready = pid1.ready /\ UNCHANGED tty
        /\ cut' \/ (UNCHANGED <<pid1, cut>>)
    BY <1>8 DEF Sigwinch, OtherSignal, Handled, Typed
  <2>2. pty'.out = pty.out /\ pty'.open = pty.open
    BY <1>8 DEF Sigwinch, OtherSignal, Typed
  <2> QED
    BY <2>1, <2>2 DEF QuitInv, PtyReady
<1>9. CASE Type \/ Show \/ Resize \/ Orphan \/ Hangup \/ UNCHANGED vars
  BY <1>9 DEF Type, Show, Resize, Orphan, Hangup, vars, Typed, QuitInv, PtyReady
<1>10. CASE CmdRead
  BY <1>10 DEF CmdRead, Typed, QuitInv, PtyReady
<1>11. CASE OpenPty \/ ClosePty \/ CmdEnd
  <2>1. /\ UNCHANGED <<pid1, tty, cut>> /\ pty'.out = pty.out
        /\ pty.open = {} => pty'.open = {}
    BY <1>11 DEF OpenPty, ClosePty, CmdEnd, InUse, Typed
  <2> QED
    BY <2>1 DEF QuitInv, PtyReady
<1>12. CASE SelectFails
  <2>1. pid1'.at = "ended" /\ cut'
    BY <1>12 DEF SelectFails, EndAll, Goto, Typed
  <2> QED
    BY <2>1 DEF QuitInv
<1>13. CASE CmdWrite
  <2>1. Append(pty.out, Len(cmd.wrote) + 1) # <<>>
    <3>1. pty.out \in Seq(Nat) /\ cmd.wrote \in Seq(Nat)
      BY DEF Typed, Text
    <3>2. Len(cmd.wrote) + 1 \in Nat
      BY <3>1, LenProperties
    <3> DEFINE c == Len(cmd.wrote) + 1
    <3> HIDE DEF c
    <3>3. Len(Append(pty.out, c)) = Len(pty.out) + 1 /\ Len(pty.out) \in Nat
      BY <3>1, <3>2, AppendProperties, LenProperties DEF c
    <3>4. Append(pty.out, c) # <<>>
      BY <3>3, EmptySeq
    <3> QED
      BY <3>4 DEF c
  <2> QED
    BY <1>13, <2>1 DEF CmdWrite, InUse, Typed, QuitInv, PtyReady
<1> QED
  BY <1>1, <1>2, <1>3, <1>4, <1>5, <1>6, <1>7, <1>8, <1>9, <1>10, <1>11, <1>12, <1>13
  DEF Next, Copy, Signal

LEMMA Joined ==
    ASSUME NEW a \in Seq(Nat), NEW b \in Seq(Nat), NEW c \in Seq(Nat)
    PROVE  a \o b \in Seq(Nat) /\ a \o b \o c \in Seq(Nat)
  BY ConcatProperties

\* The pieces of the two rows, and where the chunk is.
LEMMA Pieces ==
    ASSUME Typed, Bounded
    PROVE  /\ {tty.shown, tty.queued, tty.typed, pty.in, pty.out, cmd.got, cmd.wrote,
               pid1.chunk, Chunk("writeTty"), Chunk("writePty")} \subseteq Seq(Nat)
           /\ tty.keys \in Nat
           /\ pid1.at = "writeTty" => Chunk("writeTty") = pid1.chunk /\ Chunk("writePty") = <<>>
           /\ pid1.at = "writePty" => Chunk("writePty") = pid1.chunk /\ Chunk("writeTty") = <<>>
           /\ pid1.at \notin {"writePty", "writeTty"} =>
                 Chunk("writePty") = <<>> /\ Chunk("writeTty") = <<>>
<1>1. <<>> \in Seq(Nat)
  BY EmptySeq
<1>2. /\ {tty.shown, tty.queued, tty.typed, pty.in, pty.out, cmd.got, cmd.wrote,
          pid1.chunk} \subseteq Seq(Nat)
      /\ tty.keys \in Nat
  BY DEF Typed, Text
<1> QED
  BY <1>1, <1>2 DEF Chunk

\* A step that leaves the rows alone, or drops input nobody will take.
Still ==
    /\ cut' = cut /\ cmd'.wrote = cmd.wrote
    /\ tty'.shown = tty.shown /\ tty'.queued = tty.queued /\ pty'.out = pty.out
    /\ Chunk("writeTty")' = Chunk("writeTty")
    /\ Listening' =>
          /\ Listening /\ cmd'.got = cmd.got /\ pty'.in = pty.in
          /\ Chunk("writePty")' = Chunk("writePty")
          /\ tty'.typed = tty.typed /\ tty'.keys = tty.keys

LEMMA StillFlows ==
    ASSUME Flows, cut' \/ Still
    PROVE  Flows'
  BY DEF Flows, Still, OutRow, InRow, Listening

LEMMA QuietFlows ==
    ASSUME Typed, Bounded, Flows,
           \/ ForkPty \/ InstallHandler \/ SetRaw \/ Select \/ SelectFails \/ WriteFails
           \/ Again \/ ExitInit \/ Sigwinch \/ OtherSignal \/ Resize \/ Orphan \/ Hangup
           \/ OpenPty \/ ClosePty \/ CmdEnd
           \/ UNCHANGED vars
    PROVE  Flows'
<1>1. CASE ForkPty \/ InstallHandler
  <2>1. /\ pid1.at \in {"start", "forked"} /\ pid1'.at \in {"forked", "handler"}
        /\ cmd'.wrote = cmd.wrote /\ cmd'.got = cmd.got
        /\ pty'.in = pty.in /\ pty'.out = pty.out /\ UNCHANGED <<tty, cut>>
    BY <1>1 DEF ForkPty, InstallHandler, Goto, Typed
  <2>2. Chunk("writeTty")' = Chunk("writeTty") /\ Chunk("writePty")' = Chunk("writePty")
    BY <2>1 DEF Chunk
  <2>3. Listening' => Listening
    BY <1>1, <2>1 DEF ForkPty, InstallHandler, Listening
  <2> QED
    BY <2>1, <2>2, <2>3, StillFlows DEF Still
<1>2. CASE SetRaw \/ ExitInit
  <2>1. /\ pid1.at \in {"handler", "wait"} /\ pid1'.at \in {"ended", "select"}
        /\ pty'.in = pty.in /\ pty'.out = pty.out /\ cut' = cut
        /\ cmd'.wrote = cmd.wrote /\ cmd'.got = cmd.got
    BY <1>2 DEF SetRaw, ExitInit, EndAll, Goto, Typed
  <2>2. /\ tty'.shown = tty.shown /\ tty'.queued = tty.queued /\ tty'.hungup = tty.hungup
        /\ tty'.typed = tty.typed /\ tty'.keys = tty.keys
    BY <1>2 DEF SetRaw, ExitInit, Typed
  <2>3. Chunk("writeTty")' = Chunk("writeTty") /\ Chunk("writePty")' = Chunk("writePty")
    BY <2>1 DEF Chunk
  <2>4. pty'.open = pty.open \/ pty'.open = {}
    BY <1>2 DEF SetRaw, ExitInit, EndAll, Typed
  <2> QED
    BY <2>1, <2>2, <2>3, <2>4, StillFlows DEF Still, Listening
<1>3. CASE Select
  BY <1>3, StillFlows DEF Select, Typed, Still, Listening, Chunk
<1>4. CASE SelectFails \/ WriteFails
  BY <1>4, StillFlows DEF SelectFails, WriteFails
<1>5. CASE Again
  <2>1. pid1.chunk = <<>> /\ pid1'.chunk = pid1.chunk
    BY <1>5 DEF Again, Goto, Typed, Bounded
  <2>2. /\ tty'.shown = tty.shown /\ tty'.queued = tty.queued /\ tty'.hungup = tty.hungup
        /\ tty'.typed = tty.typed /\ tty'.keys = tty.keys
    BY <1>5 DEF Again, RestoredTty, Typed
  <2>3. UNCHANGED <<pty, cmd, cut>> /\ pid1'.at # "start"
    BY <1>5 DEF Again, Goto, Typed
  <2> QED
    BY <2>1, <2>2, <2>3, StillFlows DEF Still, Listening, Chunk
<1>6. CASE Sigwinch \/ OtherSignal
  <2>1. cut' \/ (UNCHANGED <<pid1, cut>>)
    BY <1>6 DEF Sigwinch, OtherSignal, Handled, Typed
  <2>2. /\ UNCHANGED <<tty, cmd>>
        /\ pty'.in = pty.in /\ pty'.out = pty.out /\ pty'.open = pty.open
    BY <1>6 DEF Sigwinch, OtherSignal, Handled, Typed
  <2> QED
    BY <2>1, <2>2, StillFlows DEF Still, Listening, Chunk
<1>7. CASE Resize \/ Orphan \/ Hangup \/ UNCHANGED vars
  BY <1>7, StillFlows DEF Resize, Orphan, Hangup, vars, Typed, Still, Listening, Chunk
<1>8. CASE OpenPty \/ ClosePty \/ CmdEnd
  <2>1. /\ UNCHANGED <<pid1, tty, cut>> /\ pty'.in = pty.in /\ pty'.out = pty.out
        /\ cmd'.wrote = cmd.wrote /\ cmd'.got = cmd.got
        /\ pty'.open # {} => pty.open # {}
    BY <1>8 DEF OpenPty, ClosePty, CmdEnd, InUse, Typed
  <2> QED
    BY <2>1, StillFlows DEF Still, Listening, Chunk
<1> QED
  BY <1>1, <1>2, <1>3, <1>4, <1>5, <1>6, <1>7, <1>8

LEMMA ReadFlows ==
    ASSUME Typed, Bounded, Flows, ReadTty \/ ReadPty
    PROVE  Flows'
<1>1. BufSize \in Nat
  BY PtyLoopAssumption
<1>2. CASE ReadTty
  <2>1. pid1.at = "readTty" /\ pid1.chunk = <<>> /\ UNCHANGED <<pty, cmd, cut>>
    BY <1>2 DEF ReadTty, Bounded
  <2>2. CASE pid1'.at = "readPty"
    <3>1. pid1'.chunk = <<>> /\ UNCHANGED tty
      BY <1>2, <2>1, <2>2, ReadTtyStep
    <3> QED
      BY <2>1, <2>2, <3>1, StillFlows DEF Still, Listening, Chunk
  <2>3. CASE pid1'.at = "writePty"
    <3> DEFINE a == cmd.got \o pty.in
               l == Input(tty.typed)
               r == Remains(tty.typed)
    <3>1. pid1'.chunk = l /\ tty' = [tty EXCEPT !.typed = r]
      BY <1>2, <2>3, ReadTtyStep
    <3>2. a \in Seq(Nat)
      BY Pieces, Joined
    <3>3. l \in Seq(Nat) /\ r \in Seq(Nat) /\ l \o r = tty.typed
      BY <1>1, Pieces, ReadSplits
    <3> HIDE DEF l, r
    <3>4. a \o l \o r = a \o <<>> \o tty.typed
      <4> HIDE DEF a
      <4>1. a \o l \o r = a \o <<>> \o (l \o r)
        BY <3>2, <3>3, TakeChunk
      <4> QED
        BY <3>3, <4>1
    <3>5. /\ tty'.shown = tty.shown /\ tty'.queued = tty.queued /\ tty'.hungup = tty.hungup
          /\ tty'.typed = r /\ tty'.keys = tty.keys
      BY <3>1 DEF Typed
    <3>6. /\ Chunk("writeTty") = <<>> /\ Chunk("writePty") = <<>>
          /\ Chunk("writeTty")' = <<>> /\ Chunk("writePty")' = l
      BY <2>1, <2>3, <3>1 DEF Chunk
    <3>7. OutRow' = OutRow
      BY <2>1, <3>5, <3>6 DEF OutRow
    <3>8. InRow' = InRow
      BY <2>1, <3>4, <3>5, <3>6 DEF InRow
    <3> QED
      BY <2>1, <2>3, <3>5, <3>7, <3>8 DEF Flows, Listening
  <2> QED
    BY <1>2, <2>2, <2>3, ReadTtyStep
<1>3. CASE ReadPty
  <2>1. pid1.chunk = <<>> /\ UNCHANGED <<tty, cmd, cut>>
    BY <1>3, ReadPtyStep
  <2>2. CASE pid1'.at = "again"
    <3>1. pid1'.chunk = <<>> /\ UNCHANGED pty
      BY <1>3, <2>2, ReadPtyStep
    <3> QED
      BY <2>1, <2>2, <3>1, StillFlows DEF Still, Listening, Chunk
  <2>3. CASE pid1'.at = "writeTty"
    <3> DEFINE a == tty.shown \o tty.queued
               l == Input(pty.out)
               r == Remains(pty.out)
    <3>1. pid1'.chunk = l /\ pty' = [pty EXCEPT !.out = r]
      BY <1>3, <2>3, ReadPtyStep
    <3>2. a \in Seq(Nat)
      BY Pieces, Joined
    <3>3. l \in Seq(Nat) /\ r \in Seq(Nat) /\ l \o r = pty.out
      BY <1>1, Pieces, ReadSplits
    <3> HIDE DEF l, r
    <3>4. a \o l \o r = a \o <<>> \o pty.out
      <4> HIDE DEF a
      <4>1. a \o l \o r = a \o <<>> \o (l \o r)
        BY <3>2, <3>3, TakeChunk
      <4> QED
        BY <3>3, <4>1
    <3>5. pty'.in = pty.in /\ pty'.out = r /\ pty'.open = pty.open
      BY <3>1 DEF Typed
    <3>6. /\ Chunk("writeTty") = <<>> /\ Chunk("writePty") = <<>>
          /\ Chunk("writeTty")' = l /\ Chunk("writePty")' = <<>>
      BY <2>1, <2>3, <3>1 DEF Chunk
    <3>7. OutRow' = OutRow
      BY <2>1, <3>4, <3>5, <3>6 DEF OutRow
    <3>8. InRow' = InRow
      BY <2>1, <3>5, <3>6 DEF InRow
    <3> QED
      BY <2>1, <2>3, <3>5, <3>7, <3>8 DEF Flows, Listening
  <2> QED
    BY <1>3, <2>2, <2>3, ReadPtyStep
<1> QED
  BY <1>2, <1>3

LEMMA WriteFlows ==
    ASSUME Typed, Bounded, Flows, WritePty \/ WriteTty
    PROVE  Flows'
<1>1. InCap \in Nat /\ TtyCap \in Nat
  BY PtyLoopAssumption
<1>2. CASE WritePty
  <2> DEFINE l == SubSeq(pid1.chunk, 1, Written(InRoom))
             r == SubSeq(pid1.chunk, Written(InRoom) + 1, Len(pid1.chunk))
             q == Append1(pty.in, InRoom)
  <2>1. pty.in \in Seq(Nat) /\ Len(pty.in) =< InCap /\ cmd.got \in Seq(Nat)
    BY Pieces DEF Bounded
  <2>2. l \in Seq(Nat) /\ r \in Seq(Nat) /\ l \o r = pid1.chunk /\ q = pty.in \o l
    BY <1>1, <2>1, WriteSplits DEF InRoom
  <2>3. /\ pid1' = [pid1 EXCEPT !.chunk = r, !.moved = TRUE] /\ pid1.at = "writePty"
        /\ pty' = [pty EXCEPT !.in = q] /\ UNCHANGED <<tty, cmd, cut>>
    BY <1>2 DEF WritePty, Writes
  <2> HIDE DEF l, r, q
  <2>4. /\ Chunk("writePty") = pid1.chunk /\ Chunk("writePty")' = r
        /\ Chunk("writeTty") = <<>> /\ Chunk("writeTty")' = <<>>
    BY <2>3 DEF Chunk, Typed
  <2>5. /\ pty'.in = q /\ pty'.out = pty.out /\ pty'.open = pty.open
        /\ pid1'.at = "writePty"
    BY <2>3 DEF Typed
  <2>6. cmd.got \o q \o r = cmd.got \o pty.in \o pid1.chunk
    <3> DEFINE a == cmd.got
               b == pty.in
    <3>1. a \in Seq(Nat) /\ b \in Seq(Nat) /\ l \in Seq(Nat) /\ r \in Seq(Nat)
      BY <2>1, <2>2
    <3> HIDE DEF a, b
    <3>2. Cat(Cat(a, Cat(b, l)), r) = Cat(Cat(a, b), Cat(l, r))
      BY <3>1, MoveChunk
    <3> QED
      BY <2>2, <3>2 DEF a, b, Cat
  <2>7. InRow' = InRow
    BY <2>3, <2>4, <2>5, <2>6 DEF InRow
  <2>8. OutRow' = OutRow
    BY <2>3, <2>4, <2>5 DEF OutRow
  <2> QED
    BY <2>3, <2>5, <2>7, <2>8 DEF Flows, Listening
<1>3. CASE WriteTty
  <2> DEFINE l == SubSeq(pid1.chunk, 1, Written(TtyRoom))
             r == SubSeq(pid1.chunk, Written(TtyRoom) + 1, Len(pid1.chunk))
             q == Append1(tty.queued, TtyRoom)
  <2>1. tty.queued \in Seq(Nat) /\ Len(tty.queued) =< TtyCap /\ tty.shown \in Seq(Nat)
    BY Pieces DEF Bounded
  <2>2. l \in Seq(Nat) /\ r \in Seq(Nat) /\ l \o r = pid1.chunk /\ q = tty.queued \o l
    BY <1>1, <2>1, WriteSplits DEF TtyRoom
  <2>3. /\ pid1' = [pid1 EXCEPT !.chunk = r, !.moved = TRUE] /\ pid1.at = "writeTty"
        /\ tty' = [tty EXCEPT !.queued = q] /\ UNCHANGED <<pty, cmd, cut>>
    BY <1>3 DEF WriteTty, Writes
  <2> HIDE DEF l, r, q
  <2>4. /\ Chunk("writeTty") = pid1.chunk /\ Chunk("writeTty")' = r
        /\ Chunk("writePty") = <<>> /\ Chunk("writePty")' = <<>>
    BY <2>3 DEF Chunk, Typed
  <2>5. /\ tty'.queued = q /\ tty'.shown = tty.shown /\ tty'.hungup = tty.hungup
        /\ tty'.typed = tty.typed /\ tty'.keys = tty.keys /\ pid1'.at = "writeTty"
    BY <2>3 DEF Typed
  <2>6. tty.shown \o q \o r = tty.shown \o tty.queued \o pid1.chunk
    <3> DEFINE a == tty.shown
               b == tty.queued
    <3>1. a \in Seq(Nat) /\ b \in Seq(Nat) /\ l \in Seq(Nat) /\ r \in Seq(Nat)
      BY <2>1, <2>2
    <3> HIDE DEF a, b
    <3>2. Cat(Cat(a, Cat(b, l)), r) = Cat(Cat(a, b), Cat(l, r))
      BY <3>1, MoveChunk
    <3> QED
      BY <2>2, <3>2 DEF a, b, Cat
  <2>7. OutRow' = OutRow
    BY <2>3, <2>4, <2>5, <2>6 DEF OutRow
  <2>8. InRow' = InRow
    BY <2>3, <2>4, <2>5 DEF InRow
  <2> QED
    BY <2>3, <2>5, <2>7, <2>8 DEF Flows, Listening
<1> QED
  BY <1>2, <1>3

LEMMA QueueFlows ==
    ASSUME Typed, Bounded, Flows, Type \/ Show \/ CmdRead \/ CmdWrite
    PROVE  Flows'
<1>1. CASE Type
  <2> DEFINE a == cmd.got \o pty.in \o Chunk("writePty")
             k == tty.keys
  <2>1. a \in Seq(Nat) /\ tty.typed \in Seq(Nat) /\ k \in Nat /\ k + 1 \in Nat
    BY Pieces, Joined
  <2>2. /\ tty' = [tty EXCEPT !.keys = k + 1, !.typed = Append(tty.typed, k + 1)]
        /\ UNCHANGED <<pid1, pty, cmd, cut>>
    BY <1>1 DEF Type
  <2> HIDE DEF k
  <2>3. /\ tty'.shown = tty.shown /\ tty'.queued = tty.queued /\ tty'.hungup = tty.hungup
        /\ tty'.typed = Append(tty.typed, k + 1) /\ tty'.keys = k + 1
    BY <2>2 DEF Typed
  <2>4. OutRow' = OutRow
    BY <2>2, <2>3 DEF OutRow, Chunk
  <2>5. InRow' = a \o Append(tty.typed, k + 1) /\ InRow = a \o tty.typed
    BY <2>2, <2>3 DEF InRow, Chunk
  <2> HIDE DEF a
  <2>6. InRow' = Append(InRow, k + 1)
    BY <2>1, <2>5, AddLast
  <2>7. Append(Numbers(k), k + 1) = Numbers(k + 1)
    BY <2>1, CountOn
  <2>8. ~cut /\ Listening => InRow = Numbers(k)
    BY DEF Flows, k
  <2> QED
    BY <2>2, <2>3, <2>4, <2>6, <2>7, <2>8 DEF Flows, Listening
<1>2. CASE Show
  <2>1. tty.queued \in Seq(Nat) /\ tty.shown \in Seq(Nat) /\ tty.queued # <<>>
    BY <1>2, Pieces DEF Show
  <2>2. Append(tty.shown, Head(tty.queued)) \o Tail(tty.queued) = tty.shown \o tty.queued
    BY <2>1, MoveHead
  <2>3. /\ tty' = [tty EXCEPT !.queued = Tail(tty.queued),
                              !.shown = Append(tty.shown, Head(tty.queued))]
        /\ UNCHANGED <<pid1, pty, cmd, cut>>
    BY <1>2 DEF Show
  <2>4. /\ tty'.shown = Append(tty.shown, Head(tty.queued)) /\ tty'.queued = Tail(tty.queued)
        /\ tty'.hungup = tty.hungup /\ tty'.typed = tty.typed /\ tty'.keys = tty.keys
    BY <2>3 DEF Typed
  <2>5. OutRow' = OutRow
    BY <2>2, <2>3, <2>4 DEF OutRow, Chunk
  <2>6. InRow' = InRow
    BY <2>3, <2>4 DEF InRow, Chunk
  <2> QED
    BY <2>3, <2>4, <2>5, <2>6 DEF Flows, Listening
<1>3. CASE CmdRead
  <2>1. pty.in \in Seq(Nat) /\ cmd.got \in Seq(Nat) /\ pty.in # <<>>
    BY <1>3, Pieces DEF CmdRead
  <2>2. Append(cmd.got, Head(pty.in)) \o Tail(pty.in) = cmd.got \o pty.in
    BY <2>1, MoveHead
  <2>3. /\ cmd' = [cmd EXCEPT !.got = Append(cmd.got, Head(pty.in))]
        /\ pty' = [pty EXCEPT !.in = Tail(pty.in)]
        /\ UNCHANGED <<pid1, tty, cut>>
    BY <1>3 DEF CmdRead
  <2>4. /\ cmd'.got = Append(cmd.got, Head(pty.in)) /\ cmd'.wrote = cmd.wrote
        /\ pty'.in = Tail(pty.in) /\ pty'.out = pty.out /\ pty'.open = pty.open
    BY <2>3 DEF Typed
  <2>5. InRow' = InRow
    BY <2>2, <2>3, <2>4 DEF InRow, Chunk
  <2>6. OutRow' = OutRow
    BY <2>3, <2>4 DEF OutRow, Chunk
  <2> QED
    BY <2>3, <2>4, <2>5, <2>6 DEF Flows, Listening
<1>4. CASE CmdWrite
  <2> DEFINE a == tty.shown \o tty.queued \o Chunk("writeTty")
             c == Len(cmd.wrote) + 1
  <2>1. a \in Seq(Nat) /\ pty.out \in Seq(Nat) /\ cmd.wrote \in Seq(Nat)
    BY Pieces, Joined
  <2>2. c \in Nat
    BY <2>1, LenProperties
  <2>3. /\ cmd' = [cmd EXCEPT !.wrote = Append(cmd.wrote, c)]
        /\ pty' = [pty EXCEPT !.out = Append(pty.out, c)]
        /\ UNCHANGED <<pid1, tty, cut>>
    BY <1>4 DEF CmdWrite
  <2> HIDE DEF c
  <2>4. /\ cmd'.got = cmd.got /\ cmd'.wrote = Append(cmd.wrote, c)
        /\ pty'.in = pty.in /\ pty'.out = Append(pty.out, c) /\ pty'.open = pty.open
    BY <2>3 DEF Typed
  <2>5. InRow' = InRow
    BY <2>3, <2>4 DEF InRow, Chunk
  <2>6. OutRow' = a \o Append(pty.out, c) /\ OutRow = a \o pty.out
    BY <2>3, <2>4 DEF OutRow, Chunk
  <2> HIDE DEF a
  <2>7. OutRow' = Append(OutRow, c)
    BY <2>1, <2>2, <2>6, AddLast
  <2> QED
    BY <2>3, <2>4, <2>5, <2>7 DEF Flows, Listening
<1> QED
  BY <1>1, <1>2, <1>3, <1>4

LoopIInv == Typed /\ Bounded /\ Flows /\ QuitInv

LEMMA LoopInit == Init => LoopIInv
<1> SUFFICES ASSUME Init
             PROVE  LoopIInv
  OBVIOUS
<1>1. Typed /\ Bounded
  BY TypedInit
<1>2. /\ pid1.at = "start" /\ pid1.quit = FALSE /\ pid1.ready = {} /\ cmd.wrote = <<>>
      /\ tty.keys = 0 /\ OutRow = <<>> \o <<>> \o <<>> \o <<>>
      /\ InRow = <<>> \o <<>> \o <<>> \o <<>>
  BY DEF Init, OutRow, InRow, Chunk
<1>3. <<>> \in Seq(Nat)
  BY EmptySeq
<1>4. <<>> \o <<>> = <<>>
  BY <1>3, ConcatEmptySeq
<1>5. Numbers(0) = <<>>
  BY DEF Numbers
<1>6. Flows
  BY <1>2, <1>4, <1>5 DEF Flows
<1>7. QuitInv
  BY <1>2 DEF QuitInv, Init
<1> QED
  BY <1>1, <1>6, <1>7 DEF LoopIInv

\* As long as no write is cut short, nothing that was typed or written is lost, doubled or
\* reordered, for buffers and queues of every size, and a loop that the terminal's end does
\* not end is left only when nobody has the pty open and all that was written to it is
\* taken; that may be while a command runs that has redirected everything
\* (child.cc:325-366).
THEOREM InputOutputKept == Spec => []NothingLost
<1>1. LoopIInv /\ [Next]_vars => LoopIInv'
  <2> SUFFICES ASSUME Typed, Bounded, Flows, QuitInv, [Next]_vars
               PROVE  LoopIInv'
    BY DEF LoopIInv
  <2>1. Typed' /\ Bounded'
    BY TypedNext
  <2>2. Flows'
    BY QuietFlows, ReadFlows, WriteFlows, QueueFlows DEF Next, Copy, Signal
  <2>3. QuitInv'
    BY QuitNext
  <2> QED
    BY <2>1, <2>2, <2>3 DEF LoopIInv
<1>2. LoopIInv => NothingLost
  <2> SUFFICES ASSUME LoopIInv, ~cut
               PROVE  NothingLost
    BY DEF NothingLost
  <2>1. OutRow = cmd.wrote
    BY DEF LoopIInv, Flows
  <2>2. pty.open # {} /\ ~tty.hungup => InRow = Numbers(tty.keys)
    BY DEF LoopIInv, Flows, Listening
  <2>3. pid1.at \in {"wait", "ended"} /\ ~tty.hungup => pty.open = {} /\ pty.out = <<>>
    BY DEF LoopIInv, QuitInv
  <2> QED
    BY Zenon, <2>1, <2>2, <2>3 DEF NothingLost, OutRow, InRow
<1> QED
  BY <1>1, <1>2, LoopInit, PTL DEF Spec

=============================================================================
