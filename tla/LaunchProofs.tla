---------------------------- MODULE LaunchProofs ----------------------------
(***************************************************************************)
(* Proofs about starting, signalling and ending a container, for every     *)
(* choice of options, faults, exit statuses and number of SIGTERMs.        *)
(***************************************************************************)
EXTENDS LaunchProps, SequenceTheorems, TLAPS

-----------------------------------------------------------------------------
(* The inductive invariant, by topic *)

InWait(p) == pc[p] \in {"wait", "waiting"}

\* main has not gone on to the file system or to the start of the child.
Early ==
    \/ pc["main"] \in {"start", "readU", "maps", "gidmap", "mapped", "killchild", "setchild", "run"}
    \/ InWait("main") /\ cont["main"] \in {"gidmap", "mapped"}

\* The values of the variables, apart from what is in the pipes.
ProcsTyped ==
    /\ life \in [Proc -> {"none", "run", "zombie", "gone"}]
    /\ pc \in [Proc -> Labels]
    /\ status \in [Proc -> 0 .. 255]
    /\ pend \in [Proc -> SUBSET {"TERM", "CHLD"}]
    /\ chld \in [Proc -> Proc]

WaitsTyped ==
    /\ relay \in [Proc -> (SUBSET (Proc \cup {Group})) \cup {Default}]
    /\ waitFor \in [Proc -> Proc]
    /\ cont \in [Proc -> Labels]
    /\ res \in [Proc -> 0 .. 255]

FactsTyped ==
    /\ withFuse \in WithFuse /\ useSub \in UseSub
    /\ childPid \in BOOLEAN /\ chrooted \in BOOLEAN
    /\ maps \in 0 .. 2
    /\ exitcode \in 0 .. 255
    /\ newroot \in {"none", "there", "mounted"}
    /\ terms \in 0 .. MaxTerm

\* Where each process can be, and which of them there are.
Control ==
    /\ pc["main"] \in {"start", "readU", "maps", "gidmap", "mapped", "killchild", "setchild", "run",
                       "readC", "preclean", "rmdir", "final", "exit", "done", "wait", "waiting"}
    /\ pc["mid"] \in {"start", "unshare", "waitI", "mount", "fork", "startwait", "wait", "waiting",
                      "exit"}
    /\ pc["fuse"] \in {"start", "setup", "init", "loop", "teardown", "cleanup"}
    /\ pc["helper"] \in {"start", "exec"}
    /\ pc["pid1"] \in {"start", "setup", "fork", "relay", "wait", "waiting", "exit"}
    /\ pc["cmd"] \in {"start", "sem", "exec"}
    /\ pc["main"] = "start" <=> pc["mid"] = "start"
    /\ pc["mid"] = "start" => life["mid"] = "none"
    /\ pc["mid"] \in {"start", "unshare", "waitI", "mount", "fork"} => life["pid1"] = "none"
    /\ life["pid1"] = "none" \/ pc["pid1"] \in {"setup", "fork"} => life["cmd"] = "none"
    /\ life["pid1"] = "none" => pc["pid1"] = "start"
    /\ life["cmd"] = "run" => life["pid1"] = "run"

\* Who waits for whom, and where the handlers of SIGTERM forward it.
Waits ==
    /\ InWait("main") =>
         <<waitFor["main"], cont["main"]>> \in
            {<<"helper", "gidmap">>, <<"helper", "mapped">>, <<"helper", "rmdir">>,
             <<"mid", "exit">>, <<"fuse", "done">>}
    /\ InWait("main") /\ cont["main"] = "done" => withFuse
    /\ InWait("mid") => waitFor["mid"] = "pid1" /\ cont["mid"] = "exit"
    /\ InWait("pid1") => waitFor["pid1"] = "cmd" /\ cont["pid1"] = "exit"
    /\ relay["mid"] = IF pc["mid"] \in {"wait", "waiting", "exit"} THEN {"pid1"} ELSE Default
    /\ relay["pid1"] = IF pc["pid1"] \in {"wait", "waiting", "exit"} THEN {"cmd"} ELSE Default
    /\ \A p \in {"fuse", "helper", "cmd"} : relay[p] = Default /\ ~InWait(p)
    /\ Runs("helper") => InWait("main") /\ waitFor["main"] = "helper"

\* Nothing goes to the child, and it stays where it is, until main has set it up.
Order ==
    /\ Early => /\ life["fuse"] = "none" /\ newroot = "none"
                /\ tochild = <<>>
                /\ pc["mid"] \in {"start", "unshare", "waitI"}
    /\ life["fuse"] # "none" \/ pc["fuse"] # "start" => withFuse
    /\ Runs("fuse") => pc["fuse"] # "start"
    /\ pc["fuse"] \in {"setup", "init"} => tochild = <<>>

\* Until the child has its own namespaces main waits for it, and nothing but its end interrupts that.
Unshares ==
    /\ pc["main"] \in {"start", "readU"} => relay["main"] = Default
    /\ pc["main"] = "start" => "CHLD" \notin pend["main"]
    /\ pc["main"] = "readU" /\ "CHLD" \in pend["main"] => ~Runs("mid")
    /\ Runs("mid") /\ pc["mid"] = "unshare" => pc["main"] = "readU"

\* What is in the pipes.
Pipes ==
    /\ tochild \in {<<>>, <<"I">>}
    /\ toparent \in {<<>>, <<"U">>, <<"C">>, <<"U", "C">>}
    /\ pc["mid"] \in {"start", "unshare"} => toparent = <<>>
    /\ pc["mid"] \in {"waitI", "mount"} => toparent \in {<<>>, <<"U">>}
    /\ pc["main"] \notin {"start", "readU"} => toparent \in {<<>>, <<"C">>}
    /\ toparent \in {<<"C">>, <<"U", "C">>} => chrooted

\* How many maps the kernel can have.
MapCount ==
    /\ pc["main"] \in {"start", "readU", "maps"} => maps = 0
    /\ pc["main"] = "gidmap" => maps =< 1
    /\ InWait("main") /\ cont["main"] = "gidmap" => maps =< 1
    /\ InWait("main") /\ cont["main"] = "gidmap" /\ Runs("helper") => maps = 0
    /\ InWait("main") /\ cont["main"] = "mapped" /\ Runs("helper") => maps =< 1

IInv == ProcsTyped /\ WaitsTyped /\ FactsTyped /\ Control /\ Waits /\ Order /\ Unshares /\ Pipes /\ MapCount

-----------------------------------------------------------------------------
(* What follows from it, and from less than every fault *)

\* newuidmap and newgidmap succeed for a child that runs.
HelpersSucceed == UseSub = {FALSE} \/ ("helper" \notin Faults /\ MaxTerm = 0)

MapInv ==
    /\ MaxTerm = 0 => "TERM" \notin pend["main"] \cup pend["helper"]
    /\ pc["main"] \in {"gidmap", "mapped"} => useSub
    /\ InWait("main") /\ cont["main"] \in {"gidmap", "mapped"} => useSub
    /\ Runs("mid") =>
        /\ pc["main"] = "gidmap" => maps = 1
        /\ InWait("main") /\ cont["main"] = "gidmap" /\ ~Runs("helper") => maps = 1
        /\ InWait("main") /\ cont["main"] = "mapped" => maps = IF Runs("helper") THEN 1 ELSE 2
        /\ pc["main"] \in {"mapped", "setchild", "run"} => maps = 2
        /\ ~Early => maps = 2

\* The file system process sets itself up.
FuseSetsUp == "fuse" \notin Faults

\* No signal can interrupt main while it waits for the chroot, except the end of the child.
Undisturbed == FuseSetsUp /\ (UseSub = {FALSE} \/ MaxTerm = 0)

\* main waits for the end of the container, or has done so.
Late ==
    \/ pc["main"] \in {"preclean", "rmdir", "final", "exit", "done"}
    \/ InWait("main") /\ cont["main"] \in {"rmdir", "exit", "done"}

ChrootInv ==
    /\ MaxTerm = 0 => "TERM" \notin pend["main"]
    /\ useSub \/ relay["main"] = Default \/ Late
    /\ pc["main"] \in {"gidmap", "mapped"} => useSub
    /\ InWait("main") /\ cont["main"] \in {"gidmap", "mapped"} => useSub
    /\ pc["main"] \in {"readU", "readC"} /\ "CHLD" \in pend["main"] => ~Runs("mid")
    /\ ~Late => "TERM" \notin pend["fuse"] /\ pc["fuse"] \notin {"teardown", "cleanup"}
    /\ life["fuse"] \in {"zombie", "gone"} => Late
    /\ Late => chrooted \/ ~Runs("mid")

TempdirInv ==
    /\ ~Runs("fuse") => newroot = "none"
    /\ Runs("fuse") /\ pc["fuse"] = "cleanup" => newroot # "mounted"

\* A status that wait_for_pid has returned and that is not zero is that of a child that has ended.
StatusInv ==
    /\ pc["main"] = "exit" /\ res["main"] # 0 => res["main"] = status["mid"] /\ ~Runs("mid")
    /\ (pc["main"] = "done" \/ (InWait("main") /\ cont["main"] = "done")) /\ exitcode # 0
         => exitcode = status["mid"] /\ ~Runs("mid")
    /\ pc["mid"] = "exit" /\ res["mid"] # 0 => res["mid"] = status["pid1"] /\ ~Runs("pid1")
    /\ pc["mid"] = "exit" /\ ~Runs("mid") => status["mid"] = res["mid"]
    /\ pc["pid1"] = "exit" /\ res["pid1"] # 0 => res["pid1"] = status["cmd"] /\ ~Runs("cmd")
    /\ pc["pid1"] = "exit" /\ ~Runs("pid1") => status["pid1"] = res["pid1"]

-----------------------------------------------------------------------------
(* What the kernel's part of a step does to the types *)

LEMMA ForkTyped ==
    ASSUME ProcsTyped, NEW p \in Proc, NEW l \in Labels, NEW child \in Proc, NEW start \in Labels,
           Fork(p, l, child, start)
    PROVE  ProcsTyped'
<1>1. life' \in [Proc -> {"none", "run", "zombie", "gone"}]
  BY DEF ProcsTyped, Fork
<1>2. pc' \in [Proc -> Labels]
  <2>1. [pc EXCEPT ![p] = l] \in [Proc -> Labels]
    BY DEF ProcsTyped
  <2>2. pc' = [[pc EXCEPT ![p] = l] EXCEPT ![child] = start]
    BY DEF Fork
  <2>. QED BY <2>1, <2>2
<1>3. pend' \in [Proc -> SUBSET {"TERM", "CHLD"}]
  BY DEF ProcsTyped, Fork
<1>. QED BY <1>1, <1>2, <1>3 DEF ProcsTyped, Fork

LEMMA EndsTyped ==
    ASSUME ProcsTyped, NEW p \in Proc, NEW s \in 0 .. 255, Ends(p, s), UNCHANGED pc
    PROVE  ProcsTyped'
<1>1. parent \in [Proc \ {"main"} -> Proc]
  BY DEF parent, Proc
<1>2. Seen(p) => parent[p] \in Proc
  BY <1>1 DEF Seen
<1>3. life' \in [Proc -> {"none", "run", "zombie", "gone"}]
  BY DEF ProcsTyped, Ends
<1>4. status' \in [Proc -> 0 .. 255]
  BY DEF ProcsTyped, Ends
<1>5. pend' \in [Proc -> SUBSET {"TERM", "CHLD"}]
  BY DEF ProcsTyped, Ends
<1>6. chld' \in [Proc -> Proc]
  BY DEF ProcsTyped, Ends
<1>. QED BY <1>3, <1>4, <1>5, <1>6 DEF ProcsTyped

LEMMA SendTyped ==
    ASSUME ProcsTyped, NEW ts, NEW sig \in {"TERM", "CHLD"}, Send(ts, sig)
    PROVE  pend' \in [Proc -> SUBSET {"TERM", "CHLD"}]
BY DEF ProcsTyped, Send

LEMMA StartWaitTyped ==
    ASSUME WaitsTyped, NEW p \in Proc, NEW q \in Proc, NEW ts \in SUBSET (Proc \cup {Group}),
           NEW l \in Labels, StartWait(p, q, ts, l)
    PROVE  WaitsTyped'
BY DEF WaitsTyped, StartWait

\* The bytes that the pipes can hold.
LEMMA Bytes ==
    ASSUME NEW b, NEW c
    PROVE  /\ Append(<<>>, b) = <<b>>
           /\ Append(<<b>>, c) = <<b, c>>
           /\ Tail(<<b>>) = <<>>
           /\ Tail(<<b, c>>) = <<c>>
           /\ Head(<<b>>) = b /\ Head(<<b, c>>) = b
<1>1. Append(<<>>, b) = <<b>>
  OBVIOUS
<1>2. Append(<<b>>, c) = <<b, c>>
  <2>1. <<b>> \in Seq({b, c}) /\ <<b, c>> \in Seq({b, c}) /\ Append(<<b>>, c) \in Seq({b, c})
    OBVIOUS
  <2>2. Len(Append(<<b>>, c)) = 2 /\ Len(<<b, c>>) = 2
    OBVIOUS
  <2>3. \A i \in 1 .. Len(<<b, c>>) : Append(<<b>>, c)[i] = <<b, c>>[i]
    OBVIOUS
  <2>. QED BY <2>1, <2>2, <2>3, SeqEqual
<1>3. Tail(<<b>>) = <<>>
  OBVIOUS
<1>4. Tail(<<b, c>>) = <<c>>
  OBVIOUS
<1>5. Head(<<b>>) = b /\ Head(<<b, c>>) = b
  OBVIOUS
<1>. QED BY <1>1, <1>2, <1>3, <1>4, <1>5

-----------------------------------------------------------------------------
(* Every step keeps the invariant: ends of processes, waiting and signals *)

\* The end of any process, whenever it comes.
LEMMA ExitInv ==
    ASSUME IInv, NEW p \in Proc, NEW s \in 0 .. 255, Runs(p), Exit(p, s), UNCHANGED <<options, terms>>
    PROVE  IInv'
<1>1. ProcsTyped' /\ WaitsTyped' /\ FactsTyped'
  BY EndsTyped DEF IInv, Exit, WaitsTyped, FactsTyped, options, waits, facts
<1>2. /\ \A q \in Proc : Runs(q)' => Runs(q)
      /\ \A q \in Proc : life[q]' = "none" <=> life[q] = "none"
  BY DEF IInv, ProcsTyped, Exit, Ends, Runs, Ended
<1>3. life["cmd"]' = "run" => life["pid1"]' = "run"
  BY DEF IInv, ProcsTyped, Control, Exit, Ends, Runs, Ended, Proc
<1>4. Unshares'
  <2>1. pc["main"] \in {"start", "readU"} => p \notin {"fuse", "helper"}
    BY DEF IInv, Waits, Order, Early, Runs, InWait
  <2>2. p = "mid" => pc["main"] # "start" /\ ~Runs("mid")'
    BY DEF IInv, ProcsTyped, Control, Exit, Ends, Runs, Ended, Proc
  <2>3. "CHLD" \in pend'["main"] => "CHLD" \in pend["main"] \/ p \in {"mid", "fuse", "helper"}
    BY DEF IInv, ProcsTyped, Exit, Ends, Seen, parent, Proc
  <2>. QED BY <1>2, <2>1, <2>2, <2>3 DEF IInv, Unshares, Exit, waits, Proc
<1>5. (Control /\ Waits /\ Order /\ Pipes /\ MapCount)'
  BY <1>2, <1>3 DEF IInv, Control, Waits, Order, Pipes, MapCount, Exit, options, waits, pipes, facts,
       Runs, InWait, Early, Proc
<1>. QED BY <1>1, <1>4, <1>5 DEF IInv

LEMMA ExitsInv ==
    ASSUME IInv, ExitMain \/ ExitMid \/ ExitInit \/ ExitCommand, UNCHANGED options
    PROVE  IInv'
<1>1. \E p \in Proc, s \in 0 .. 255 : Runs(p) /\ Exit(p, s) /\ UNCHANGED terms
  <2>1. exitcode \in 0 .. 255 /\ res["mid"] \in 0 .. 255 /\ res["pid1"] \in 0 .. 255
    BY DEF IInv, WaitsTyped, FactsTyped, Proc
  <2>2. {"main", "mid", "pid1", "cmd"} \subseteq Proc
    BY DEF Proc
  <2>3. CASE ExitMain
    BY <2>1, <2>2, <2>3 DEF ExitMain, At
  <2>4. CASE ExitMid
    BY <2>1, <2>2, <2>4 DEF ExitMid, At
  <2>5. CASE ExitInit
    BY <2>1, <2>2, <2>5 DEF ExitInit, At
  <2>6. CASE ExitCommand
    BY <2>2, <2>6, LaunchAssumption DEF ExitCommand, At
  <2> QED
    BY <2>3, <2>4, <2>5, <2>6
<1>. QED BY <1>1, ExitInv

LEMMA WaitpidInv ==
    ASSUME IInv, NEW p \in Proc, Waitpid(p), UNCHANGED options
    PROVE  IInv'
<1>1. p \in {"main", "mid", "pid1"}
  BY DEF IInv, Waits, InWait, Waitpid, Proc
<1>2. ProcsTyped' /\ WaitsTyped' /\ FactsTyped'
  BY DEF IInv, ProcsTyped, WaitsTyped, FactsTyped, Waitpid, Goto, options, pipes, facts, Labels
<1>3. CASE p = "main"
  <2>1. CASE Runs(waitFor["main"])
    <3>1. pc["main"] = "wait" /\ pc' = [pc EXCEPT !["main"] = "waiting"] /\ UNCHANGED life
      BY <1>3, <2>1 DEF Waitpid, Goto
    <3>. QED
      BY <1>2, <1>3, <3>1 DEF IInv, ProcsTyped, Control, Waits, Order, Unshares, Pipes, MapCount, Waitpid,
           options, pipes, facts, Runs, InWait, Early, Proc
  <2>2. CASE ~Runs(waitFor["main"])
    <3>1. /\ pc["main"] \in {"wait", "waiting"}
          /\ pc' = [pc EXCEPT !["main"] = cont["main"]]
          /\ life' = [life EXCEPT ![waitFor["main"]] = "gone"]
      BY <1>3, <2>2 DEF Waitpid, Goto
    <3>2. cont["main"] \in {"gidmap", "mapped", "rmdir", "exit", "done"}
      BY <3>1 DEF IInv, Waits, InWait
    <3>3. /\ \A q \in Proc : Runs(q)' => Runs(q)
          /\ \A q \in Proc \ {waitFor["main"]} : life'[q] = life[q]
          /\ life'[waitFor["main"]] = "gone"
          /\ UNCHANGED <<relay, waitFor, cont, options, pipes, facts>>
      BY <2>2, <3>1, <1>3 DEF IInv, ProcsTyped, WaitsTyped, Runs, Proc, Waitpid, options
    <3>4. pc'["main"] = cont["main"] /\ \A q \in Proc \ {"main"} : pc'[q] = pc[q]
      BY <3>1 DEF IInv, ProcsTyped, Proc
    <3>5. Control'
      BY <3>1, <3>2, <3>3, <3>4 DEF IInv, Control, Waits, Runs, InWait, Proc
    <3>6. Waits'
      BY <2>2, <3>1, <3>2, <3>3, <3>4 DEF IInv, Waits, Runs, InWait, Proc, options
    <3>7. Order'
      BY <3>1, <3>2, <3>3, <3>4 DEF IInv, Waits, Order, Early, Runs, InWait, Proc, options, pipes, facts
    <3>8. Unshares' /\ Pipes' /\ MapCount'
      BY <1>3, <2>2, <3>1, <3>2, <3>3, <3>4 DEF IInv, Unshares, Pipes, MapCount, InWait, Proc,
           pipes, facts
    <3>. QED BY <1>2, <3>5, <3>6, <3>7, <3>8 DEF IInv
  <2>. QED BY <2>1, <2>2
<1>4. CASE p = "mid"
  BY <1>2, <1>4 DEF IInv, ProcsTyped, WaitsTyped, Control, Waits, Order, Unshares, Pipes, MapCount, Waitpid, Goto,
       options, pipes, facts, Runs, InWait, Early, Proc
<1>5. CASE p = "pid1"
  BY <1>2, <1>5 DEF IInv, ProcsTyped, WaitsTyped, Control, Waits, Order, Unshares, Pipes, MapCount, Waitpid, Goto,
       options, pipes, facts, Runs, InWait, Early, Proc
<1>. QED BY <1>1, <1>3, <1>4, <1>5

\* A handler that interrupts a call, or not: only the place of p changes.
LEMMA InterruptedInv ==
    ASSUME IInv, NEW p \in {"main", "mid", "pid1"}, Runs(p), Interrupted(p),
           ProcsTyped', \A q \in Proc : Runs(q)' <=> Runs(q),
           \A q \in Proc : life[q]' = "none" <=> life[q] = "none",
           "CHLD" \in pend'["main"] => "CHLD" \in pend["main"],
           p = "main" /\ pc["main"] = "readU" => ~Runs("mid"),
           UNCHANGED <<options, waits, pipes, facts, terms>>
    PROVE  IInv'
<1>1. (WaitsTyped /\ FactsTyped)'
  BY DEF IInv, WaitsTyped, FactsTyped, options, waits, facts
<1>2. CASE UNCHANGED pc
  BY <1>1, <1>2 DEF IInv, Control, Waits, Order, Unshares, Pipes, MapCount, Runs, InWait, Early, Proc,
       options, waits, pipes, facts
<1>3. CASE pc[p] = "waiting" /\ Goto(p, "wait")
  BY <1>1, <1>3 DEF IInv, ProcsTyped, Control, Waits, Order, Unshares, Pipes, MapCount, Runs, InWait, Early, Proc,
       options, waits, pipes, facts, Goto
<1>4. CASE p = "main" /\ pc[p] \in {"readU", "readC"} /\ toparent = <<>> /\ ChildReads /\ Goto(p, AfterRead(p))
  BY <1>1, <1>4 DEF IInv, ProcsTyped, Control, Waits, Order, Unshares, Pipes, MapCount, Runs, InWait, Early, Proc,
       options, waits, pipes, facts, Goto, AfterRead
<1>. QED BY <1>2, <1>3, <1>4 DEF Interrupted, IInv, Control

LEMMA SigchldInv ==
    ASSUME IInv, NEW p \in Proc, Sigchld(p), UNCHANGED options
    PROVE  IInv'
<1>1. p \in {"main", "mid", "pid1"} /\ Runs(p) /\ Interrupted(p)
  BY DEF Sigchld
<1>2. /\ \A q \in Proc : Runs(q)' <=> Runs(q)
      /\ \A q \in Proc : life[q]' = "none" <=> life[q] = "none"
  BY DEF IInv, ProcsTyped, Sigchld, Runs
<1>3. pc' \in [Proc -> Labels]
  BY <1>1 DEF IInv, ProcsTyped, Interrupted, Goto, AfterRead, Labels
<1>4. ProcsTyped'
  BY <1>3 DEF IInv, ProcsTyped, Sigchld
<1>5. /\ "CHLD" \in pend'["main"] => "CHLD" \in pend["main"]
      /\ (p = "main" /\ pc["main"] = "readU" => ~Runs("mid"))
  BY DEF IInv, ProcsTyped, Unshares, Sigchld
<1>. QED BY <1>1, <1>2, <1>4, <1>5, InterruptedInv DEF Sigchld

LEMMA SigchldInitInv ==
    ASSUME IInv, SigchldInit, UNCHANGED options
    PROVE  IInv'
<1>1. pc' \in [Proc -> Labels]
  BY DEF IInv, ProcsTyped, SigchldInit, Interrupted, Goto, AfterRead, Labels
<1>2. ProcsTyped'
  BY <1>1 DEF IInv, ProcsTyped, SigchldInit
<1>3. "CHLD" \in pend'["main"] => "CHLD" \in pend["main"]
  BY DEF IInv, ProcsTyped, SigchldInit
<1>. QED BY <1>2, <1>3, InterruptedInv DEF SigchldInit, Runs

\* What a SIGTERM does, process by process.
LEMMA SigtermCases ==
    ASSUME IInv, NEW p \in Proc, Sigterm(p)
    PROVE  /\ Runs(p) /\ "TERM" \in pend[p] /\ UNCHANGED terms
           /\ \/ /\ p = "fuse" /\ pc[p] # "setup"
                 /\ Goto(p, IF pc[p] = "cleanup" THEN "cleanup" ELSE "teardown")
                 /\ pend' = [q \in Proc |-> IF q = p THEN pend[q] \ {"TERM"}
                                ELSE pend[q] \cup IF q \in Targets({"mid"}) THEN {"TERM"} ELSE {}]
                 /\ UNCHANGED <<life, status, chld, waits, pipes, facts>>
              \/ /\ p \in {"main", "mid", "pid1"} /\ relay[p] # Default
                 /\ Interrupted(p)
                 /\ pend' = [q \in Proc |-> (IF q = p THEN pend[q] \ {"TERM"} ELSE pend[q])
                                \cup IF q \in Targets(relay[p]) THEN {"TERM"} ELSE {}]
                 /\ UNCHANGED <<life, status, chld, waits, pipes, facts>>
              \/ /\ p \in {"main", "mid", "helper", "cmd"} /\ relay[p] = Default
                 /\ Exit(p, 128 + 15)
              \/ /\ p = "pid1" /\ relay[p] = Default
                 /\ pend' = [pend EXCEPT ![p] = @ \ {"TERM"}]
                 /\ UNCHANGED <<life, pc, status, chld, waits, pipes, facts>>
<1>1. Runs(p) /\ "TERM" \in pend[p] /\ UNCHANGED terms
  BY DEF Sigterm
<1>2. CASE p = "fuse"
  BY <1>1, <1>2 DEF IInv, Waits, Sigterm
<1>3. CASE p # "fuse" /\ relay[p] # Default
  <2>1. p \in {"main", "mid", "pid1"}
    BY <1>3 DEF IInv, Waits, Proc
  <2>. QED BY <1>1, <1>3, <2>1 DEF Sigterm
<1>4. CASE p \notin {"fuse", "pid1"} /\ relay[p] = Default
  BY <1>1, <1>4 DEF Sigterm, Proc
<1>5. CASE p = "pid1" /\ relay[p] = Default
  BY <1>1, <1>5 DEF Sigterm
<1>. QED BY <1>2, <1>3, <1>4, <1>5

LEMMA SigtermInv ==
    ASSUME IInv, NEW p \in Proc, Sigterm(p), UNCHANGED options
    PROVE  IInv'
<1>1. CASE /\ p = "fuse" /\ pc[p] # "setup"
           /\ Goto(p, IF pc[p] = "cleanup" THEN "cleanup" ELSE "teardown")
           /\ pend' = [q \in Proc |-> IF q = p THEN pend[q] \ {"TERM"}
                          ELSE pend[q] \cup IF q \in Targets({"mid"}) THEN {"TERM"} ELSE {}]
           /\ UNCHANGED <<life, status, chld, waits, pipes, facts>>
  <2>1. Runs(p) /\ UNCHANGED terms
    BY SigtermCases
  <2>2. ProcsTyped' /\ WaitsTyped' /\ FactsTyped'
    BY <1>1, <2>1 DEF IInv, ProcsTyped, WaitsTyped, FactsTyped, Goto, Labels, options, waits, facts
  <2>. QED
    BY <1>1, <2>1, <2>2 DEF IInv, ProcsTyped, Control, Waits, Order, Unshares, Pipes, MapCount, Runs, InWait,
         Early, Proc, options, waits, pipes, facts, Goto
<1>2. CASE /\ p \in {"main", "mid", "pid1"} /\ relay[p] # Default
           /\ Interrupted(p)
           /\ pend' = [q \in Proc |-> (IF q = p THEN pend[q] \ {"TERM"} ELSE pend[q])
                          \cup IF q \in Targets(relay[p]) THEN {"TERM"} ELSE {}]
           /\ UNCHANGED <<life, status, chld, waits, pipes, facts>>
  <2>1. Runs(p) /\ UNCHANGED terms
    BY SigtermCases
  <2>2. pc' \in [Proc -> Labels]
    BY <1>2 DEF IInv, ProcsTyped, Interrupted, Goto, AfterRead, Labels
  <2>3. ProcsTyped'
    BY <1>2, <2>2 DEF IInv, ProcsTyped
  <2>4. /\ "CHLD" \in pend'["main"] => "CHLD" \in pend["main"]
        /\ p = "main" => pc["main"] # "readU"
    BY <1>2 DEF IInv, ProcsTyped, Unshares, Proc
  <2>. QED BY <1>2, <2>1, <2>3, <2>4, InterruptedInv DEF Runs
<1>3. CASE Exit(p, 128 + 15)
  <2>1. Runs(p) /\ UNCHANGED terms
    BY SigtermCases
  <2>. QED BY <1>3, <2>1, ExitInv
<1>4. CASE /\ p = "pid1"
           /\ pend' = [pend EXCEPT ![p] = @ \ {"TERM"}]
           /\ UNCHANGED <<life, pc, status, chld, waits, pipes, facts>>
  <2>1. UNCHANGED terms
    BY SigtermCases
  <2>. QED
    BY <1>4, <2>1 DEF IInv, ProcsTyped, WaitsTyped, FactsTyped, Control, Waits, Order, Unshares, Pipes,
         MapCount, Runs, InWait, Early, Proc, options, waits, pipes, facts
<1>. QED BY <1>1, <1>2, <1>3, <1>4, SigtermCases

LEMMA SendTermInv ==
    ASSUME IInv, SendTerm, UNCHANGED options
    PROVE  IInv'
<1>1. ProcsTyped'
  BY SendTyped DEF Proc, Group, options, waits, pipes, facts, Runs, SendTerm, IInv, ProcsTyped,
         Labels
<1>2. WaitsTyped'
  BY DEF SendTerm, waits, IInv, WaitsTyped
<1>3. FactsTyped'
  BY LaunchAssumption DEF Proc, Group, options, waits, pipes, facts, Runs, Targets, SendTerm,
         IInv, FactsTyped
<1>4. (Control /\ Waits /\ Order /\ Unshares /\ Pipes /\ MapCount)'
  BY Bytes DEF Proc, options, waits, pipes, facts, Runs, Send, SendTerm, InWait, Early, Waits,
       Control, Order, Unshares, Pipes, MapCount, IInv
<1>. QED BY <1>1, <1>2, <1>3, <1>4 DEF IInv

-----------------------------------------------------------------------------
(* main *)

LEMMA ForkChildInv ==
    ASSUME IInv, ForkChild, UNCHANGED options
    PROVE  IInv'
<1>1. ProcsTyped'
  BY ForkTyped DEF ForkChild, IInv, Proc, Labels
<1>2. WaitsTyped'
  BY DEF ForkChild, waits, IInv, WaitsTyped
<1>3. FactsTyped'
  BY LaunchAssumption DEF facts, ForkChild, options, IInv, FactsTyped
<1>4. (Control /\ Waits /\ Order /\ Unshares /\ Pipes /\ MapCount)'
  BY Bytes DEF waits, pipes, facts, Runs, At, Fork, ForkChild, Proc, Group, Default, Labels,
         InWait, Early, ProcsTyped, Waits, WaitsTyped, FactsTyped, Control, Order, Unshares,
         Pipes, MapCount, IInv, options
<1>. QED BY <1>1, <1>2, <1>3, <1>4 DEF IInv

LEMMA WaitChildInv ==
    ASSUME IInv, WaitChild, UNCHANGED options
    PROVE  IInv'
<1>1. pc["main"] \in {"readU", "readC"} /\ Runs("main")
  BY DEF WaitChild, At
<1>2. /\ toparent = <<>> => UNCHANGED toparent
      /\ toparent \in {<<"U">>, <<"C">>} => toparent' = <<>>
      /\ toparent = <<"U", "C">> => toparent' = <<"C">>
  <2>1. toparent # <<>> => toparent' = Tail(toparent)
    BY DEF WaitChild
  <2>2. toparent = <<>> => UNCHANGED toparent
    BY DEF WaitChild
  <2>3. toparent = <<"U">> => toparent' = <<>>
    BY <2>1, Bytes
  <2>4. toparent = <<"C">> => toparent' = <<>>
    BY <2>1, Bytes
  <2>5. toparent = <<"U", "C">> => toparent' = <<"C">>
    <3>1. Tail(<<"U", "C">>) = <<"C">> /\ <<"U", "C">> # <<>>
      BY Bytes
    <3>. QED BY <2>1, <3>1
  <2>. QED BY <2>2, <2>3, <2>4, <2>5
<1>3. \E l \in {"maps", "killchild", "preclean", "final"} :
          /\ Goto("main", l)
          /\ l = "maps" \/ l = "killchild" <=> pc["main"] = "readU"
          /\ l = "preclean" => withFuse
  BY <1>1 DEF WaitChild, AfterRead
<1>4. pc["main"] = "readU" => toparent \in {<<>>, <<"U">>}
  BY DEF IInv, Order, Pipes, Early
<1>5. ProcsTyped' /\ WaitsTyped' /\ FactsTyped'
  <2>1. pc' \in [Proc -> Labels]
    BY <1>3 DEF IInv, ProcsTyped, Goto, Labels
  <2>. QED
    BY <2>1 DEF IInv, ProcsTyped, WaitsTyped, FactsTyped, WaitChild, procs, waits, facts, options
<1>6. Control' /\ Waits' /\ Order' /\ MapCount'
  BY <1>1, <1>3 DEF IInv, ProcsTyped, Control, Waits, Order, MapCount, WaitChild, Goto, Runs, InWait, Early,
       Proc, procs, waits, facts, options
<1>7. Unshares'
  BY <1>1, <1>3 DEF IInv, ProcsTyped, Unshares, Pipes, WaitChild, At, ChildReads, Goto, Runs, Proc,
       procs, waits
<1>8. Pipes'
  BY <1>1, <1>2, <1>3, <1>4 DEF IInv, ProcsTyped, Pipes, WaitChild, Goto, Proc, procs, waits, facts, options
<1>. QED BY <1>5, <1>6, <1>7, <1>8 DEF IInv

LEMMA MapSingleInv ==
    ASSUME IInv, MapSingle, UNCHANGED options
    PROVE  IInv'
<1>1. ProcsTyped'
  BY DEF procs, waits, pipes, Runs, At, Goto, MapSingle, IInv, ProcsTyped, Proc, Labels
<1>2. WaitsTyped'
  BY DEF MapSingle, waits, IInv, WaitsTyped
<1>3. FactsTyped'
  BY LaunchAssumption DEF procs, waits, pipes, Runs, At, Goto, MapSingle, options, IInv,
         FactsTyped
<1>4. (Control /\ Waits /\ Order /\ Unshares /\ Pipes /\ MapCount)'
  BY Bytes DEF procs, waits, pipes, Runs, At, Goto, MapSingle, Proc, InWait, Early, ProcsTyped,
       Waits, Control, Order, Unshares, Pipes, MapCount, IInv, options
<1>. QED BY <1>1, <1>2, <1>3, <1>4 DEF IInv

LEMMA MapSubInv ==
    ASSUME IInv, MapSub, UNCHANGED options
    PROVE  IInv'
<1>1. ProcsTyped'
  BY ForkTyped DEF MapSub, IInv, Proc, Labels
<1>2. WaitsTyped'
  BY StartWaitTyped DEF MapSub, IInv, Proc, Labels, Group
<1>3. FactsTyped'
  BY LaunchAssumption DEF pipes, facts, Runs, At, MapSub, options, IInv, FactsTyped
<1>4. (Control /\ Waits /\ Order /\ Unshares /\ Pipes /\ MapCount)'
  BY Bytes DEF pipes, facts, Runs, At, Fork, StartWait, MapSub, Proc, Group, Default, Labels,
         InWait, Early, ProcsTyped, Waits, WaitsTyped, FactsTyped, Control, Order, Unshares,
         Pipes, MapCount, IInv, options
<1>. QED BY <1>1, <1>2, <1>3, <1>4 DEF IInv

LEMMA MappedInv ==
    ASSUME IInv, Mapped, UNCHANGED options
    PROVE  IInv'
<1>1. ProcsTyped'
  BY DEF procs, waits, pipes, facts, Runs, At, Goto, Mapped, IInv, ProcsTyped, Proc, Labels
<1>2. WaitsTyped'
  BY DEF Mapped, waits, IInv, WaitsTyped
<1>3. FactsTyped'
  BY LaunchAssumption DEF procs, waits, pipes, facts, Runs, At, Goto, Mapped, options, IInv,
         FactsTyped
<1>4. (Control /\ Waits /\ Order /\ Unshares /\ Pipes /\ MapCount)'
  BY Bytes DEF procs, waits, pipes, facts, Runs, At, Goto, Mapped, Proc, Group, Default, Labels,
         InWait, Early, ProcsTyped, Waits, WaitsTyped, FactsTyped, Control, Order, Unshares,
         Pipes, MapCount, IInv, options
<1>. QED BY <1>1, <1>2, <1>3, <1>4 DEF IInv

LEMMA KillChildInv ==
    ASSUME IInv, KillChild, UNCHANGED options
    PROVE  IInv'
<1>1. ProcsTyped'
  BY DEF procs, waits, pipes, facts, Runs, At, KillChild, IInv, ProcsTyped, Proc, Labels
<1>2. WaitsTyped'
  BY DEF KillChild, waits, IInv, WaitsTyped
<1>3. FactsTyped'
  BY LaunchAssumption DEF procs, waits, pipes, facts, Runs, At, KillChild, options, IInv,
         FactsTyped
<1>4. (Control /\ Waits /\ Order /\ Unshares /\ Pipes /\ MapCount)'
  BY Bytes DEF procs, waits, pipes, facts, Runs, At, KillChild, Proc, Group, Default, Labels,
         InWait, Early, ProcsTyped, Waits, WaitsTyped, FactsTyped, Control, Order, Unshares,
         Pipes, MapCount, IInv, options
<1>. QED BY <1>1, <1>2, <1>3, <1>4 DEF IInv

LEMMA SetChildInv ==
    ASSUME IInv, SetChild, UNCHANGED options
    PROVE  IInv'
<1>1. ProcsTyped'
  BY DEF procs, waits, pipes, Runs, At, Goto, SetChild, IInv, ProcsTyped, Proc, Labels
<1>2. WaitsTyped'
  BY DEF SetChild, waits, IInv, WaitsTyped
<1>3. FactsTyped'
  BY LaunchAssumption DEF procs, waits, pipes, Runs, At, Goto, SetChild, options, IInv, FactsTyped
<1>4. (Control /\ Waits /\ Order /\ Unshares /\ Pipes /\ MapCount)'
  BY Bytes DEF procs, waits, pipes, Runs, At, Goto, SetChild, InWait, Early, Waits, Control,
       Order, Unshares, Pipes, MapCount, IInv, options
<1>. QED BY <1>1, <1>2, <1>3, <1>4 DEF IInv

LEMMA RunFuseInv ==
    ASSUME IInv, RunFuse, UNCHANGED options
    PROVE  IInv'
<1>1. ProcsTyped'
  BY ForkTyped DEF RunFuse, IInv, Proc, Labels
<1>2. WaitsTyped'
  BY DEF RunFuse, waits, IInv, WaitsTyped
<1>3. FactsTyped'
  BY LaunchAssumption DEF waits, pipes, Runs, At, RunFuse, options, IInv, FactsTyped
<1>4. (Control /\ Waits /\ Order /\ Unshares /\ Pipes /\ MapCount)'
  BY Bytes DEF waits, pipes, Runs, At, Fork, RunFuse, Proc, Group, Default, Labels, InWait, Early,
         ProcsTyped, Waits, WaitsTyped, FactsTyped, Control, Order, Unshares, Pipes, MapCount,
         IInv, options
<1>. QED BY <1>1, <1>2, <1>3, <1>4 DEF IInv

LEMMA RunChildInv ==
    ASSUME IInv, RunChild, UNCHANGED options
    PROVE  IInv'
<1>1. CASE ~ChildReads
  BY <1>1, ExitInv DEF RunChild, At, Proc
<1>2. CASE ChildReads
  <2>1. /\ At("main", "run") /\ ~withFuse
        /\ tochild' = Append(tochild, "I") /\ Goto("main", "readC")
        /\ UNCHANGED <<procs, waits, toparent, facts, terms>>
    BY <1>2 DEF RunChild
  <2>a. tochild' = <<"I">>
    BY <2>1, Bytes DEF IInv, Order, Early, At
  <2>2. ProcsTyped' /\ WaitsTyped' /\ FactsTyped'
    BY <2>1 DEF IInv, ProcsTyped, WaitsTyped, FactsTyped, Goto, Labels, procs, waits, facts, options
  <2>3. Control' /\ Waits' /\ Order' /\ Unshares' /\ Pipes' /\ MapCount'
    BY <2>1, <2>a DEF IInv, ProcsTyped, Control, Waits, Order, Unshares, Pipes, MapCount, Goto, At, Runs, InWait,
         Early, Proc, procs, waits, facts, options
  <2>. QED BY <2>2, <2>3 DEF IInv
<1>. QED BY <1>1, <1>2

LEMMA PrecleanInv ==
    ASSUME IInv, Preclean, UNCHANGED options
    PROVE  IInv'
<1>1. ProcsTyped'
  BY ForkTyped DEF Preclean, IInv, Proc, Labels
<1>2. WaitsTyped'
  BY StartWaitTyped DEF Preclean, IInv, Proc, Labels, Group
<1>3. FactsTyped'
  BY LaunchAssumption DEF facts, Preclean, options, IInv, FactsTyped
<1>4. (Control /\ Waits /\ Order /\ Unshares /\ Pipes /\ MapCount)'
  BY Bytes DEF pipes, facts, Runs, At, Fork, StartWait, Preclean, Proc, Group, Default, Labels,
         InWait, Early, ProcsTyped, Waits, WaitsTyped, FactsTyped, Control, Order, Unshares,
         Pipes, MapCount, IInv, options
<1>. QED BY <1>1, <1>2, <1>3, <1>4 DEF IInv

LEMMA RmdirInv ==
    ASSUME IInv, Rmdir, UNCHANGED options
    PROVE  IInv'
<1>1. ProcsTyped'
  BY DEF procs, waits, pipes, Runs, At, Goto, RemoveNewroot, Rmdir, IInv, ProcsTyped, Proc,
         Labels
<1>2. WaitsTyped'
  BY DEF Rmdir, waits, IInv, WaitsTyped
<1>3. FactsTyped'
  BY LaunchAssumption DEF procs, waits, pipes, Runs, At, Goto, RemoveNewroot, Rmdir, options,
         IInv, FactsTyped
<1>4. (Control /\ Waits /\ Order /\ Unshares /\ Pipes /\ MapCount)'
  BY Bytes DEF procs, waits, pipes, Runs, At, Goto, RemoveNewroot, Rmdir, Proc, Group, Default,
         Labels, InWait, Early, ProcsTyped, Waits, WaitsTyped, FactsTyped, Control, Order,
         Unshares, Pipes, MapCount, IInv, options
<1>. QED BY <1>1, <1>2, <1>3, <1>4 DEF IInv

LEMMA WaitContainerInv ==
    ASSUME IInv, WaitContainer, UNCHANGED options
    PROVE  IInv'
<1>1. ProcsTyped'
  BY DEF Group, procs, pipes, facts, Runs, At, Goto, StartWait, WaitContainer, IInv, ProcsTyped,
         Proc, Labels
<1>2. WaitsTyped'
  BY StartWaitTyped DEF WaitContainer, IInv, Proc, Labels, Group
<1>3. FactsTyped'
  BY LaunchAssumption DEF facts, WaitContainer, options, IInv, FactsTyped
<1>4. (Control /\ Waits /\ Order /\ Unshares /\ Pipes /\ MapCount)'
  BY Bytes DEF Group, procs, pipes, facts, Runs, At, Goto, StartWait, WaitContainer, Proc,
         Default, Labels, InWait, Early, ProcsTyped, Waits, WaitsTyped, FactsTyped, Control,
         Order, Unshares, Pipes, MapCount, IInv, options
<1>. QED BY <1>1, <1>2, <1>3, <1>4 DEF IInv

LEMMA EndFuseInv ==
    ASSUME IInv, EndFuse, UNCHANGED options
    PROVE  IInv'
<1>1. At("main", "exit") /\ FactsTyped'
  BY DEF IInv, EndFuse, WaitsTyped, FactsTyped, options, Proc
<1>2. CASE withFuse
  <2>1. /\ Send({"fuse"}, "TERM") /\ StartWait("main", "fuse", {}, "done") /\ Goto("main", "wait")
        /\ UNCHANGED <<life, status, chld>>
    BY <1>2 DEF EndFuse
  <2>2. ProcsTyped' /\ WaitsTyped'
    BY <2>1, SendTyped, StartWaitTyped, ZenonT(60) DEF IInv, ProcsTyped, Goto, Proc, Labels
  <2>3. Control' /\ Waits' /\ Order' /\ Unshares' /\ Pipes' /\ MapCount'
    BY <1>1, <1>2, <2>1 DEF IInv, ProcsTyped, WaitsTyped, Control, Waits, Order, Unshares, Pipes, MapCount, EndFuse,
         Goto, StartWait, At, Runs, InWait, Early, Proc, pipes, options
  <2>. QED BY <1>1, <2>2, <2>3 DEF IInv
<1>3. CASE ~withFuse
  <2>1. Goto("main", "done") /\ UNCHANGED <<life, status, chld, pend, waits>>
    BY <1>3 DEF EndFuse
  <2>2. ProcsTyped' /\ WaitsTyped'
    BY <2>1 DEF IInv, ProcsTyped, WaitsTyped, Goto, Labels, waits
  <2>3. Control' /\ Waits' /\ Order' /\ Unshares' /\ Pipes' /\ MapCount'
    BY <1>1, <2>1 DEF IInv, ProcsTyped, Control, Waits, Order, Unshares, Pipes, MapCount, EndFuse,
         Goto, At, Runs, InWait, Early, Proc, waits, pipes, options
  <2>. QED BY <1>1, <2>2, <2>3 DEF IInv
<1>. QED BY <1>2, <1>3

-----------------------------------------------------------------------------
(* helper and fuse *)

LEMMA RunHelperInv ==
    ASSUME IInv, RunHelper, UNCHANGED options
    PROVE  IInv'
<1>1. /\ InWait("main") /\ waitFor["main"] = "helper" /\ Runs("helper")
      /\ UNCHANGED <<pc, waits, pipes, childPid, chrooted, exitcode, terms>>
      /\ \A q \in Proc : Runs(q)' <=> Runs(q) /\ q # "helper"
      /\ \A q \in Proc : life[q]' = "none" <=> life[q] = "none"
  BY DEF IInv, ProcsTyped, Waits, RunHelper, At, Runs, Proc
<1>2. maps' \in {maps, maps + 1} /\ (maps' # maps => cont["main"] \in {"gidmap", "mapped"})
  BY DEF RunHelper
<1>3. ProcsTyped'
  BY DEF IInv, ProcsTyped, RunHelper, Proc
<1>4. MapCount' /\ maps' \in 0 .. 2
  BY <1>1, <1>2 DEF IInv, FactsTyped, MapCount, InWait, waits, Proc
<1>5. WaitsTyped' /\ FactsTyped'
  BY <1>1, <1>4 DEF IInv, WaitsTyped, FactsTyped, RunHelper, waits, options
<1>6. Control' /\ Waits' /\ Order' /\ Unshares' /\ Pipes'
  BY <1>1 DEF IInv, Control, Waits, Order, Unshares, Pipes, RunHelper, Early, Runs, InWait, Proc, waits, pipes, options
<1>. QED BY <1>3, <1>4, <1>5, <1>6 DEF IInv

LEMMA SetupFuseInv ==
    ASSUME IInv, SetupFuse, UNCHANGED options
    PROVE  IInv'
<1>1. CASE Exit("fuse", 127)
  BY <1>1, ExitInv DEF SetupFuse, At, Proc
<1>2. CASE Goto("fuse", "init") /\ newroot' = "mounted"
           /\ UNCHANGED <<procs, waits, pipes, childPid, maps, chrooted, exitcode>>
  <2>1. ProcsTyped' /\ WaitsTyped' /\ FactsTyped'
    BY <1>2 DEF IInv, ProcsTyped, WaitsTyped, FactsTyped, SetupFuse, Goto, Labels, procs, waits, options
  <2>2. Control' /\ Waits' /\ Order' /\ Unshares' /\ Pipes' /\ MapCount'
    BY <1>2 DEF IInv, ProcsTyped, Control, Waits, Order, Unshares, Pipes, MapCount, SetupFuse, Goto, At, Runs, InWait,
         Early, Proc, procs, waits, pipes, options
  <2>. QED BY <2>1, <2>2 DEF IInv
<1>. QED BY <1>1, <1>2 DEF SetupFuse

LEMMA InitFuseInv ==
    ASSUME IInv, InitFuse, UNCHANGED options
    PROVE  IInv'
<1>1. ProcsTyped'
  BY DEF procs, waits, facts, Runs, At, Goto, ChildReads, InitFuse, IInv, ProcsTyped, Proc,
         Labels
<1>2. WaitsTyped'
  BY DEF InitFuse, waits, IInv, WaitsTyped
<1>3. FactsTyped'
  BY LaunchAssumption DEF procs, waits, facts, Runs, At, Goto, ChildReads, InitFuse, options,
         IInv, FactsTyped
<1>4. (Control /\ Waits /\ Order /\ Unshares /\ Pipes /\ MapCount)'
  BY Bytes DEF procs, waits, facts, Runs, At, Goto, ChildReads, InitFuse, Proc, Group, Default,
         Labels, InWait, Early, ProcsTyped, Waits, WaitsTyped, FactsTyped, Control, Order,
         Unshares, Pipes, MapCount, IInv, options
<1>. QED BY <1>1, <1>2, <1>3, <1>4 DEF IInv

LEMMA TeardownFuseInv ==
    ASSUME IInv, TeardownFuse, UNCHANGED options
    PROVE  IInv'
<1>1. ProcsTyped'
  BY DEF procs, waits, pipes, Runs, At, Goto, TeardownFuse, IInv, ProcsTyped, Proc, Labels
<1>2. WaitsTyped'
  BY DEF TeardownFuse, waits, IInv, WaitsTyped
<1>3. FactsTyped'
  BY LaunchAssumption DEF procs, waits, pipes, Runs, At, Goto, TeardownFuse, options, IInv,
         FactsTyped
<1>4. (Control /\ Waits /\ Order /\ Unshares /\ Pipes /\ MapCount)'
  BY Bytes DEF procs, waits, pipes, Runs, At, Goto, TeardownFuse, Proc, Group, Default, Labels,
         InWait, Early, ProcsTyped, Waits, WaitsTyped, FactsTyped, Control, Order, Unshares,
         Pipes, MapCount, IInv, options
<1>. QED BY <1>1, <1>2, <1>3, <1>4 DEF IInv

LEMMA CleanupInv ==
    ASSUME IInv, Cleanup, UNCHANGED options
    PROVE  IInv'
<1>1. ProcsTyped'
  BY DEF Proc, parent, waits, pipes, Runs, At, Ended, Seen, Ends, RemoveNewroot, Cleanup, IInv,
         ProcsTyped, Labels
<1>2. WaitsTyped'
  BY DEF Cleanup, waits, IInv, WaitsTyped
<1>3. FactsTyped'
  BY LaunchAssumption DEF RemoveNewroot, Cleanup, options, IInv, FactsTyped
<1>4. (Control /\ Waits /\ Order /\ Unshares /\ Pipes /\ MapCount)'
  BY Bytes DEF Proc, parent, waits, pipes, Runs, At, Ended, Seen, Ends, RemoveNewroot, Cleanup,
         Group, Default, Labels, InWait, Early, ProcsTyped, Waits, WaitsTyped, FactsTyped,
         Control, Order, Unshares, Pipes, MapCount, IInv, options
<1>. QED BY <1>1, <1>2, <1>3, <1>4 DEF IInv

-----------------------------------------------------------------------------
(* mid, pid1 and cmd *)

LEMMA UnshareInv ==
    ASSUME IInv, Unshare, UNCHANGED options
    PROVE  IInv'
<1>1. CASE Exit("mid", 128 + 13) \/ Exit("mid", 127)
  <2>1. Runs("mid") /\ UNCHANGED <<options, terms>> /\ "mid" \in Proc
    BY DEF Unshare, At, Proc
  <2>2. ASSUME Exit("mid", 128 + 13) PROVE IInv'
    BY <2>1, <2>2, ExitInv
  <2>3. ASSUME Exit("mid", 127) PROVE IInv'
    BY <2>1, <2>3, ExitInv
  <2>. QED BY <1>1, <2>2, <2>3
<1>2. CASE toparent' = Append(toparent, "U") /\ Goto("mid", "waitI")
           /\ UNCHANGED <<procs, waits, tochild, facts>>
  <2>a. toparent' = <<"U">> /\ pc["main"] = "readU"
    BY <1>2, Bytes DEF IInv, Unshares, Pipes, Unshare, At
  <2>1. ProcsTyped' /\ WaitsTyped' /\ FactsTyped'
    BY <1>2 DEF IInv, ProcsTyped, WaitsTyped, FactsTyped, Unshare, Goto, Labels, procs, waits, facts, options
  <2>2. Control' /\ Waits' /\ Order' /\ Unshares' /\ Pipes' /\ MapCount'
    BY <1>2, <2>a DEF IInv, ProcsTyped, Control, Waits, Order, Unshares, Pipes, MapCount, Unshare, Goto, At, Runs,
         InWait, Early, Proc, procs, waits, facts, options
  <2>. QED BY <2>1, <2>2 DEF IInv
<1>. QED BY <1>1, <1>2 DEF Unshare

LEMMA WaitParentInv ==
    ASSUME IInv, WaitParent, UNCHANGED options
    PROVE  IInv'
<1>1. CASE Exit("mid", 0)
  BY <1>1, ExitInv DEF WaitParent, At, Proc
<1>2. CASE tochild # <<>> /\ tochild' = Tail(tochild) /\ Goto("mid", "mount")
           /\ UNCHANGED <<procs, waits, toparent, facts>>
  <2>1. tochild' = <<>> /\ ~Early
    BY <1>2, Bytes DEF IInv, Order, Pipes
  <2>2. ProcsTyped' /\ WaitsTyped' /\ FactsTyped'
    BY <1>2 DEF IInv, ProcsTyped, WaitsTyped, FactsTyped, WaitParent, Goto, Labels, procs, waits, facts, options
  <2>3. Control' /\ Waits' /\ Order' /\ Unshares' /\ Pipes' /\ MapCount'
    BY <1>2, <2>1 DEF IInv, ProcsTyped, Control, Waits, Order, Unshares, Pipes, MapCount, WaitParent, Goto, At, Runs,
         InWait, Early, Proc, procs, waits, facts, options
  <2>. QED BY <2>2, <2>3 DEF IInv
<1>. QED BY <1>1, <1>2 DEF WaitParent

LEMMA ChrootInvariant ==
    ASSUME IInv, Chroot, UNCHANGED options
    PROVE  IInv'
<1>1. CASE Exit("mid", 128 + 13) \/ Exit("mid", 1)
  <2>1. Runs("mid") /\ UNCHANGED <<options, terms>> /\ "mid" \in Proc
    BY DEF Chroot, At, Proc
  <2>2. ASSUME Exit("mid", 128 + 13) PROVE IInv'
    BY <2>1, <2>2, ExitInv
  <2>3. ASSUME Exit("mid", 1) PROVE IInv'
    BY <2>1, <2>3, ExitInv
  <2>. QED BY <1>1, <2>2, <2>3
<1>2. CASE chrooted' = TRUE /\ toparent' = Append(toparent, "C") /\ Goto("mid", "fork")
           /\ UNCHANGED <<procs, waits, tochild, childPid, maps, exitcode, newroot>>
  <2>a. toparent' \in {<<"C">>, <<"U", "C">>} /\ (toparent = <<>> => toparent' = <<"C">>)
    <3>1. toparent = <<>> => toparent' = <<"C">>
      BY <1>2, Bytes
    <3>2. toparent = <<"U">> => toparent' = <<"U", "C">>
      BY <1>2, Bytes
    <3>. QED BY <3>1, <3>2 DEF IInv, Pipes, Chroot, At
  <2>1. ProcsTyped' /\ WaitsTyped' /\ FactsTyped'
    BY <1>2 DEF IInv, ProcsTyped, WaitsTyped, FactsTyped, Chroot, Goto, Labels, procs, waits, options
  <2>2. Control' /\ Waits' /\ Order' /\ Unshares' /\ Pipes' /\ MapCount'
    BY <1>2, <2>a DEF IInv, ProcsTyped, Control, Waits, Order, Unshares, Pipes, MapCount,
         Chroot, Goto, At, Runs, InWait, Early, Proc, procs, waits, options
  <2>. QED BY <2>1, <2>2 DEF IInv
<1>. QED BY <1>1, <1>2 DEF Chroot

LEMMA ForkInitInv ==
    ASSUME IInv, ForkInit, UNCHANGED options
    PROVE  IInv'
<1>1. ProcsTyped'
  BY ForkTyped DEF ForkInit, IInv, Proc, Labels
<1>2. WaitsTyped'
  BY DEF ForkInit, waits, IInv, WaitsTyped
<1>3. FactsTyped'
  BY LaunchAssumption DEF facts, ForkInit, options, IInv, FactsTyped
<1>4. (Control /\ Waits /\ Order /\ Unshares /\ Pipes /\ MapCount)'
  BY Bytes DEF waits, pipes, facts, Runs, At, Fork, ForkInit, Proc, Group, Default, Labels,
         InWait, Early, ProcsTyped, Waits, WaitsTyped, FactsTyped, Control, Order, Unshares,
         Pipes, MapCount, IInv, options
<1>. QED BY <1>1, <1>2, <1>3, <1>4 DEF IInv

LEMMA WaitInitInv ==
    ASSUME IInv, WaitInit, UNCHANGED options
    PROVE  IInv'
<1>1. ProcsTyped'
  BY DEF procs, pipes, facts, Runs, At, Goto, StartWait, WaitInit, IInv, ProcsTyped, Proc, Labels
<1>2. WaitsTyped'
  BY StartWaitTyped DEF WaitInit, IInv, Proc, Labels, Group
<1>3. FactsTyped'
  BY LaunchAssumption DEF procs, pipes, facts, Runs, At, Goto, WaitInit, options, IInv, FactsTyped
<1>4. (Control /\ Waits /\ Order /\ Unshares /\ Pipes /\ MapCount)'
  BY Bytes DEF procs, pipes, facts, Runs, At, Goto, StartWait, WaitInit, Proc, Group, Default,
         Labels, InWait, Early, ProcsTyped, Waits, WaitsTyped, FactsTyped, Control, Order,
         Unshares, Pipes, MapCount, IInv, options
<1>. QED BY <1>1, <1>2, <1>3, <1>4 DEF IInv

LEMMA SetupInitInv ==
    ASSUME IInv, SetupInit, UNCHANGED options
    PROVE  IInv'
<1>1. CASE Exit("pid1", 1)
  BY <1>1, ExitInv DEF SetupInit, At, Proc
<1>2. CASE Goto("pid1", "fork") /\ UNCHANGED <<procs, waits, pipes, facts>>
  <2>1. ProcsTyped' /\ WaitsTyped' /\ FactsTyped'
    BY <1>2 DEF IInv, ProcsTyped, WaitsTyped, FactsTyped, SetupInit, Goto, Labels, procs, waits, facts, options
  <2>2. Control' /\ Waits' /\ Order' /\ Unshares' /\ Pipes' /\ MapCount'
    BY <1>2 DEF IInv, ProcsTyped, Control, Waits, Order, Unshares, Pipes, MapCount, SetupInit, Goto, At, Runs, InWait,
         Early, Proc, procs, waits, pipes, facts, options
  <2>. QED BY <2>1, <2>2 DEF IInv
<1>. QED BY <1>1, <1>2 DEF SetupInit

LEMMA ForkCommandInv ==
    ASSUME IInv, ForkCommand, UNCHANGED options
    PROVE  IInv'
<1>1. ProcsTyped'
  BY ForkTyped DEF ForkCommand, IInv, Proc, Labels
<1>2. WaitsTyped'
  BY DEF ForkCommand, waits, IInv, WaitsTyped
<1>3. FactsTyped'
  BY LaunchAssumption DEF facts, ForkCommand, options, IInv, FactsTyped
<1>4. (Control /\ Waits /\ Order /\ Unshares /\ Pipes /\ MapCount)'
  BY Bytes DEF waits, pipes, facts, Runs, At, Fork, ForkCommand, Proc, Group, Default, Labels,
         InWait, Early, ProcsTyped, Waits, WaitsTyped, FactsTyped, Control, Order, Unshares,
         Pipes, MapCount, IInv, options
<1>. QED BY <1>1, <1>2, <1>3, <1>4 DEF IInv

LEMMA RunCommandInv ==
    ASSUME IInv, RunCommand, UNCHANGED options
    PROVE  IInv'
<1>1. ProcsTyped'
  BY DEF procs, pipes, facts, Runs, At, StartWait, RunCommand, IInv, ProcsTyped, Proc, Labels
<1>2. WaitsTyped'
  BY StartWaitTyped DEF RunCommand, IInv, Proc, Labels, Group
<1>3. FactsTyped'
  BY LaunchAssumption DEF facts, RunCommand, options, IInv, FactsTyped
<1>4. (Control /\ Waits /\ Order /\ Unshares /\ Pipes /\ MapCount)'
  BY Bytes DEF procs, pipes, facts, Runs, At, StartWait, RunCommand, Proc, Group, Default, Labels,
         InWait, Early, ProcsTyped, Waits, WaitsTyped, FactsTyped, Control, Order, Unshares,
         Pipes, MapCount, IInv, options
<1>. QED BY <1>1, <1>2, <1>3, <1>4 DEF IInv

-----------------------------------------------------------------------------
(* The invariant, for every behaviour *)

LEMMA InitInv == Init => IInv
<1> SUFFICES ASSUME Init PROVE IInv
  OBVIOUS
<1>1. ProcsTyped /\ WaitsTyped /\ FactsTyped
  <2>1. ProcsTyped
    BY DEF Init, ProcsTyped, Labels
  <2>2. WaitsTyped
    <3>1. Default \in (SUBSET (Proc \cup {Group})) \cup {Default} /\ "start" \in Labels /\ 0 \in 0 .. 255
      BY DEF Labels
    <3>. QED BY <3>1 DEF Init, WaitsTyped
  <2>3. FactsTyped
    <3>1. 0 \in 0 .. MaxTerm
      BY LaunchAssumption
    <3>2. childPid \in BOOLEAN /\ chrooted \in BOOLEAN
      BY DEF Init
    <3>3. maps \in 0 .. 2 /\ exitcode \in 0 .. 255 /\ newroot \in {"none", "there", "mounted"}
      BY DEF Init
    <3>. QED BY <3>1, <3>2, <3>3 DEF Init, FactsTyped
  <2>. QED BY <2>1, <2>2, <2>3
<1>2. Control /\ Waits /\ Order /\ Unshares /\ Pipes /\ MapCount
  BY DEF Init, Control, Waits, Order, Unshares, Pipes, MapCount, InWait, Runs, Proc, Default
<1>. QED BY <1>1, <1>2 DEF IInv

LEMMA NextInv == IInv /\ [Next]_vars => IInv'
<1> SUFFICES ASSUME IInv, [Next]_vars PROVE IInv'
  OBVIOUS
<1>1. CASE SendTerm
  BY <1>1, SendTermInv DEF SendTerm
<1>2. ASSUME NEW p \in Proc, Turn(p) PROVE IInv'
  <2>1. UNCHANGED options
    BY <1>2 DEF Turn
  <2>2. CASE Handler(p) \/ Waitpid(p)
    BY <2>1, <2>2, SigchldInv, SigchldInitInv, SigtermInv, WaitpidInv DEF Handler
  <2>3. CASE MainStep
    BY <2>1, <2>3, ForkChildInv, WaitChildInv, MapSingleInv, MapSubInv, MappedInv, KillChildInv, SetChildInv,
       RunFuseInv, RunChildInv, PrecleanInv, RmdirInv, WaitContainerInv, EndFuseInv, ExitsInv DEF MainStep
  <2>4. CASE Unshare \/ WaitParent \/ Chroot \/ ForkInit \/ WaitInit \/ ExitMid
    BY <2>1, <2>4, UnshareInv, WaitParentInv, ChrootInvariant, ForkInitInv, WaitInitInv, ExitsInv
  <2>5. CASE SetupInit \/ ForkCommand \/ RunCommand \/ ExitInit \/ ExitCommand
    BY <2>1, <2>5, SetupInitInv, ForkCommandInv, RunCommandInv, ExitsInv
  <2>6. CASE SetupFuse \/ InitFuse \/ TeardownFuse \/ Cleanup \/ RunHelper
    BY <2>1, <2>6, SetupFuseInv, InitFuseInv, TeardownFuseInv, CleanupInv, RunHelperInv
  <2>. QED BY <1>2, <2>2, <2>3, <2>4, <2>5, <2>6 DEF Turn
<1>3. CASE UNCHANGED vars
  <2>1. (ProcsTyped /\ WaitsTyped /\ FactsTyped)'
    BY <1>3 DEF IInv, ProcsTyped, WaitsTyped, FactsTyped, vars
  <2>2. (Control /\ Waits /\ Order /\ Unshares /\ Pipes /\ MapCount)'
    BY <1>3 DEF IInv, Control, Waits, Order, Unshares, Pipes, MapCount, InWait, Early, Runs, vars
  <2>. QED BY <2>1, <2>2 DEF IInv
<1>. QED BY <1>1, <1>2, <1>3 DEF Next

LEMMA Invariance == Spec => []IInv
<1>. QED BY InitInv, NextInv, PTL DEF Spec

(***************************************************************************)
(* Whatever fails and whenever SIGTERMs come, the processes, signals and   *)
(* pipes of the start keep their types: no more than one byte is ever on   *)
(* its way to the child and two to main, and no map is installed twice.    *)
(***************************************************************************)
THEOREM LaunchTyped == Spec => []TypeOK
<1>1. IInv => TypeOK
  <2> SUFFICES ASSUME IInv PROVE TypeOK
    OBVIOUS
  <2>1. /\ toparent \in Seq({"U", "C"}) /\ Len(toparent) =< 2
        /\ tochild \in Seq({"I"}) /\ Len(tochild) =< 1
    <3>a. tochild \in {<<>>, <<"I">>} /\ toparent \in {<<>>, <<"U">>, <<"C">>, <<"U", "C">>}
      BY DEF IInv, Pipes
    <3>1. /\ <<>> \in Seq({"U", "C"}) /\ <<>> \in Seq({"I"})
          /\ <<"I">> \in Seq({"I"}) /\ <<"U">> \in Seq({"U", "C"}) /\ <<"C">> \in Seq({"U", "C"})
      OBVIOUS
    <3>2. Len(<<>>) =< 1 /\ Len(<<>>) =< 2 /\ Len(<<"I">>) =< 1 /\ Len(<<"U">>) =< 2 /\ Len(<<"C">>) =< 2
      OBVIOUS
    <3>3. <<"U", "C">> \in Seq({"U", "C"}) /\ Len(<<"U", "C">>) =< 2
      OBVIOUS
    <3>4. tochild \in Seq({"I"}) /\ Len(tochild) =< 1
      BY <3>a, <3>1, <3>2, Zenon
    <3>5. toparent \in Seq({"U", "C"}) /\ Len(toparent) =< 2
      BY <3>a, <3>1, <3>2, <3>3, Zenon
    <3>. QED BY <3>4, <3>5
  <2>. QED BY <2>1 DEF IInv, ProcsTyped, WaitsTyped, FactsTyped, TypeOK
<1>. QED BY <1>1, Invariance, PTL

LEMMA StatusStep ==
    ASSUME IInv, StatusInv, [Next]_vars
    PROVE  StatusInv'
<1>1. CASE SendTerm
  BY <1>1 DEF Proc, Group, waits, pipes, facts, Runs, Targets, Send, SendTerm, InWait, StatusInv,
         Labels, ProcsTyped, Default, WaitsTyped, Control, Waits, Early, Order, IInv, options
<1>2. CASE UNCHANGED vars
  BY <1>2 DEF Runs, InWait, StatusInv, vars
<1>3. ASSUME NEW p \in Proc, Turn(p) PROVE StatusInv'
  <2>1. UNCHANGED options
    BY <1>3 DEF Turn
  <2>2. CASE ForkChild \/ WaitChild \/ MapSingle \/ MapSub \/ Mapped
    <3>1. CASE ForkChild
      BY <2>1, <3>1 DEF waits, pipes, facts, Runs, At, Fork, ForkChild, InWait, StatusInv,
         Proc, Labels, ProcsTyped, Group, Default, WaitsTyped, Control, Waits, Early, Order,
         IInv, options
    <3>2. CASE WaitChild
      BY <2>1, <3>2 DEF waits, pipes, facts, Runs, At, procs, Goto, ChildReads, AfterRead,
         WaitChild, InWait, StatusInv, Proc, Labels, ProcsTyped, Group, Default, WaitsTyped,
         Control, Waits, Early, Order, IInv, options
    <3>3. CASE MapSingle
      BY <2>1, <3>3 DEF At, Goto, MapSingle, InWait, StatusInv, Proc, ProcsTyped, Control,
           Early, Order, IInv
    <3>4. CASE MapSub
      BY <2>1, <3>4 DEF pipes, facts, Runs, At, Fork, StartWait, MapSub, InWait, StatusInv,
         Proc, Labels, ProcsTyped, Group, Default, WaitsTyped, Control, Waits, Early, Order,
         IInv, options
    <3>5. CASE Mapped
      BY <2>1, <3>5 DEF waits, pipes, facts, Runs, At, procs, Goto, Mapped, InWait, StatusInv,
         Proc, Labels, ProcsTyped, Group, Default, WaitsTyped, Control, Waits, Early, Order,
         IInv, options
    <3> QED
      BY <2>2, <3>1, <3>2, <3>3, <3>4, <3>5
  <2>3. CASE KillChild \/ SetChild \/ RunFuse \/ RunChild
    <3>1. CASE KillChild
      BY <2>1, <3>1 DEF procs, waits, pipes, facts, Runs, At, KillChild, Proc, InWait,
         StatusInv, Labels, ProcsTyped, Group, Default, WaitsTyped, Control, Waits, Early,
         Order, IInv, options
    <3>2. CASE SetChild
      BY <2>1, <3>2 DEF procs, waits, Runs, Goto, SetChild, InWait, StatusInv
    <3>3. CASE RunFuse
      BY <2>1, <3>3 DEF waits, Runs, Fork, RunFuse, Proc, InWait, StatusInv, ProcsTyped, IInv
    <3>4. CASE RunChild
      BY <2>1, <3>4 DEF procs, waits, pipes, facts, Runs, At, Goto, Proc, parent, Ended, Seen,
         Ends, Exit, ChildReads, RunChild, InWait, StatusInv, Labels, ProcsTyped, Group,
         Default, WaitsTyped, Control, Waits, Early, Order, IInv, options
    <3> QED
      BY <2>3, <3>1, <3>2, <3>3, <3>4
  <2>4. CASE Preclean \/ Rmdir \/ WaitContainer \/ EndFuse
    <3>1. CASE Preclean
      BY <2>1, <3>1 DEF pipes, facts, Runs, At, Fork, StartWait, Preclean, Group, Proc, InWait,
         StatusInv, Labels, ProcsTyped, Default, WaitsTyped, Control, Waits, Early, Order,
         IInv, options
    <3>2. CASE Rmdir
      BY <2>1, <3>2 DEF Runs, procs, waits, Goto, Rmdir, InWait, StatusInv
    <3>3. CASE WaitContainer
      BY <2>1, <3>3 DEF pipes, facts, Runs, At, StartWait, procs, Goto, Group, WaitContainer,
         Proc, InWait, StatusInv, Labels, ProcsTyped, Default, WaitsTyped, Control, Waits,
         Early, Order, IInv, options
    <3>4. CASE EndFuse
      BY <2>1, <3>4 DEF pipes, Runs, At, StartWait, waits, Goto, Group, Proc, Targets, Send,
         EndFuse, InWait, StatusInv, Labels, ProcsTyped, Default, WaitsTyped, Control, Waits,
         Early, Order, IInv, options
    <3> QED
      BY <2>4, <3>1, <3>2, <3>3, <3>4
  <2>5. CASE RunHelper
    BY <2>1, <2>5 DEF parent, waits, pipes, Runs, At, Seen, RunHelper, InWait, StatusInv, Proc,
           Labels, ProcsTyped, Group, Default, WaitsTyped, Control, Waits, Early, Order, IInv,
           options
  <2>6. CASE SetupFuse \/ InitFuse \/ TeardownFuse \/ Cleanup
    <3>1. CASE SetupFuse
      BY <2>1, <3>1 DEF Proc, parent, procs, waits, pipes, facts, Runs, At, Goto, Ended, Seen,
         Ends, Exit, SetupFuse, InWait, StatusInv, Labels, ProcsTyped, Group, Default,
         WaitsTyped, Control, Waits, Early, Order, IInv, options
    <3>2. CASE InitFuse
      BY <2>1, <3>2 DEF Proc, procs, waits, pipes, facts, Runs, At, Goto, ChildReads, InitFuse,
         InWait, StatusInv, Labels, ProcsTyped, Group, Default, WaitsTyped, Control, Waits,
         Early, Order, IInv, options
    <3>3. CASE TeardownFuse
      BY <2>1, <3>3 DEF Proc, procs, waits, pipes, Runs, At, Goto, TeardownFuse, InWait,
         StatusInv, Labels, ProcsTyped, Group, Default, WaitsTyped, Control, Waits, Early,
         Order, IInv, options
    <3>4. CASE Cleanup
      BY <2>1, <3>4 DEF Proc, parent, waits, pipes, Runs, At, Ended, Seen, Ends, RemoveNewroot,
         Cleanup, InWait, StatusInv, Labels, ProcsTyped, Group, Default, WaitsTyped, Control,
         Waits, Early, Order, IInv, options
    <3> QED
      BY <2>6, <3>1, <3>2, <3>3, <3>4
  <2>7. CASE Unshare \/ WaitParent \/ Chroot \/ ForkInit \/ WaitInit
    <3>1. CASE Unshare
      BY <2>1, <3>1 DEF Proc, parent, procs, waits, pipes, facts, Runs, At, Goto, Ended, Seen,
         Ends, Exit, Unshare, InWait, StatusInv, Labels, ProcsTyped, Group, Default,
         WaitsTyped, Control, Waits, Early, Order, IInv, options
    <3>2. CASE WaitParent
      BY <2>1, <3>2 DEF Proc, parent, procs, waits, facts, Runs, At, Goto, Ended, Ends, Exit,
           WaitParent, InWait, StatusInv, ProcsTyped, IInv
    <3>3. CASE Chroot
      BY <2>1, <3>3 DEF Proc, procs, waits, facts, Runs, At, Goto, Ended, Ends, Exit, Chroot,
           InWait, StatusInv, ProcsTyped, IInv
    <3>4. CASE ForkInit
      BY <2>1, <3>4 DEF Proc, waits, pipes, facts, Runs, At, Fork, ForkInit, InWait, StatusInv,
         Labels, ProcsTyped, Group, Default, WaitsTyped, Control, Waits, Early, Order, IInv,
         options
    <3>5. CASE WaitInit
      BY <2>1, <3>5 DEF Proc, procs, pipes, facts, Runs, At, Goto, StartWait, WaitInit, InWait,
         StatusInv, Labels, ProcsTyped, Group, Default, WaitsTyped, Control, Waits, Early,
         Order, IInv, options
    <3> QED
      BY <2>7, <3>1, <3>2, <3>3, <3>4, <3>5
  <2>8. CASE SetupInit \/ ForkCommand \/ RunCommand
    <3>1. CASE SetupInit
      BY <2>1, <3>1 DEF Proc, procs, waits, facts, Runs, At, Goto, Ended, Ends, Exit,
           SetupInit, InWait, StatusInv, ProcsTyped, IInv
    <3>2. CASE ForkCommand
      BY <2>1, <3>2 DEF Proc, waits, facts, Runs, Fork, ForkCommand, InWait, StatusInv,
           ProcsTyped, IInv
    <3>3. CASE RunCommand
      BY <2>1, <3>3 DEF Proc, procs, pipes, facts, Runs, At, StartWait, RunCommand, InWait,
         StatusInv, Labels, ProcsTyped, Group, Default, WaitsTyped, Control, Waits, Early,
         Order, IInv, options
    <3> QED
      BY <2>8, <3>1, <3>2, <3>3
  <2>9. CASE ExitMain \/ ExitMid \/ ExitInit \/ ExitCommand
    <3>1. CASE ExitMain
      BY <2>1, <3>1 DEF Proc, parent, waits, pipes, facts, Runs, At, Ended, Seen, Ends, Exit,
         ExitMain, InWait, StatusInv, Labels, ProcsTyped, Group, Default, WaitsTyped, Control,
         Waits, Early, Order, IInv, options
    <3>2. CASE ExitMid
      BY <2>1, <3>2 DEF Proc, waits, facts, Runs, At, Ended, Ends, Exit, ExitMid, InWait,
           StatusInv
    <3>3. CASE ExitInit
      BY <2>1, <3>3 DEF Proc, parent, waits, pipes, facts, Runs, At, Ended, Seen, Ends, Exit,
         ExitInit, InWait, StatusInv, Labels, ProcsTyped, Group, Default, WaitsTyped, Control,
         Waits, Early, Order, IInv, options
    <3>4. CASE ExitCommand
      BY <2>1, <3>4 DEF Proc, parent, waits, pipes, facts, Runs, At, Ended, Seen, Ends, Exit,
         ExitCommand, InWait, StatusInv, Labels, ProcsTyped, Group, Default, WaitsTyped,
         Control, Waits, Early, Order, IInv, options
    <3> QED
      BY <2>9, <3>1, <3>2, <3>3, <3>4
  <2>10. CASE Waitpid(p)
    <3>1. p \in {"main", "mid", "pid1"}
      BY <2>10 DEF IInv, Waits, InWait, Waitpid, Proc
    <3>2. CASE p = "main"
      BY <2>1, <2>10, <3>2 DEF pipes, facts, Runs, Goto, Waitpid, InWait, StatusInv, Proc, Labels,
             ProcsTyped, Group, Default, WaitsTyped, Control, Waits, Early, Order, IInv, options
    <3>3. CASE p = "mid"
      BY <2>1, <2>10, <3>3 DEF pipes, facts, Runs, Goto, Waitpid, InWait, StatusInv, Proc, Labels,
             ProcsTyped, Group, Default, WaitsTyped, Control, Waits, Early, Order, IInv, options
    <3>4. CASE p = "pid1"
      BY <2>1, <2>10, <3>4 DEF pipes, facts, Runs, Goto, Waitpid, InWait, StatusInv, Proc, Labels,
             ProcsTyped, Group, Default, WaitsTyped, Control, Waits, Early, Order, IInv, options
    <3>. QED BY <3>1, <3>2, <3>3, <3>4
  <2>11. CASE Sigchld(p)
    <3>1. CASE p = "main"
      BY <2>1, <2>11, <3>1 DEF waits, pipes, facts, Runs, Goto, ChildReads, AfterRead,
             Interrupted, Sigchld, InWait, StatusInv, Proc, Labels, ProcsTyped, Group, Default,
             WaitsTyped, Control, Waits, Early, Order, IInv, options
    <3>2. CASE p = "mid"
      BY <2>1, <2>11, <3>2 DEF waits, pipes, facts, Runs, Goto, ChildReads, AfterRead,
             Interrupted, Sigchld, InWait, StatusInv, Proc, Labels, ProcsTyped, Group, Default,
             WaitsTyped, Control, Waits, Early, Order, IInv, options
    <3>. QED BY <2>11, <3>1, <3>2 DEF Sigchld
  <2>12. CASE SigchldInit
    BY <2>1, <2>12 DEF waits, pipes, facts, Runs, Goto, ChildReads, AfterRead, Interrupted,
           SigchldInit, InWait, StatusInv, Proc, Labels, ProcsTyped, Group, Default, WaitsTyped,
           Control, Waits, Early, Order, IInv, options
  <2>13. CASE Sigterm(p)
    <3>1. Runs(p) /\ "TERM" \in pend[p]
      BY <2>13, SigtermCases
    <3>2. CASE /\ p = "fuse" /\ pc[p] # "setup"
               /\ Goto(p, IF pc[p] = "cleanup" THEN "cleanup" ELSE "teardown")
               /\ pend' = [q \in Proc |-> IF q = p THEN pend[q] \ {"TERM"}
                              ELSE pend[q] \cup IF q \in Targets({"mid"}) THEN {"TERM"} ELSE {}]
               /\ UNCHANGED <<life, status, chld, waits, pipes, facts>>
      BY <2>1, <3>1, <3>2 DEF Runs, Goto, Proc, Group, Targets, waits, pipes, facts, InWait,
             StatusInv, Labels, ProcsTyped, Default, WaitsTyped, Control, Waits, Early, Order,
             IInv, options
    <3>3. CASE /\ p \in {"main", "mid", "pid1"} /\ relay[p] # Default
               /\ Interrupted(p)
               /\ pend' = [q \in Proc |-> (IF q = p THEN pend[q] \ {"TERM"} ELSE pend[q])
                              \cup IF q \in Targets(relay[p]) THEN {"TERM"} ELSE {}]
               /\ UNCHANGED <<life, status, chld, waits, pipes, facts>>
      <4>1. CASE p = "main"
        BY <2>1, <3>1, <3>3, <4>1 DEF Runs, Goto, ChildReads, AfterRead, Interrupted, Proc, Group,
               Targets, waits, pipes, facts, InWait, StatusInv, Labels, ProcsTyped, Default,
               WaitsTyped, Control, Waits, Early, Order, IInv, options
      <4>2. CASE p \in {"mid", "pid1"}
        <5>1. /\ \A q \in {"main", "fuse", "helper"} : pend'[q] = pend[q] /\ pc'[q] = pc[q]
              /\ UNCHANGED pc \/ (pc[p] = "waiting" /\ Goto(p, "wait"))
          BY <3>3, <4>2 DEF IInv, ProcsTyped, Waits, Control, Targets, Interrupted, Goto, Proc, Default, Group
        <5>. QED
          BY <2>1, <3>1, <3>3, <4>2, <5>1 DEF waits, facts, Goto, Runs, InWait, StatusInv,
               Proc, ProcsTyped, IInv
      <4>. QED BY <3>3, <4>1, <4>2
    <3>4. CASE /\ p \in {"main", "mid", "helper", "cmd"} /\ relay[p] = Default
               /\ Exit(p, 128 + 15)
      <4>1. CASE p = "main"
        BY <2>1, <3>1, <3>4, <4>1 DEF Proc, parent, waits, pipes, facts, Runs, Ended, Seen, Ends,
               Exit, InWait, StatusInv, Labels, ProcsTyped, Group, Default, WaitsTyped, Control,
               Waits, Early, Order, IInv, options
      <4>2. CASE p = "mid"
        <5>1. pc["mid"] \notin {"wait", "waiting", "exit"}
          BY <3>4, <4>2 DEF IInv, Waits, Default
        <5>. QED
          BY <2>1, <3>1, <3>4, <4>2, <5>1 DEF Proc, parent, waits, pipes, facts, Runs, Ended,
                 Seen, Ends, Exit, InWait, StatusInv, Labels, ProcsTyped, Group, Default,
                 WaitsTyped, Control, Waits, Early, Order, IInv, options
      <4>3. CASE p = "helper"
        BY <2>1, <3>1, <3>4, <4>3 DEF Proc, parent, waits, pipes, facts, Runs, Ended, Seen, Ends,
               Exit, InWait, StatusInv, Labels, ProcsTyped, Group, Default, WaitsTyped, Control,
               Waits, Early, Order, IInv, options
      <4>4. CASE p = "cmd"
        BY <2>1, <3>1, <3>4, <4>4 DEF Proc, parent, waits, pipes, facts, Runs, Ended, Seen, Ends,
               Exit, InWait, StatusInv, Labels, ProcsTyped, Group, Default, WaitsTyped, Control,
               Waits, Early, Order, IInv, options
      <4>. QED BY <3>4, <4>1, <4>2, <4>3, <4>4
    <3>5. CASE /\ p = "pid1"
               /\ pend' = [pend EXCEPT ![p] = @ \ {"TERM"}]
               /\ UNCHANGED <<life, pc, status, chld, waits, pipes, facts>>
      BY <2>1, <3>5 DEF Runs, waits, pipes, facts, InWait, StatusInv, Proc, Labels, ProcsTyped,
             Group, Default, WaitsTyped, Control, Waits, Early, Order, IInv, options
    <3>. QED BY <2>13, <3>2, <3>3, <3>4, <3>5, SigtermCases
  <2>. QED BY <1>3, <2>2, <2>3, <2>4, <2>5, <2>6, <2>7, <2>8, <2>9, <2>10, <2>11, <2>12, <2>13 DEF Turn, Handler, MainStep
<1>. QED BY <1>1, <1>2, <1>3 DEF Next


LEMMA MapStep ==
    ASSUME HelpersSucceed, IInv, MapInv, [Next]_vars
    PROVE  MapInv'
<1>1. CASE SendTerm
  BY <1>1, LaunchAssumption DEF Proc, Group, waits, pipes, facts, Runs, Targets, Send, SendTerm,
         InWait, Early, MapInv, Labels, ProcsTyped, Default, WaitsTyped, FactsTyped, Control,
         Waits, Order, MapCount, HelpersSucceed, IInv, options
<1>2. CASE UNCHANGED vars
  BY <1>2 DEF Runs, InWait, Early, MapInv, vars
<1>3. ASSUME NEW p \in Proc, Turn(p) PROVE MapInv'
  <2>1. UNCHANGED options
    BY <1>3 DEF Turn
  <2>2. CASE ForkChild \/ WaitChild \/ MapSingle \/ MapSub \/ Mapped
    <3>1. CASE ForkChild
      BY <2>1, <3>1, LaunchAssumption DEF waits, pipes, facts, Runs, At, Fork, ForkChild,
         InWait, Early, MapInv, Proc, Labels, ProcsTyped, Group, Default, WaitsTyped,
         FactsTyped, Control, Waits, Order, MapCount, HelpersSucceed, IInv, options
    <3>2. CASE WaitChild
      BY <2>1, <3>2, LaunchAssumption DEF waits, pipes, facts, Runs, At, procs, Goto,
         ChildReads, AfterRead, WaitChild, InWait, Early, MapInv, Proc, Labels, ProcsTyped,
         Group, Default, WaitsTyped, FactsTyped, Control, Waits, Order, MapCount,
         HelpersSucceed, IInv, options
    <3>3. CASE MapSingle
      BY <2>1, <3>3, LaunchAssumption DEF procs, Goto, MapSingle, InWait, Early, MapInv, Proc,
           ProcsTyped, IInv
    <3>4. CASE MapSub
      BY <2>1, <3>4, LaunchAssumption DEF pipes, facts, Runs, At, Fork, StartWait, MapSub,
         InWait, Early, MapInv, Proc, Labels, ProcsTyped, Group, Default, WaitsTyped,
         FactsTyped, Control, Waits, Order, MapCount, HelpersSucceed, IInv, options
    <3>5. CASE Mapped
      BY <2>1, <3>5, LaunchAssumption DEF waits, pipes, facts, Runs, At, procs, Goto, Mapped,
         InWait, Early, MapInv, Proc, Labels, ProcsTyped, Group, Default, WaitsTyped,
         FactsTyped, Control, Waits, Order, MapCount, HelpersSucceed, IInv, options
    <3> QED
      BY <2>2, <3>1, <3>2, <3>3, <3>4, <3>5
  <2>3. CASE KillChild
    BY <2>1, <2>3, LaunchAssumption DEF procs, waits, pipes, facts, Runs, At, KillChild, InWait,
           Early, MapInv, Proc, Labels, ProcsTyped, Group, Default, WaitsTyped, FactsTyped,
           Control, Waits, Order, MapCount, HelpersSucceed, IInv, options
  <2>4. CASE SetChild
    BY <2>1, <2>4, LaunchAssumption DEF procs, waits, pipes, Runs, At, Goto, SetChild, InWait,
           Early, MapInv, Proc, Labels, ProcsTyped, Group, Default, WaitsTyped, FactsTyped,
           Control, Waits, Order, MapCount, HelpersSucceed, IInv, options
  <2>5. CASE RunFuse \/ RunChild
    <3>1. CASE RunFuse
      BY <2>1, <3>1, LaunchAssumption DEF waits, pipes, Runs, At, Fork, RunFuse, Proc, InWait,
         Early, MapInv, Labels, ProcsTyped, Group, Default, WaitsTyped, FactsTyped, Control,
         Waits, Order, MapCount, HelpersSucceed, IInv, options
    <3>2. CASE RunChild
      BY <2>1, <3>2, LaunchAssumption DEF waits, pipes, Runs, At, Proc, parent, procs, facts,
         Goto, Ended, Seen, Ends, Exit, ChildReads, RunChild, InWait, Early, MapInv, Labels,
         ProcsTyped, Group, Default, WaitsTyped, FactsTyped, Control, Waits, Order, MapCount,
         HelpersSucceed, IInv, options
    <3> QED
      BY <2>5, <3>1, <3>2
  <2>6. CASE Preclean \/ Rmdir \/ WaitContainer \/ EndFuse
    <3>1. CASE Preclean
      BY <2>1, <3>1, LaunchAssumption DEF pipes, facts, Runs, At, Fork, StartWait, Preclean,
         Group, Proc, InWait, Early, MapInv, Labels, ProcsTyped, Default, WaitsTyped,
         FactsTyped, Control, Waits, Order, MapCount, HelpersSucceed, IInv, options
    <3>2. CASE Rmdir
      BY <2>1, <3>2, LaunchAssumption DEF Runs, At, procs, Goto, Rmdir, InWait, Early, MapInv
    <3>3. CASE WaitContainer
      BY <2>1, <3>3, LaunchAssumption DEF pipes, facts, Runs, At, StartWait, procs, Goto,
         Group, WaitContainer, Proc, InWait, Early, MapInv, Labels, ProcsTyped, Default,
         WaitsTyped, FactsTyped, Control, Waits, Order, MapCount, HelpersSucceed, IInv, options
    <3>4. CASE EndFuse
      BY <2>1, <3>4, LaunchAssumption DEF pipes, Runs, At, StartWait, waits, Goto, Group, Proc,
         Targets, Send, EndFuse, InWait, Early, MapInv, Labels, ProcsTyped, Default,
         WaitsTyped, FactsTyped, Control, Waits, Order, MapCount, HelpersSucceed, IInv, options
    <3> QED
      BY <2>6, <3>1, <3>2, <3>3, <3>4
  <2>7. CASE RunHelper
    <3>1. CASE useSub
      <4>1. "helper" \notin Faults /\ MaxTerm = 0
        BY <3>1, LaunchAssumption DEF IInv, FactsTyped, HelpersSucceed
      <4>. QED
        BY <2>1, <2>7, <3>1, <4>1 DEF RunHelper, At, Runs, Seen, parent, MapInv, InWait, Early, IInv, ProcsTyped,
           Waits, Order, MapCount, Proc, waits, options
    <3>2. CASE ~useSub
      <4>1. ~(InWait("main") /\ cont["main"] \in {"gidmap", "mapped"}) /\ pc["main"] \notin {"gidmap", "mapped"}
        BY <3>2 DEF MapInv
      <4>2. UNCHANGED <<maps, pc>> /\ (MaxTerm = 0 => "TERM" \notin pend'["main"] \cup pend'["helper"])
        BY <2>7, <4>1 DEF RunHelper, At, Runs, Seen, parent, MapInv, InWait, IInv, ProcsTyped, Waits, Proc
      <4>. QED
        BY <2>1, <2>7, <3>2, <4>1, <4>2 DEF RunHelper, Runs, MapInv, InWait, Early, IInv, ProcsTyped, Proc,
           waits, options
    <3>. QED BY <3>1, <3>2
  <2>8. CASE SetupFuse \/ InitFuse \/ TeardownFuse \/ Cleanup
    <3>1. CASE SetupFuse
      BY <2>1, <3>1, LaunchAssumption DEF Proc, parent, procs, waits, pipes, facts, Runs, At,
         Goto, Ended, Seen, Ends, Exit, SetupFuse, InWait, Early, MapInv, Labels, ProcsTyped,
         Group, Default, WaitsTyped, FactsTyped, Control, Waits, Order, MapCount,
         HelpersSucceed, IInv, options
    <3>2. CASE InitFuse
      BY <2>1, <3>2, LaunchAssumption DEF Proc, procs, waits, pipes, facts, Runs, At, Goto,
         ChildReads, InitFuse, InWait, Early, MapInv, Labels, ProcsTyped, Group, Default,
         WaitsTyped, FactsTyped, Control, Waits, Order, MapCount, HelpersSucceed, IInv, options
    <3>3. CASE TeardownFuse
      BY <2>1, <3>3, LaunchAssumption DEF procs, waits, Runs, Goto, TeardownFuse, InWait,
           Early, MapInv, options
    <3>4. CASE Cleanup
      BY <2>1, <3>4, LaunchAssumption DEF Proc, waits, Runs, Ended, Ends, Cleanup, InWait,
           Early, MapInv, options
    <3> QED
      BY <2>8, <3>1, <3>2, <3>3, <3>4
  <2>9. CASE Unshare \/ WaitParent \/ Chroot \/ ForkInit \/ WaitInit
    <3>1. CASE Unshare
      BY <2>1, <3>1, LaunchAssumption DEF Proc, procs, waits, facts, Runs, Goto, Ended, Ends,
           Exit, Unshare, InWait, Early, MapInv, ProcsTyped, IInv, options
    <3>2. CASE WaitParent
      BY <2>1, <3>2, LaunchAssumption DEF Proc, procs, waits, facts, Runs, Goto, Ended, Ends,
           Exit, WaitParent, InWait, Early, MapInv, ProcsTyped, IInv, options
    <3>3. CASE Chroot
      BY <2>1, <3>3, LaunchAssumption DEF Proc, procs, waits, Runs, Goto, Ended, Ends, Exit,
           ParentWrites, FileSystemServed, Chroot, InWait, Early, MapInv, Labels, ProcsTyped,
           Group, FactsTyped, IInv, options
    <3>4. CASE ForkInit
      BY <2>1, <3>4, LaunchAssumption DEF Proc, waits, facts, Runs, Fork, ForkInit, InWait,
           Early, MapInv, ProcsTyped, IInv, options
    <3>5. CASE WaitInit
      BY <2>1, <3>5, LaunchAssumption DEF Proc, procs, pipes, facts, Runs, At, Goto, StartWait,
         WaitInit, InWait, Early, MapInv, Labels, ProcsTyped, Group, Default, WaitsTyped,
         FactsTyped, Control, Waits, Order, MapCount, HelpersSucceed, IInv, options
    <3> QED
      BY <2>9, <3>1, <3>2, <3>3, <3>4, <3>5
  <2>10. CASE SetupInit \/ ForkCommand \/ RunCommand
    <3>1. CASE SetupInit
      BY <2>1, <3>1, LaunchAssumption DEF Proc, parent, procs, waits, pipes, facts, Runs, At,
         Goto, Ended, Seen, Ends, Exit, SetupInit, InWait, Early, MapInv, Labels, ProcsTyped,
         Group, Default, WaitsTyped, FactsTyped, Control, Waits, Order, MapCount,
         HelpersSucceed, IInv, options
    <3>2. CASE ForkCommand
      BY <2>1, <3>2, LaunchAssumption DEF Proc, waits, pipes, facts, Runs, At, Fork,
         ForkCommand, InWait, Early, MapInv, Labels, ProcsTyped, Group, Default, WaitsTyped,
         FactsTyped, Control, Waits, Order, MapCount, HelpersSucceed, IInv, options
    <3>3. CASE RunCommand
      BY <2>1, <3>3, LaunchAssumption DEF Proc, procs, pipes, facts, Runs, At, StartWait,
         RunCommand, InWait, Early, MapInv, Labels, ProcsTyped, Group, Default, WaitsTyped,
         FactsTyped, Control, Waits, Order, MapCount, HelpersSucceed, IInv, options
    <3> QED
      BY <2>10, <3>1, <3>2, <3>3
  <2>11. CASE ExitMain \/ ExitMid \/ ExitInit \/ ExitCommand
    <3>1. CASE ExitMain
      BY <2>1, <3>1, LaunchAssumption DEF Proc, parent, waits, pipes, facts, Runs, At, Ended,
         Seen, Ends, Exit, ExitMain, InWait, Early, MapInv, Labels, ProcsTyped, Group, Default,
         WaitsTyped, FactsTyped, Control, Waits, Order, MapCount, HelpersSucceed, IInv, options
    <3>2. CASE ExitMid
      BY <2>1, <3>2, LaunchAssumption DEF Proc, waits, Runs, Ended, Ends, Exit, ExitMid,
           InWait, MapInv, options
    <3>3. CASE ExitInit
      BY <2>1, <3>3, LaunchAssumption DEF Proc, parent, waits, pipes, facts, Runs, At, Ended,
         Seen, Ends, Exit, ExitInit, InWait, Early, MapInv, Labels, ProcsTyped, Group, Default,
         WaitsTyped, FactsTyped, Control, Waits, Order, MapCount, HelpersSucceed, IInv, options
    <3>4. CASE ExitCommand
      BY <2>1, <3>4, LaunchAssumption DEF Proc, parent, waits, pipes, facts, Runs, At, Ended,
         Seen, Ends, Exit, ExitCommand, InWait, Early, MapInv, Labels, ProcsTyped, Group,
         Default, WaitsTyped, FactsTyped, Control, Waits, Order, MapCount, HelpersSucceed,
         IInv, options
    <3> QED
      BY <2>11, <3>1, <3>2, <3>3, <3>4
  <2>12. CASE Waitpid(p)
    <3>1. p \in {"main", "mid", "pid1"}
      BY <2>12 DEF IInv, Waits, InWait, Waitpid, Proc
    <3>2. CASE p = "main"
      BY <2>1, <2>12, <3>2, LaunchAssumption DEF pipes, facts, Runs, Goto, Waitpid, InWait, Early,
             MapInv, Proc, Labels, ProcsTyped, Group, Default, WaitsTyped, FactsTyped, Control,
             Waits, Order, MapCount, HelpersSucceed, IInv, options
    <3>3. CASE p = "mid"
      BY <2>1, <2>12, <3>3, LaunchAssumption DEF pipes, facts, Runs, Goto, Waitpid, InWait, Early,
             MapInv, Proc, Labels, ProcsTyped, Group, Default, WaitsTyped, FactsTyped, Control,
             Waits, Order, MapCount, HelpersSucceed, IInv, options
    <3>4. CASE p = "pid1"
      BY <2>1, <2>12, <3>4, LaunchAssumption DEF pipes, facts, Runs, Goto, Waitpid, InWait, Early,
             MapInv, Proc, Labels, ProcsTyped, Group, Default, WaitsTyped, FactsTyped, Control,
             Waits, Order, MapCount, HelpersSucceed, IInv, options
    <3>. QED BY <3>1, <3>2, <3>3, <3>4
  <2>13. CASE Sigchld(p)
    <3>1. CASE p = "main"
      BY <2>1, <2>13, <3>1, LaunchAssumption DEF waits, pipes, facts, Runs, Goto, ChildReads,
             AfterRead, Interrupted, Sigchld, InWait, Early, MapInv, Proc, Labels, ProcsTyped,
             Group, Default, WaitsTyped, FactsTyped, Control, Waits, Order, MapCount,
             HelpersSucceed, IInv, options
    <3>2. CASE p = "mid"
      BY <2>1, <2>13, <3>2, LaunchAssumption DEF waits, pipes, facts, Runs, Goto, ChildReads,
             AfterRead, Interrupted, Sigchld, InWait, Early, MapInv, Proc, Labels, ProcsTyped,
             Group, Default, WaitsTyped, FactsTyped, Control, Waits, Order, MapCount,
             HelpersSucceed, IInv, options
    <3>. QED BY <2>13, <3>1, <3>2 DEF Sigchld
  <2>14. CASE SigchldInit
    BY <2>1, <2>14, LaunchAssumption DEF waits, pipes, facts, Runs, Goto, ChildReads, AfterRead,
           Interrupted, SigchldInit, InWait, Early, MapInv, Proc, Labels, ProcsTyped, Group,
           Default, WaitsTyped, FactsTyped, Control, Waits, Order, MapCount, HelpersSucceed, IInv,
           options
  <2>15. CASE Sigterm(p)
    <3>1. Runs(p) /\ "TERM" \in pend[p]
      BY <2>15, SigtermCases
    <3>2. CASE /\ p = "fuse" /\ pc[p] # "setup"
               /\ Goto(p, IF pc[p] = "cleanup" THEN "cleanup" ELSE "teardown")
               /\ pend' = [q \in Proc |-> IF q = p THEN pend[q] \ {"TERM"}
                              ELSE pend[q] \cup IF q \in Targets({"mid"}) THEN {"TERM"} ELSE {}]
               /\ UNCHANGED <<life, status, chld, waits, pipes, facts>>
      BY <2>1, <3>1, <3>2, LaunchAssumption DEF Runs, Goto, Proc, Group, Targets, waits, pipes,
             facts, InWait, Early, MapInv, Labels, ProcsTyped, Default, WaitsTyped, FactsTyped,
             Control, Waits, Order, MapCount, HelpersSucceed, IInv, options
    <3>3. CASE /\ p \in {"main", "mid", "pid1"} /\ relay[p] # Default
               /\ Interrupted(p)
               /\ pend' = [q \in Proc |-> (IF q = p THEN pend[q] \ {"TERM"} ELSE pend[q])
                              \cup IF q \in Targets(relay[p]) THEN {"TERM"} ELSE {}]
               /\ UNCHANGED <<life, status, chld, waits, pipes, facts>>
      <4>1. CASE p = "main"
        BY <2>1, <3>1, <3>3, <4>1, LaunchAssumption DEF Runs, Goto, ChildReads, AfterRead,
               Interrupted, Proc, Group, Targets, waits, pipes, facts, InWait, Early, MapInv,
               Labels, ProcsTyped, Default, WaitsTyped, FactsTyped, Control, Waits, Order,
               MapCount, HelpersSucceed, IInv, options
      <4>2. CASE p \in {"mid", "pid1"}
        <5>1. /\ \A q \in {"main", "fuse", "helper"} : pend'[q] = pend[q] /\ pc'[q] = pc[q]
              /\ UNCHANGED pc \/ (pc[p] = "waiting" /\ Goto(p, "wait"))
          BY <3>3, <4>2 DEF IInv, ProcsTyped, Waits, Control, Targets, Interrupted, Goto, Proc, Default, Group
        <5>. QED
          BY <2>1, <3>1, <3>3, <4>2, <5>1, LaunchAssumption DEF waits, pipes, facts, Goto, Runs,
                 InWait, Early, MapInv, Proc, Labels, ProcsTyped, Control, HelpersSucceed, IInv,
                 options
      <4>. QED BY <3>3, <4>1, <4>2
    <3>4. CASE /\ p \in {"main", "mid", "helper", "cmd"} /\ relay[p] = Default
               /\ Exit(p, 128 + 15)
      <4>1. CASE p = "main"
        BY <2>1, <3>1, <3>4, <4>1, LaunchAssumption DEF Proc, parent, waits, pipes, facts, Runs,
               Ended, Seen, Ends, Exit, InWait, Early, MapInv, Labels, ProcsTyped, Group, Default,
               WaitsTyped, FactsTyped, Control, Waits, Order, MapCount, HelpersSucceed, IInv,
               options
      <4>2. CASE p = "mid"
        <5>1. pc["mid"] \notin {"wait", "waiting", "exit"}
          BY <3>4, <4>2 DEF IInv, Waits, Default
        <5>. QED
          BY <2>1, <3>1, <3>4, <4>2, <5>1, LaunchAssumption DEF Proc, parent, waits, pipes, facts,
                 Runs, Ended, Seen, Ends, Exit, InWait, Early, MapInv, Labels, ProcsTyped, Group,
                 Default, WaitsTyped, FactsTyped, Control, Waits, Order, MapCount, HelpersSucceed,
                 IInv, options
      <4>3. CASE p = "helper"
        <5>1. MaxTerm # 0 /\ ~useSub
          BY <3>1, <4>3, LaunchAssumption DEF MapInv, HelpersSucceed, IInv, FactsTyped
        <5>. QED
          BY <2>1, <3>1, <3>4, <4>3, <5>1 DEF Exit, Ends, Ended, Seen, parent, Runs, MapInv, InWait, Early, IInv,
             ProcsTyped, Proc, waits, facts, options
      <4>4. CASE p = "cmd"
        BY <2>1, <3>1, <3>4, <4>4, LaunchAssumption DEF Proc, parent, waits, pipes, facts, Runs,
               Ended, Seen, Ends, Exit, InWait, Early, MapInv, Labels, ProcsTyped, Group, Default,
               WaitsTyped, FactsTyped, Control, Waits, Order, MapCount, HelpersSucceed, IInv,
               options
      <4>. QED BY <3>4, <4>1, <4>2, <4>3, <4>4
    <3>5. CASE /\ p = "pid1"
               /\ pend' = [pend EXCEPT ![p] = @ \ {"TERM"}]
               /\ UNCHANGED <<life, pc, status, chld, waits, pipes, facts>>
      BY <2>1, <3>5, LaunchAssumption DEF Runs, waits, pipes, facts, InWait, Early, MapInv, Proc,
             Labels, ProcsTyped, Group, Default, WaitsTyped, FactsTyped, Control, Waits, Order,
             MapCount, HelpersSucceed, IInv, options
    <3>. QED BY <2>15, <3>2, <3>3, <3>4, <3>5, SigtermCases
  <2>. QED BY <1>3, <2>2, <2>3, <2>4, <2>5, <2>6, <2>7, <2>8, <2>9, <2>10, <2>11, <2>12, <2>13, <2>14, <2>15 DEF Turn, Handler, MainStep
<1>. QED BY <1>1, <1>2, <1>3 DEF Next


LEMMA ChrootStep ==
    ASSUME Undisturbed, IInv, ChrootInv, [Next]_vars
    PROVE  ChrootInv'
<1>1. CASE SendTerm
  BY <1>1, LaunchAssumption DEF Proc, Group, waits, pipes, facts, Runs, Targets, Send, SendTerm,
         Default, InWait, Late, ChrootInv, Labels, ProcsTyped, WaitsTyped, FactsTyped, Control,
         Waits, Early, Order, Pipes, FuseSetsUp, Undisturbed, IInv, options
<1>2. CASE UNCHANGED vars
  BY <1>2 DEF Default, Runs, InWait, Late, ChrootInv, vars
<1>3. ASSUME NEW p \in Proc, Turn(p) PROVE ChrootInv'
  <2>1. UNCHANGED options
    BY <1>3 DEF Turn
  <2>2. CASE ForkChild \/ WaitChild \/ MapSingle \/ MapSub \/ Mapped
    <3>1. CASE ForkChild
      BY <2>1, <3>1, LaunchAssumption DEF waits, pipes, facts, Runs, At, Fork, ForkChild,
         Default, InWait, Late, ChrootInv, Proc, Labels, ProcsTyped, Group, WaitsTyped,
         FactsTyped, Control, Waits, Early, Order, Pipes, FuseSetsUp, Undisturbed, IInv,
         options
    <3>2. CASE WaitChild
      BY <2>1, <3>2, LaunchAssumption DEF waits, pipes, facts, Runs, At, procs, Goto,
         ChildReads, AfterRead, WaitChild, Default, InWait, Late, ChrootInv, Proc, Labels,
         ProcsTyped, Group, WaitsTyped, FactsTyped, Control, Waits, Early, Order, Pipes,
         FuseSetsUp, Undisturbed, IInv, options
    <3>3. CASE MapSingle
      BY <2>1, <3>3, LaunchAssumption DEF waits, At, procs, Goto, MapSingle, InWait, Late,
           ChrootInv, Proc, ProcsTyped, IInv
    <3>4. CASE MapSub
      BY <2>1, <3>4, LaunchAssumption DEF pipes, facts, Runs, At, Fork, StartWait, MapSub,
         Default, InWait, Late, ChrootInv, Proc, Labels, ProcsTyped, Group, WaitsTyped,
         FactsTyped, Control, Waits, Early, Order, Pipes, FuseSetsUp, Undisturbed, IInv,
         options
    <3>5. CASE Mapped
      BY <2>1, <3>5, LaunchAssumption DEF waits, pipes, facts, Runs, At, procs, Goto, Mapped,
         Default, InWait, Late, ChrootInv, Proc, Labels, ProcsTyped, Group, WaitsTyped,
         FactsTyped, Control, Waits, Early, Order, Pipes, FuseSetsUp, Undisturbed, IInv,
         options
    <3> QED
      BY <2>2, <3>1, <3>2, <3>3, <3>4, <3>5
  <2>3. CASE KillChild \/ SetChild \/ RunFuse \/ RunChild
    <3>1. CASE KillChild
      BY <2>1, <3>1, LaunchAssumption DEF procs, waits, pipes, facts, Runs, At, KillChild,
         Proc, Default, InWait, Late, ChrootInv, Labels, ProcsTyped, Group, WaitsTyped,
         FactsTyped, Control, Waits, Early, Order, Pipes, FuseSetsUp, Undisturbed, IInv,
         options
    <3>2. CASE SetChild
      BY <2>1, <3>2, LaunchAssumption DEF procs, waits, At, Goto, SetChild, InWait, Late,
           ChrootInv, options
    <3>3. CASE RunFuse
      BY <2>1, <3>3, LaunchAssumption DEF waits, pipes, Runs, At, Fork, RunFuse, Proc, Default,
         InWait, Late, ChrootInv, Labels, ProcsTyped, Group, WaitsTyped, FactsTyped, Control,
         Waits, Early, Order, Pipes, FuseSetsUp, Undisturbed, IInv, options
    <3>4. CASE RunChild
      BY <2>1, <3>4, LaunchAssumption DEF procs, waits, At, Goto, Proc, Ended, Ends, Exit,
           ChildReads, RunChild, InWait, Late, ChrootInv, ProcsTyped, IInv, options
    <3> QED
      BY <2>3, <3>1, <3>2, <3>3, <3>4
  <2>4. CASE Preclean \/ Rmdir
    <3>1. CASE Preclean
      BY <2>1, <3>1, LaunchAssumption DEF pipes, facts, Runs, At, Fork, StartWait, Preclean,
         Default, InWait, Late, ChrootInv, Proc, Labels, ProcsTyped, Group, WaitsTyped,
         FactsTyped, Control, Waits, Early, Order, Pipes, FuseSetsUp, Undisturbed, IInv,
         options
    <3>2. CASE Rmdir
      BY <2>1, <3>2, LaunchAssumption DEF Runs, At, procs, Goto, Rmdir, InWait, Late, ChrootInv
    <3> QED
      BY <2>4, <3>1, <3>2
  <2>5. CASE WaitContainer
    BY <2>1, <2>5, LaunchAssumption DEF Group, procs, pipes, facts, Runs, At, Goto, StartWait,
           WaitContainer, Default, InWait, Late, ChrootInv, Proc, Labels, ProcsTyped, WaitsTyped,
           FactsTyped, Control, Waits, Early, Order, Pipes, FuseSetsUp, Undisturbed, IInv, options
  <2>6. CASE EndFuse
    BY <2>1, <2>6, LaunchAssumption DEF Proc, Group, Runs, At, Goto, Targets, Send, StartWait,
         EndFuse, InWait, Late, ChrootInv, ProcsTyped, WaitsTyped, IInv
  <2>7. CASE RunHelper
    BY <2>1, <2>7, LaunchAssumption DEF parent, waits, pipes, Runs, At, Seen, RunHelper, Default,
           InWait, Late, ChrootInv, Proc, Labels, ProcsTyped, Group, WaitsTyped, FactsTyped,
           Control, Waits, Early, Order, Pipes, FuseSetsUp, Undisturbed, IInv, options
  <2>8. CASE SetupFuse \/ InitFuse \/ TeardownFuse \/ Cleanup
    <3>1. CASE SetupFuse
      BY <2>1, <3>1, LaunchAssumption DEF Proc, parent, procs, waits, pipes, facts, Runs, At,
         Goto, Ended, Seen, Ends, Exit, SetupFuse, Default, InWait, Late, ChrootInv, Labels,
         ProcsTyped, Group, WaitsTyped, FactsTyped, Control, Waits, Early, Order, Pipes,
         FuseSetsUp, Undisturbed, IInv, options
    <3>2. CASE InitFuse
      BY <2>1, <3>2, LaunchAssumption DEF Proc, procs, waits, pipes, facts, Runs, At, Goto,
         ChildReads, InitFuse, Default, InWait, Late, ChrootInv, Labels, ProcsTyped, Group,
         WaitsTyped, FactsTyped, Control, Waits, Early, Order, Pipes, FuseSetsUp, Undisturbed,
         IInv, options
    <3>3. CASE TeardownFuse
      BY <2>1, <3>3, LaunchAssumption DEF procs, waits, Runs, At, Goto, TeardownFuse, InWait,
           Late, ChrootInv
    <3>4. CASE Cleanup
      BY <2>1, <3>4, LaunchAssumption DEF Proc, waits, Runs, At, Ends, Cleanup, InWait, Late,
           ChrootInv
    <3> QED
      BY <2>8, <3>1, <3>2, <3>3, <3>4
  <2>9. CASE Unshare \/ WaitParent \/ Chroot \/ ForkInit \/ WaitInit
    <3>1. CASE Unshare
      BY <2>1, <3>1, LaunchAssumption DEF Proc, parent, procs, waits, facts, Runs, Goto, Ended,
           Ends, Exit, Unshare, InWait, Late, ChrootInv, ProcsTyped, IInv, options
    <3>2. CASE WaitParent
      BY <2>1, <3>2, LaunchAssumption DEF Proc, procs, waits, pipes, facts, At, Goto, Ended,
           Seen, Ends, Exit, ParentWrites, WaitParent, InWait, Late, ChrootInv, ProcsTyped,
           Group, IInv, options
    <3>3. CASE Chroot
      BY <2>1, <3>3, LaunchAssumption DEF Proc, parent, procs, waits, Runs, Goto, Ended, Ends,
           Exit, Chroot, InWait, Late, ChrootInv, ProcsTyped, Group, WaitsTyped, Undisturbed,
           IInv, options
    <3>4. CASE ForkInit
      BY <2>1, <3>4, LaunchAssumption DEF Proc, waits, facts, At, Fork, ForkInit, InWait, Late,
           ChrootInv, ProcsTyped, IInv, options
    <3>5. CASE WaitInit
      BY <2>1, <3>5, LaunchAssumption DEF procs, facts, At, Goto, StartWait, WaitInit, InWait,
           Late, ChrootInv, options
    <3> QED
      BY <2>9, <3>1, <3>2, <3>3, <3>4, <3>5
  <2>10. CASE SetupInit \/ ForkCommand \/ RunCommand
    <3>1. CASE SetupInit
      BY <2>1, <3>1, LaunchAssumption DEF Proc, parent, procs, waits, pipes, facts, Runs, At,
         Goto, Ended, Seen, Ends, Exit, SetupInit, Default, InWait, Late, ChrootInv, Labels,
         ProcsTyped, Group, WaitsTyped, FactsTyped, Control, Waits, Early, Order, Pipes,
         FuseSetsUp, Undisturbed, IInv, options
    <3>2. CASE ForkCommand
      BY <2>1, <3>2, LaunchAssumption DEF Proc, waits, facts, Runs, Fork, ForkCommand, InWait,
           Late, ChrootInv, ProcsTyped, IInv, options
    <3>3. CASE RunCommand
      BY <2>1, <3>3, LaunchAssumption DEF Proc, procs, pipes, facts, Runs, At, StartWait,
         RunCommand, Default, InWait, Late, ChrootInv, Labels, ProcsTyped, Group, WaitsTyped,
         FactsTyped, Control, Waits, Early, Order, Pipes, FuseSetsUp, Undisturbed, IInv,
         options
    <3> QED
      BY <2>10, <3>1, <3>2, <3>3
  <2>11. CASE ExitMain
    BY <2>1, <2>11, LaunchAssumption DEF Proc, facts, Runs, At, Ends, Exit, ExitMain, InWait,
         Late, ChrootInv
  <2>12. CASE ExitMid
    BY <2>1, <2>12, LaunchAssumption DEF Proc, waits, Runs, Ended, Ends, Exit, ExitMid, InWait,
         Late, ChrootInv, options
  <2>13. CASE ExitInit \/ ExitCommand
    <3>1. CASE ExitInit
      BY <2>1, <3>1, LaunchAssumption DEF Proc, parent, waits, pipes, facts, Runs, At, Ended,
         Seen, Ends, Exit, ExitInit, Default, InWait, Late, ChrootInv, Labels, ProcsTyped,
         Group, WaitsTyped, FactsTyped, Control, Waits, Early, Order, Pipes, FuseSetsUp,
         Undisturbed, IInv, options
    <3>2. CASE ExitCommand
      BY <2>1, <3>2, LaunchAssumption DEF Proc, parent, waits, pipes, facts, Runs, At, Ended,
         Seen, Ends, Exit, ExitCommand, Default, InWait, Late, ChrootInv, Labels, ProcsTyped,
         Group, WaitsTyped, FactsTyped, Control, Waits, Early, Order, Pipes, FuseSetsUp,
         Undisturbed, IInv, options
    <3> QED
      BY <2>13, <3>1, <3>2
  <2>14. CASE Waitpid(p)
    <3>1. p \in {"main", "mid", "pid1"}
      BY <2>14 DEF IInv, Waits, InWait, Waitpid, Proc
    <3>2. CASE p = "main"
      BY <2>1, <2>14, <3>2, LaunchAssumption DEF pipes, facts, Runs, Goto, Waitpid, Default,
             InWait, Late, ChrootInv, Proc, Labels, ProcsTyped, Group, WaitsTyped, FactsTyped,
             Control, Waits, Early, Order, Pipes, FuseSetsUp, Undisturbed, IInv, options
    <3>3. CASE p = "mid"
      BY <2>1, <2>14, <3>3, LaunchAssumption DEF pipes, facts, Runs, Goto, Waitpid, Default,
             InWait, Late, ChrootInv, Proc, Labels, ProcsTyped, Group, WaitsTyped, FactsTyped,
             Control, Waits, Early, Order, Pipes, FuseSetsUp, Undisturbed, IInv, options
    <3>4. CASE p = "pid1"
      BY <2>1, <2>14, <3>4, LaunchAssumption DEF facts, Runs, Goto, Waitpid, InWait, Late,
           ChrootInv, Proc, ProcsTyped, Waits, IInv, options
    <3>. QED BY <3>1, <3>2, <3>3, <3>4
  <2>15. CASE Sigchld(p)
    <3>1. CASE p = "main"
      BY <2>1, <2>15, <3>1, LaunchAssumption DEF waits, pipes, facts, Runs, Goto, ChildReads,
             AfterRead, Interrupted, Sigchld, Default, InWait, Late, ChrootInv, Proc, Labels,
             ProcsTyped, Group, WaitsTyped, FactsTyped, Control, Waits, Early, Order, Pipes,
             FuseSetsUp, Undisturbed, IInv, options
    <3>2. CASE p = "mid"
      BY <2>1, <2>15, <3>2, LaunchAssumption DEF waits, pipes, facts, Runs, Goto, ChildReads,
             AfterRead, Interrupted, Sigchld, Default, InWait, Late, ChrootInv, Proc, Labels,
             ProcsTyped, Group, WaitsTyped, FactsTyped, Control, Waits, Early, Order, Pipes,
             FuseSetsUp, Undisturbed, IInv, options
    <3>. QED BY <2>15, <3>1, <3>2 DEF Sigchld
  <2>16. CASE SigchldInit
    BY <2>1, <2>16, LaunchAssumption DEF waits, facts, Runs, Goto, Interrupted, SigchldInit,
         InWait, Late, ChrootInv, Proc, ProcsTyped, IInv, options
  <2>17. CASE Sigterm(p)
    <3>1. Runs(p) /\ "TERM" \in pend[p]
      BY <2>17, SigtermCases
    <3>2. CASE /\ p = "fuse" /\ pc[p] # "setup"
               /\ Goto(p, IF pc[p] = "cleanup" THEN "cleanup" ELSE "teardown")
               /\ pend' = [q \in Proc |-> IF q = p THEN pend[q] \ {"TERM"}
                              ELSE pend[q] \cup IF q \in Targets({"mid"}) THEN {"TERM"} ELSE {}]
               /\ UNCHANGED <<life, status, chld, waits, pipes, facts>>
      BY <2>1, <3>1, <3>2, LaunchAssumption DEF Runs, Goto, Proc, Group, Targets, waits, pipes,
             facts, Default, InWait, Late, ChrootInv, Labels, ProcsTyped, WaitsTyped, FactsTyped,
             Control, Waits, Early, Order, Pipes, FuseSetsUp, Undisturbed, IInv, options
    <3>3. CASE /\ p \in {"main", "mid", "pid1"} /\ relay[p] # Default
               /\ Interrupted(p)
               /\ pend' = [q \in Proc |-> (IF q = p THEN pend[q] \ {"TERM"} ELSE pend[q])
                              \cup IF q \in Targets(relay[p]) THEN {"TERM"} ELSE {}]
               /\ UNCHANGED <<life, status, chld, waits, pipes, facts>>
      <4>1. CASE p = "main"
        <5>1. Late /\ (UNCHANGED pc \/ (pc["main"] = "waiting" /\ Goto("main", "wait")))
          BY <3>1, <3>3, <4>1, LaunchAssumption DEF ChrootInv, Undisturbed, IInv, FactsTyped, Late, InWait,
             Interrupted
        <5>2. Late'
          BY <3>3, <5>1 DEF Late, InWait, IInv, ProcsTyped, Goto, waits, Proc
        <5>. QED
          BY <2>1, <3>1, <3>3, <4>1, <5>1, <5>2 DEF ChrootInv, IInv, ProcsTyped, Runs, Goto, InWait, Proc,
             waits, facts, options, Late, Targets
      <4>2. CASE p \in {"mid", "pid1"}
        <5>1. /\ \A q \in {"main", "fuse", "helper"} : pend'[q] = pend[q] /\ pc'[q] = pc[q]
              /\ UNCHANGED pc \/ (pc[p] = "waiting" /\ Goto(p, "wait"))
          BY <3>3, <4>2 DEF IInv, ProcsTyped, Waits, Control, Targets, Interrupted, Goto, Proc, Default, Group
        <5>. QED
          BY <2>1, <3>1, <3>3, <4>2, <5>1, LaunchAssumption DEF waits, pipes, facts, Goto,
                 Default, Runs, InWait, Late, ChrootInv, Proc, Labels, ProcsTyped, Control,
                 FuseSetsUp, Undisturbed, IInv, options
      <4>. QED BY <3>3, <4>1, <4>2
    <3>4. CASE /\ p \in {"main", "mid", "helper", "cmd"} /\ relay[p] = Default
               /\ Exit(p, 128 + 15)
      <4>1. CASE p = "main"
        BY <2>1, <3>1, <3>4, <4>1, LaunchAssumption DEF Proc, parent, waits, pipes, facts, Runs,
               Ended, Seen, Ends, Exit, Default, InWait, Late, ChrootInv, Labels, ProcsTyped,
               Group, WaitsTyped, FactsTyped, Control, Waits, Early, Order, Pipes, FuseSetsUp,
               Undisturbed, IInv, options
      <4>2. CASE p = "mid"
        <5>1. pc["mid"] \notin {"wait", "waiting", "exit"}
          BY <3>4, <4>2 DEF IInv, Waits, Default
        <5>. QED
          BY <2>1, <3>1, <3>4, <4>2, <5>1, LaunchAssumption DEF Proc, parent, waits, pipes, facts,
                 Runs, Ended, Seen, Ends, Exit, Default, InWait, Late, ChrootInv, Labels,
                 ProcsTyped, Group, WaitsTyped, FactsTyped, Control, Waits, Early, Order, Pipes,
                 FuseSetsUp, Undisturbed, IInv, options
      <4>3. CASE p = "helper"
        BY <2>1, <3>1, <3>4, <4>3, LaunchAssumption DEF Proc, parent, waits, facts, Runs,
             Ended, Ends, Exit, InWait, Late, ChrootInv, Waits, IInv, options
      <4>4. CASE p = "cmd"
        BY <2>1, <3>1, <3>4, <4>4, LaunchAssumption DEF Proc, parent, waits, facts, Runs,
             Ended, Ends, Exit, InWait, Late, ChrootInv, options
      <4>. QED BY <3>4, <4>1, <4>2, <4>3, <4>4
    <3>5. CASE /\ p = "pid1"
               /\ pend' = [pend EXCEPT ![p] = @ \ {"TERM"}]
               /\ UNCHANGED <<life, pc, status, chld, waits, pipes, facts>>
      BY <2>1, <3>5, LaunchAssumption DEF Runs, waits, facts, InWait, Late, ChrootInv, options
    <3>. QED BY <2>17, <3>2, <3>3, <3>4, <3>5, SigtermCases
  <2>. QED BY <1>3, <2>2, <2>3, <2>4, <2>5, <2>6, <2>7, <2>8, <2>9, <2>10, <2>11, <2>12, <2>13, <2>14, <2>15, <2>16, <2>17 DEF Turn, Handler, MainStep
<1>. QED BY <1>1, <1>2, <1>3 DEF Next


LEMMA TempdirStep ==
    ASSUME FuseSetsUp, IInv, TempdirInv, [Next]_vars
    PROVE  TempdirInv'
<1>1. CASE SendTerm
  BY <1>1, LaunchAssumption DEF Proc, Group, waits, pipes, facts, Runs, Targets, Send, SendTerm,
         TempdirInv, Labels, ProcsTyped, Default, WaitsTyped, FactsTyped, Control, InWait, Waits,
         Early, Order, FuseSetsUp, IInv, options
<1>2. CASE UNCHANGED vars
  BY <1>2 DEF Runs, TempdirInv, vars
<1>3. ASSUME NEW p \in Proc, Turn(p) PROVE TempdirInv'
  <2>1. UNCHANGED options
    BY <1>3 DEF Turn
  <2>2. CASE ForkChild \/ WaitChild \/ MapSingle \/ MapSub \/ Mapped
    <3>1. CASE ForkChild
      BY <2>1, <3>1, LaunchAssumption DEF waits, pipes, facts, Runs, At, Fork, ForkChild,
         TempdirInv, Proc, Labels, ProcsTyped, Group, Default, WaitsTyped, FactsTyped, Control,
         InWait, Waits, Early, Order, FuseSetsUp, IInv, options
    <3>2. CASE WaitChild
      BY <2>1, <3>2, LaunchAssumption DEF waits, pipes, facts, Runs, At, procs, Goto,
         ChildReads, AfterRead, WaitChild, TempdirInv, Proc, Labels, ProcsTyped, Group,
         Default, WaitsTyped, FactsTyped, Control, InWait, Waits, Early, Order, FuseSetsUp,
         IInv, options
    <3>3. CASE MapSingle
      BY <2>1, <3>3, LaunchAssumption DEF Runs, procs, Goto, MapSingle, TempdirInv, Proc,
           ProcsTyped, IInv
    <3>4. CASE MapSub
      BY <2>1, <3>4, LaunchAssumption DEF pipes, facts, Runs, At, Fork, StartWait, MapSub,
         TempdirInv, Proc, Labels, ProcsTyped, Group, Default, WaitsTyped, FactsTyped, Control,
         InWait, Waits, Early, Order, FuseSetsUp, IInv, options
    <3>5. CASE Mapped
      BY <2>1, <3>5, LaunchAssumption DEF waits, pipes, facts, Runs, At, procs, Goto, Mapped,
         TempdirInv, Proc, Labels, ProcsTyped, Group, Default, WaitsTyped, FactsTyped, Control,
         InWait, Waits, Early, Order, FuseSetsUp, IInv, options
    <3> QED
      BY <2>2, <3>1, <3>2, <3>3, <3>4, <3>5
  <2>3. CASE KillChild \/ SetChild \/ RunFuse \/ RunChild
    <3>1. CASE KillChild
      BY <2>1, <3>1, LaunchAssumption DEF procs, waits, pipes, facts, Runs, At, KillChild,
         Proc, TempdirInv, Labels, ProcsTyped, Group, Default, WaitsTyped, FactsTyped, Control,
         InWait, Waits, Early, Order, FuseSetsUp, IInv, options
    <3>2. CASE SetChild
      BY <2>1, <3>2, LaunchAssumption DEF procs, Runs, Goto, SetChild, TempdirInv
    <3>3. CASE RunFuse
      BY <2>1, <3>3, LaunchAssumption DEF waits, pipes, Runs, At, Fork, RunFuse, Proc,
         TempdirInv, Labels, ProcsTyped, Group, Default, WaitsTyped, FactsTyped, Control,
         InWait, Waits, Early, Order, FuseSetsUp, IInv, options
    <3>4. CASE RunChild
      BY <2>1, <3>4, LaunchAssumption DEF facts, Exit, RunChild, TempdirInv, Order, IInv
    <3> QED
      BY <2>3, <3>1, <3>2, <3>3, <3>4
  <2>4. CASE Preclean \/ Rmdir \/ WaitContainer \/ EndFuse
    <3>1. CASE Preclean
      BY <2>1, <3>1, LaunchAssumption DEF pipes, facts, Runs, At, Fork, StartWait, Preclean,
         Group, Proc, TempdirInv, Labels, ProcsTyped, Default, WaitsTyped, FactsTyped, Control,
         InWait, Waits, Early, Order, FuseSetsUp, IInv, options
    <3>2. CASE Rmdir
      BY <2>1, <3>2, LaunchAssumption DEF pipes, Runs, At, procs, waits, Goto, RemoveNewroot,
         Rmdir, Group, Proc, TempdirInv, Labels, ProcsTyped, Default, WaitsTyped, FactsTyped,
         Control, InWait, Waits, Early, Order, FuseSetsUp, IInv, options
    <3>3. CASE WaitContainer
      BY <2>1, <3>3, LaunchAssumption DEF pipes, facts, Runs, At, StartWait, procs, Goto,
         Group, WaitContainer, Proc, TempdirInv, Labels, ProcsTyped, Default, WaitsTyped,
         FactsTyped, Control, InWait, Waits, Early, Order, FuseSetsUp, IInv, options
    <3>4. CASE EndFuse
      BY <2>1, <3>4, LaunchAssumption DEF pipes, Runs, At, StartWait, waits, Goto, Group, Proc,
         Targets, Send, EndFuse, TempdirInv, Labels, ProcsTyped, Default, WaitsTyped,
         FactsTyped, Control, InWait, Waits, Early, Order, FuseSetsUp, IInv, options
    <3> QED
      BY <2>4, <3>1, <3>2, <3>3, <3>4
  <2>5. CASE RunHelper
    BY <2>1, <2>5, LaunchAssumption DEF parent, waits, pipes, Runs, At, Seen, RunHelper,
           TempdirInv, Proc, Labels, ProcsTyped, Group, Default, WaitsTyped, FactsTyped, Control,
           InWait, Waits, Early, Order, FuseSetsUp, IInv, options
  <2>6. CASE SetupFuse \/ InitFuse \/ TeardownFuse \/ Cleanup
    <3>1. CASE SetupFuse
      BY <2>1, <3>1, LaunchAssumption DEF Proc, parent, procs, waits, pipes, facts, Runs, At,
         Goto, Ended, Seen, Ends, Exit, SetupFuse, TempdirInv, Labels, ProcsTyped, Group,
         Default, WaitsTyped, FactsTyped, Control, InWait, Waits, Early, Order, FuseSetsUp,
         IInv, options
    <3>2. CASE InitFuse
      BY <2>1, <3>2, LaunchAssumption DEF Proc, procs, waits, pipes, facts, Runs, At, Goto,
         ChildReads, InitFuse, TempdirInv, Labels, ProcsTyped, Group, Default, WaitsTyped,
         FactsTyped, Control, InWait, Waits, Early, Order, FuseSetsUp, IInv, options
    <3>3. CASE TeardownFuse
      BY <2>1, <3>3, LaunchAssumption DEF Proc, procs, waits, pipes, Runs, At, Goto,
         TeardownFuse, TempdirInv, Labels, ProcsTyped, Group, Default, WaitsTyped, FactsTyped,
         Control, InWait, Waits, Early, Order, FuseSetsUp, IInv, options
    <3>4. CASE Cleanup
      BY <2>1, <3>4, LaunchAssumption DEF At, RemoveNewroot, Cleanup, TempdirInv, FactsTyped,
           IInv
    <3> QED
      BY <2>6, <3>1, <3>2, <3>3, <3>4
  <2>7. CASE Unshare \/ WaitParent \/ Chroot \/ ForkInit \/ WaitInit
    <3>1. CASE Unshare
      BY <2>1, <3>1, LaunchAssumption DEF Proc, parent, procs, waits, pipes, facts, Runs, At,
         Goto, Ended, Seen, Ends, Exit, Unshare, TempdirInv, Labels, ProcsTyped, Group,
         Default, WaitsTyped, FactsTyped, Control, InWait, Waits, Early, Order, FuseSetsUp,
         IInv, options
    <3>2. CASE WaitParent
      BY <2>1, <3>2, LaunchAssumption DEF Proc, parent, procs, waits, pipes, facts, Runs, At,
         Goto, Ended, Seen, Ends, Exit, ParentWrites, WaitParent, TempdirInv, Labels,
         ProcsTyped, Group, Default, WaitsTyped, FactsTyped, Control, InWait, Waits, Early,
         Order, FuseSetsUp, IInv, options
    <3>3. CASE Chroot
      BY <2>1, <3>3, LaunchAssumption DEF Proc, procs, facts, Runs, Goto, Ended, Ends, Exit,
           Chroot, TempdirInv, ProcsTyped, IInv
    <3>4. CASE ForkInit
      BY <2>1, <3>4, LaunchAssumption DEF Proc, facts, Runs, Fork, ForkInit, TempdirInv,
           ProcsTyped, IInv
    <3>5. CASE WaitInit
      BY <2>1, <3>5, LaunchAssumption DEF Proc, procs, pipes, facts, Runs, At, Goto, StartWait,
         WaitInit, TempdirInv, Labels, ProcsTyped, Group, Default, WaitsTyped, FactsTyped,
         Control, InWait, Waits, Early, Order, FuseSetsUp, IInv, options
    <3> QED
      BY <2>7, <3>1, <3>2, <3>3, <3>4, <3>5
  <2>8. CASE SetupInit \/ ForkCommand \/ RunCommand
    <3>1. CASE SetupInit
      BY <2>1, <3>1, LaunchAssumption DEF Proc, procs, facts, Runs, Goto, Ended, Ends, Exit,
           SetupInit, TempdirInv, ProcsTyped, IInv
    <3>2. CASE ForkCommand
      BY <2>1, <3>2, LaunchAssumption DEF Proc, facts, Runs, Fork, ForkCommand, TempdirInv,
           ProcsTyped, IInv
    <3>3. CASE RunCommand
      BY <2>1, <3>3, LaunchAssumption DEF Proc, procs, pipes, facts, Runs, At, StartWait,
         RunCommand, TempdirInv, Labels, ProcsTyped, Group, Default, WaitsTyped, FactsTyped,
         Control, InWait, Waits, Early, Order, FuseSetsUp, IInv, options
    <3> QED
      BY <2>8, <3>1, <3>2, <3>3
  <2>9. CASE ExitMain \/ ExitMid \/ ExitInit \/ ExitCommand
    <3>1. CASE ExitMain
      BY <2>1, <3>1, LaunchAssumption DEF Proc, parent, waits, pipes, facts, Runs, At, Ended,
         Seen, Ends, Exit, ExitMain, TempdirInv, Labels, ProcsTyped, Group, Default,
         WaitsTyped, FactsTyped, Control, InWait, Waits, Early, Order, FuseSetsUp, IInv,
         options
    <3>2. CASE ExitMid
      BY <2>1, <3>2, LaunchAssumption DEF Proc, facts, Runs, Ended, Ends, Exit, ExitMid,
           TempdirInv
    <3>3. CASE ExitInit
      BY <2>1, <3>3, LaunchAssumption DEF Proc, parent, waits, pipes, facts, Runs, At, Ended,
         Seen, Ends, Exit, ExitInit, TempdirInv, Labels, ProcsTyped, Group, Default,
         WaitsTyped, FactsTyped, Control, InWait, Waits, Early, Order, FuseSetsUp, IInv,
         options
    <3>4. CASE ExitCommand
      BY <2>1, <3>4, LaunchAssumption DEF Proc, parent, waits, pipes, facts, Runs, At, Ended,
         Seen, Ends, Exit, ExitCommand, TempdirInv, Labels, ProcsTyped, Group, Default,
         WaitsTyped, FactsTyped, Control, InWait, Waits, Early, Order, FuseSetsUp, IInv,
         options
    <3> QED
      BY <2>9, <3>1, <3>2, <3>3, <3>4
  <2>10. CASE Waitpid(p)
    <3>1. p \in {"main", "mid", "pid1"}
      BY <2>10 DEF IInv, Waits, InWait, Waitpid, Proc
    <3>2. CASE p = "main"
      BY <2>1, <2>10, <3>2, LaunchAssumption DEF pipes, facts, Runs, Goto, Waitpid, TempdirInv,
             Proc, Labels, ProcsTyped, Group, Default, WaitsTyped, FactsTyped, Control, InWait,
             Waits, Early, Order, FuseSetsUp, IInv, options
    <3>3. CASE p = "mid"
      BY <2>1, <2>10, <3>3, LaunchAssumption DEF pipes, facts, Runs, Goto, Waitpid, TempdirInv,
             Proc, Labels, ProcsTyped, Group, Default, WaitsTyped, FactsTyped, Control, InWait,
             Waits, Early, Order, FuseSetsUp, IInv, options
    <3>4. CASE p = "pid1"
      BY <2>1, <2>10, <3>4, LaunchAssumption DEF pipes, facts, Runs, Goto, Waitpid, TempdirInv,
             Proc, Labels, ProcsTyped, Group, Default, WaitsTyped, FactsTyped, Control, InWait,
             Waits, Early, Order, FuseSetsUp, IInv, options
    <3>. QED BY <3>1, <3>2, <3>3, <3>4
  <2>11. CASE Sigchld(p)
    <3>1. CASE p = "main"
      BY <2>1, <2>11, <3>1, LaunchAssumption DEF waits, pipes, facts, Runs, Goto, ChildReads,
             AfterRead, Interrupted, Sigchld, TempdirInv, Proc, Labels, ProcsTyped, Group,
             Default, WaitsTyped, FactsTyped, Control, InWait, Waits, Early, Order, FuseSetsUp,
             IInv, options
    <3>2. CASE p = "mid"
      BY <2>1, <2>11, <3>2, LaunchAssumption DEF waits, pipes, facts, Runs, Goto, ChildReads,
             AfterRead, Interrupted, Sigchld, TempdirInv, Proc, Labels, ProcsTyped, Group,
             Default, WaitsTyped, FactsTyped, Control, InWait, Waits, Early, Order, FuseSetsUp,
             IInv, options
    <3>. QED BY <2>11, <3>1, <3>2 DEF Sigchld
  <2>12. CASE SigchldInit
    BY <2>1, <2>12, LaunchAssumption DEF waits, pipes, facts, Runs, Goto, ChildReads, AfterRead,
           Interrupted, SigchldInit, TempdirInv, Proc, Labels, ProcsTyped, Group, Default,
           WaitsTyped, FactsTyped, Control, InWait, Waits, Early, Order, FuseSetsUp, IInv, options
  <2>13. CASE Sigterm(p)
    <3>1. Runs(p) /\ "TERM" \in pend[p]
      BY <2>13, SigtermCases
    <3>2. CASE /\ p = "fuse" /\ pc[p] # "setup"
               /\ Goto(p, IF pc[p] = "cleanup" THEN "cleanup" ELSE "teardown")
               /\ pend' = [q \in Proc |-> IF q = p THEN pend[q] \ {"TERM"}
                              ELSE pend[q] \cup IF q \in Targets({"mid"}) THEN {"TERM"} ELSE {}]
               /\ UNCHANGED <<life, status, chld, waits, pipes, facts>>
      BY <2>1, <3>1, <3>2, LaunchAssumption DEF Runs, Goto, Proc, Group, Targets, waits, pipes,
             facts, TempdirInv, Labels, ProcsTyped, Default, WaitsTyped, FactsTyped, Control,
             InWait, Waits, Early, Order, FuseSetsUp, IInv, options
    <3>3. CASE /\ p \in {"main", "mid", "pid1"} /\ relay[p] # Default
               /\ Interrupted(p)
               /\ pend' = [q \in Proc |-> (IF q = p THEN pend[q] \ {"TERM"} ELSE pend[q])
                              \cup IF q \in Targets(relay[p]) THEN {"TERM"} ELSE {}]
               /\ UNCHANGED <<life, status, chld, waits, pipes, facts>>
      <4>1. CASE p = "main"
        BY <2>1, <3>1, <3>3, <4>1, LaunchAssumption DEF Runs, Goto, ChildReads, AfterRead,
               Interrupted, Proc, Group, Targets, waits, pipes, facts, TempdirInv, Labels,
               ProcsTyped, Default, WaitsTyped, FactsTyped, Control, InWait, Waits, Early, Order,
               FuseSetsUp, IInv, options
      <4>2. CASE p \in {"mid", "pid1"}
        <5>1. /\ \A q \in {"main", "fuse", "helper"} : pend'[q] = pend[q] /\ pc'[q] = pc[q]
              /\ UNCHANGED pc \/ (pc[p] = "waiting" /\ Goto(p, "wait"))
          BY <3>3, <4>2 DEF IInv, ProcsTyped, Waits, Control, Targets, Interrupted, Goto, Proc, Default, Group
        <5>. QED
          BY <2>1, <3>1, <3>3, <4>2, <5>1, LaunchAssumption DEF waits, pipes, facts, Goto, Runs,
                 TempdirInv, Proc, Labels, ProcsTyped, Control, FuseSetsUp, IInv, options
      <4>. QED BY <3>3, <4>1, <4>2
    <3>4. CASE /\ p \in {"main", "mid", "helper", "cmd"} /\ relay[p] = Default
               /\ Exit(p, 128 + 15)
      <4>1. CASE p = "main"
        BY <2>1, <3>1, <3>4, <4>1, LaunchAssumption DEF Proc, parent, waits, pipes, facts, Runs,
               Ended, Seen, Ends, Exit, TempdirInv, Labels, ProcsTyped, Group, Default,
               WaitsTyped, FactsTyped, Control, InWait, Waits, Early, Order, FuseSetsUp, IInv,
               options
      <4>2. CASE p = "mid"
        <5>1. pc["mid"] \notin {"wait", "waiting", "exit"}
          BY <3>4, <4>2 DEF IInv, Waits, Default
        <5>. QED
          BY <2>1, <3>1, <3>4, <4>2, <5>1, LaunchAssumption DEF Proc, parent, waits, pipes, facts,
                 Runs, Ended, Seen, Ends, Exit, TempdirInv, Labels, ProcsTyped, Group, Default,
                 WaitsTyped, FactsTyped, Control, InWait, Waits, Early, Order, FuseSetsUp, IInv,
                 options
      <4>3. CASE p = "helper"
        BY <2>1, <3>1, <3>4, <4>3, LaunchAssumption DEF Proc, parent, waits, pipes, facts, Runs,
               Ended, Seen, Ends, Exit, TempdirInv, Labels, ProcsTyped, Group, Default,
               WaitsTyped, FactsTyped, Control, InWait, Waits, Early, Order, FuseSetsUp, IInv,
               options
      <4>4. CASE p = "cmd"
        BY <2>1, <3>1, <3>4, <4>4, LaunchAssumption DEF Proc, parent, waits, pipes, facts, Runs,
               Ended, Seen, Ends, Exit, TempdirInv, Labels, ProcsTyped, Group, Default,
               WaitsTyped, FactsTyped, Control, InWait, Waits, Early, Order, FuseSetsUp, IInv,
               options
      <4>. QED BY <3>4, <4>1, <4>2, <4>3, <4>4
    <3>5. CASE /\ p = "pid1"
               /\ pend' = [pend EXCEPT ![p] = @ \ {"TERM"}]
               /\ UNCHANGED <<life, pc, status, chld, waits, pipes, facts>>
      BY <2>1, <3>5, LaunchAssumption DEF Runs, waits, pipes, facts, TempdirInv, Proc, Labels,
             ProcsTyped, Group, Default, WaitsTyped, FactsTyped, Control, InWait, Waits, Early,
             Order, FuseSetsUp, IInv, options
    <3>. QED BY <2>13, <3>2, <3>3, <3>4, <3>5, SigtermCases
  <2>. QED BY <1>3, <2>2, <2>3, <2>4, <2>5, <2>6, <2>7, <2>8, <2>9, <2>10, <2>11, <2>12, <2>13
       DEF Turn, Handler, MainStep
<1>. QED BY <1>1, <1>2, <1>3 DEF Next


-----------------------------------------------------------------------------
(* What it promises *)

(***************************************************************************)
(* A nonzero exit code of main is the status its child had, and that of    *)
(* PID 1 and of the command where they ended by themselves, whatever fails *)
(* and whenever SIGTERMs come (wait_for_pid, child.cc:592-625).            *)
(***************************************************************************)
THEOREM NonzeroStatusIsReal == Spec => []NonzeroIsReal
<1>1. Init => StatusInv
  BY DEF Init, StatusInv, InWait, Proc
<1>2. IInv /\ StatusInv /\ [Next]_vars => StatusInv'
  BY StatusStep
<1>3. IInv /\ StatusInv => NonzeroIsReal
  BY DEF IInv, Control, StatusInv, NonzeroIsReal, Runs
<1>. QED BY <1>1, <1>2, <1>3, Invariance, PTL DEF Spec

(***************************************************************************)
(* When newuidmap and newgidmap succeed for a child that runs, or are not  *)
(* needed, the child goes past waitI only with both id maps in the kernel: *)
(* uidmap_single may fail, and main kills the child then (child.cc:545).   *)
(***************************************************************************)
THEOREM MapsInstalledFirst == ASSUME HelpersSucceed PROVE Spec => []MapsFirst
<1>1. Init => MapInv
  BY DEF Init, MapInv, InWait, Runs, Proc, Early
<1>2. IInv /\ MapInv /\ [Next]_vars => MapInv'
  BY MapStep
<1>3. IInv /\ MapInv => MapsFirst
  BY DEF IInv, Control, Order, MapInv, MapsFirst, Runs
<1>. QED BY <1>1, <1>2, <1>3, Invariance, PTL DEF Spec

(***************************************************************************)
(* When no signal but the end of the child can interrupt main's wait for   *)
(* the chroot, the child has entered newroot or has ended before main      *)
(* unmounts the file system under it (wait_child_chroot, child.cc:560).    *)
(***************************************************************************)
THEOREM ChrootFirst == ASSUME Undisturbed PROVE Spec => []ChrootBeforePreclean
<1>1. Init => ChrootInv
  BY DEF Init, ChrootInv, InWait, Runs, Proc, Late
<1>2. IInv /\ ChrootInv /\ [Next]_vars => ChrootInv'
  BY ChrootStep
<1>3. ChrootInv => ChrootBeforePreclean
  BY DEF ChrootInv, Late, ChrootBeforePreclean
<1>. QED BY <1>1, <1>2, <1>3, Invariance, PTL DEF Spec

(***************************************************************************)
(* When the file system process sets itself up, its end leaves neither the *)
(* mount nor the temporary directory behind, whatever else fails and       *)
(* whichever of main and that process comes first (child.cc:565-590,       *)
(* cleanup_tempdir, fuse.cc:244-269).                                      *)
(***************************************************************************)
THEOREM TempdirIsRemoved == ASSUME FuseSetsUp PROVE Spec => []TempdirRemoved
<1>1. Init => TempdirInv
  BY DEF Init, TempdirInv
<1>2. IInv /\ TempdirInv /\ [Next]_vars => TempdirInv'
  BY TempdirStep
<1>3. TempdirInv => TempdirRemoved
  BY DEF TempdirInv, TempdirRemoved
<1>. QED BY <1>1, <1>2, <1>3, Invariance, PTL DEF Spec
=============================================================================
