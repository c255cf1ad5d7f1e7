------------------------------- MODULE Launch -------------------------------
(***************************************************************************)
(* Starting, signalling and ending a container: the processes of uchroot   *)
(* (src/uchroot/main.cc, src/erlent/child.cc, fuse.cc, signalrelay.cc).    *)
(*                                                                         *)
(*   main    the uchroot process                                           *)
(*   mid     its child in the new namespaces, parent of PID 1              *)
(*   fuse    the file system process (option -E)                           *)
(*   helper  newuidmap, newgidmap or fusermount, one at a time             *)
(*   pid1    the init process of the container                             *)
(*   cmd     the command                                                   *)
(*                                                                         *)
(* They talk through two pipes, exit statuses and signals.  A step is a    *)
(* system call and the code up to the next one; a signal handler runs      *)
(* between two steps or interrupts a call that blocks.                     *)
(***************************************************************************)
EXTENDS Integers, Sequences, FiniteSets

CONSTANTS
    WithFuse,       \* whether option -E may be given
    UseSub,         \* whether the maps may need newuidmap and newgidmap
    Faults,         \* what may go wrong, see MayFail
    Codes,          \* exit statuses of the command
    MaxTerm         \* bound on the SIGTERMs sent to main from outside

\* "map" is uidmap_single failing, "helper" newuidmap or newgidmap.
MayFail == {"unshare", "map", "helper", "mount", "init", "fuse"}

ASSUME LaunchAssumption ==
    /\ WithFuse \subseteq BOOLEAN
    /\ UseSub \subseteq BOOLEAN
    /\ Faults \subseteq MayFail
    /\ Codes \subseteq 0 .. 255
    /\ MaxTerm \in Nat

Proc == {"main", "mid", "fuse", "helper", "pid1", "cmd"}
parent == [mid |-> "main", fuse |-> "main", helper |-> "main", pid1 |-> "mid", cmd |-> "pid1"]

\* kill(0, sig), sent when there is no fuse process, reaches the whole group.
Group == "group"
Default == {"default"}  \* no handler: SIGTERM ends the process

VARIABLES
    withFuse, useSub,   \* what the options ask for, fixed at the start
    life,           \* "none", "run", "zombie" or "gone" (reaped)
    pc,
    status,         \* exit status of what has ended
    pend, chld,     \* pending signals; the child the pending SIGCHLD is about
    relay,          \* where the handler of SIGTERM forwards it
    waitFor, cont,  \* wait_for_pid: the child, and where the caller goes on
    res,            \* what wait_for_pid returned
    toparent, tochild,  \* bytes in the pipes
    childPid,       \* main's static child_pid is set
    maps,           \* how many of the two id maps the kernel has
    chrooted,       \* mid has performed chroot()
    exitcode,       \* main's local variable
    newroot,        \* the temporary directory: "none", "there" or "mounted"
    terms           \* SIGTERMs sent so far

vars == <<withFuse, useSub, life, pc, status, pend, chld, relay, waitFor, cont, res, toparent, tochild,
          childPid, maps, chrooted, exitcode, newroot, terms>>
options == <<withFuse, useSub>>
procs == <<life, status, pend, chld>>
waits == <<relay, waitFor, cont, res>>
pipes == <<toparent, tochild>>
facts == <<childPid, maps, chrooted, exitcode, newroot>>

Labels == {"start", "readU", "maps", "gidmap", "mapped", "killchild", "setchild", "run", "readC",
           "preclean", "final", "exit", "done", "wait", "waiting", "unshare", "waitI", "mount",
           "fork", "startwait", "setup", "relay", "sem", "exec", "init", "loop", "teardown", "cleanup",
           "rmdir"}

TypeOK ==
    /\ withFuse \in WithFuse /\ useSub \in UseSub
    /\ life \in [Proc -> {"none", "run", "zombie", "gone"}]
    /\ pc \in [Proc -> Labels]
    /\ status \in [Proc -> 0 .. 255]
    /\ pend \in [Proc -> SUBSET {"TERM", "CHLD"}]
    /\ chld \in [Proc -> Proc]
    /\ relay \in [Proc -> (SUBSET (Proc \cup {Group})) \cup {Default}]
    /\ waitFor \in [Proc -> Proc]
    /\ cont \in [Proc -> Labels]
    /\ res \in [Proc -> 0 .. 255]
    /\ toparent \in Seq({"U", "C"}) /\ Len(toparent) =< 2
    /\ tochild \in Seq({"I"}) /\ Len(tochild) =< 1
    /\ childPid \in BOOLEAN /\ chrooted \in BOOLEAN
    /\ maps \in 0 .. 2
    /\ exitcode \in 0 .. 255
    /\ newroot \in {"none", "there", "mounted"}
    /\ terms \in 0 .. MaxTerm

Init ==
    /\ withFuse \in WithFuse /\ useSub \in UseSub
    /\ life = [p \in Proc |-> IF p = "main" THEN "run" ELSE "none"]
    /\ pc = [p \in Proc |-> "start"]
    /\ status = [p \in Proc |-> 0]
    /\ pend = [p \in Proc |-> {}]
    /\ chld = [p \in Proc |-> p]
    /\ relay = [p \in Proc |-> Default]
    /\ waitFor = [p \in Proc |-> p]
    /\ cont = [p \in Proc |-> "start"]
    /\ res = [p \in Proc |-> 0]
    /\ toparent = <<>> /\ tochild = <<>>
    /\ childPid = FALSE /\ maps = 0 /\ chrooted = FALSE /\ exitcode = 0 /\ newroot = "none"
    /\ terms = 0
-----------------------------------------------------------------------------
(* Processes and signals (the kernel's part) *)

Runs(p) == life[p] = "run"

\* p is about to do l.  It handles its signals first; the file system process
\* blocks them during its set-up.
At(p, l) == Runs(p) /\ pc[p] = l /\ (pend[p] = {} \/ (p = "fuse" /\ l = "setup"))
Goto(p, l) == pc' = [pc EXCEPT ![p] = l]

Fork(p, l, child, start) ==
    /\ life' = [life EXCEPT ![child] = "run"]
    /\ pc' = [pc EXCEPT ![p] = l, ![child] = start]
    /\ pend' = [pend EXCEPT ![child] = {}]
    /\ status' = [status EXCEPT ![child] = 0]
    /\ UNCHANGED chld

\* The end of p: its parent gets SIGCHLD and can wait for it; the end of PID 1
\* ends everything in the container.  Without a parent nobody sees the status.
Ended(p) == {p} \cup (IF p = "pid1" /\ Runs("cmd") THEN {"cmd"} ELSE {})
Seen(p) == p # "main" /\ Runs(parent[p]) /\ parent[p] \in {"main", "mid", "pid1"}
Ends(p, s) ==
    /\ life' = [q \in Proc |-> IF q \notin Ended(p) THEN life[q]
                               ELSE IF q = p /\ Seen(p) THEN "zombie" ELSE "gone"]
    /\ status' = [q \in Proc |-> IF q \notin Ended(p) THEN status[q]
                                 ELSE IF q = p THEN s ELSE 128 + 9]
    /\ pend' = [q \in Proc |-> IF q \in Ended(p) THEN {}
                               ELSE IF Seen(p) /\ q = parent[p] THEN pend[q] \cup {"CHLD"}
                               ELSE pend[q]]
    /\ chld' = [q \in Proc |-> IF Seen(p) /\ q = parent[p] /\ "CHLD" \notin pend[q]
                               THEN p ELSE chld[q]]

Exit(p, s) == Ends(p, s) /\ UNCHANGED <<pc, waits, pipes, facts>>

\* The processes a signal sent to a set of targets reaches.
Targets(ts) == {p \in Proc : Runs(p) /\ (p \in ts \/ Group \in ts)}

Send(ts, sig) ==
    pend' = [p \in Proc |-> pend[p] \cup IF p \in Targets(ts) THEN {sig} ELSE {}]

\* Mutant: main does not close the child's ends.
ChildReadsKept == Runs("main") \/ Runs("mid") \/ Runs("pid1") \/ Runs("cmd")

\* Ends of the pipes that are still open: children inherit them.
ChildReads == Runs("mid") \/ Runs("pid1") \/ Runs("cmd")
ParentWrites == Runs("main") \/ Runs("fuse")

\* wait_for_pid, up to its first waitpid: forward to ts, wait for q, go on at l.
StartWait(p, q, ts, l) ==
    /\ waitFor' = [waitFor EXCEPT ![p] = q]
    /\ relay' = [relay EXCEPT ![p] = ts]
    /\ cont' = [cont EXCEPT ![p] = l]
    /\ UNCHANGED res

\* Mutant: a child that has vanished counts as failed.
WaitpidVanished(p) ==
    LET q == waitFor[p]
    IN  /\ Runs(p) /\ pc[p] \in {"wait", "waiting"}
        /\ IF Runs(q)
           THEN /\ pc[p] = "wait"
                /\ Goto(p, "waiting")
                /\ UNCHANGED <<res, life>>
           ELSE /\ Goto(p, cont[p])
                /\ res' = [res EXCEPT ![p] = IF life[q] = "zombie" THEN status[q] ELSE 255]
                /\ life' = [life EXCEPT ![q] = "gone"]
        /\ UNCHANGED <<status, pend, chld, relay, waitFor, cont, pipes, facts, terms>>

\* waitpid: the status of a zombie, 0 when there is no such child any more,
\* else block.  A blocked waitpid sees the zombie before a handler can.
Waitpid(p) ==
    LET q == waitFor[p]
    IN  /\ Runs(p) /\ pc[p] \in {"wait", "waiting"}
        /\ IF Runs(q)
           THEN /\ pc[p] = "wait"
                /\ Goto(p, "waiting")
                /\ UNCHANGED <<res, life>>
           ELSE /\ Goto(p, cont[p])
                /\ res' = [res EXCEPT ![p] = IF life[q] = "zombie" THEN status[q] ELSE 0]
                /\ life' = [life EXCEPT ![q] = "gone"]
        /\ UNCHANGED <<status, pend, chld, relay, waitFor, cont, pipes, facts, terms>>

\* A call that blocks fails with EINTR: waitpid is tried again, and a read
\* of the pipe counts as done.  A handler that ran before the call blocked
\* leaves the process where it is.
AfterRead(p) ==
    IF pc[p] = "readU" THEN "maps" ELSE IF withFuse THEN "preclean" ELSE "final"
Interrupted(p) ==
    \/ pc[p] = "waiting" /\ Goto(p, "wait")
    \/ pc[p] # "waiting" /\ UNCHANGED pc
    \/ pc[p] \in {"readU", "readC"} /\ toparent = <<>> /\ ChildReads /\ Goto(p, AfterRead(p))

\* sigchld_action of main, which mid inherits without main's child_pid.
Sigchld(p) ==
    LET q == chld[p]
        keep == p = "main" /\ childPid /\ q = "mid"
    IN  /\ Runs(p) /\ p \in {"main", "mid"} /\ "CHLD" \in pend[p]
        /\ ~(pc[p] = "waiting" /\ ~Runs(waitFor[p]))
        /\ life' = IF ~keep /\ life[q] = "zombie" THEN [life EXCEPT ![q] = "gone"] ELSE life
        /\ pend' = [pend EXCEPT ![p] = @ \ {"CHLD"}]
        /\ Interrupted(p)
        /\ UNCHANGED <<status, chld, waits, pipes, facts, terms>>

\* PID 1 has its own handler; it keeps the status of the command.
SigchldInit ==
    /\ Runs("pid1") /\ "CHLD" \in pend["pid1"]
    /\ ~(pc["pid1"] = "waiting" /\ ~Runs("cmd"))
    /\ pend' = [pend EXCEPT !["pid1"] = @ \ {"CHLD"}]
    /\ Interrupted("pid1")
    /\ UNCHANGED <<life, status, chld, waits, pipes, facts, terms>>

\* SIGTERM: forwarded when a relay is installed, else the end of the process;
\* PID 1 is immune to what it does not handle.  The command may handle it.
Sigterm(p) ==
    /\ Runs(p) /\ "TERM" \in pend[p]
    /\ p = "fuse" => pc[p] # "setup"
    /\ ~(pc[p] = "waiting" /\ ~Runs(waitFor[p]))
    /\ CASE p = "fuse" ->       \* endsig_hdl
              /\ pend' = [q \in Proc |-> IF q = p THEN pend[q] \ {"TERM"}
                              ELSE pend[q] \cup IF q \in Targets({"mid"}) THEN {"TERM"} ELSE {}]
              /\ Goto(p, IF pc[p] = "cleanup" THEN "cleanup" ELSE "teardown")
              /\ UNCHANGED <<life, status, chld, waits, pipes, facts>>
         [] relay[p] # Default ->
              /\ pend' = [q \in Proc |->
                    (IF q = p THEN pend[q] \ {"TERM"} ELSE pend[q])
                        \cup IF q \in Targets(relay[p]) THEN {"TERM"} ELSE {}]
              /\ Interrupted(p)
              /\ UNCHANGED <<life, status, chld, waits, pipes, facts>>
         [] p # "fuse" /\ relay[p] = Default /\ p # "pid1" -> Exit(p, 128 + 15)
         [] OTHER ->
              /\ pend' = [pend EXCEPT ![p] = @ \ {"TERM"}]
              /\ UNCHANGED <<life, pc, status, chld, waits, pipes, facts>>
    /\ UNCHANGED terms

SendTerm ==
    /\ terms < MaxTerm
    /\ Runs("main")
    /\ Send({"main"}, "TERM")
    /\ terms' = terms + 1
    /\ UNCHANGED <<options, life, pc, status, chld, waits, pipes, facts>>

-----------------------------------------------------------------------------
(* main: setup_child *)

ForkChild ==
    /\ At("main", "start")
    /\ Fork("main", "readU", "mid", "unshare")
    /\ UNCHANGED <<waits, pipes, facts, terms>>

\* wait_child: a byte, or the end of the pipe.  The caller of the second one
\* ignores the result.
WaitChild ==
    /\ At("main", "readU") \/ At("main", "readC")
    /\ \/ /\ toparent # <<>>
          /\ toparent' = Tail(toparent)
          /\ Goto("main", IF pc["main"] = "readU" /\ Head(toparent) # "U" THEN "killchild"
                          ELSE AfterRead("main"))
       \/ /\ toparent = <<>> /\ ~ChildReads
          /\ Goto("main", IF pc["main"] = "readU" THEN "killchild" ELSE AfterRead("main"))
          /\ UNCHANGED toparent
    /\ UNCHANGED <<procs, waits, tochild, facts, terms>>

\* Mutant: the result of uidmap_single is ignored.
MapSingleIgnored ==
    /\ At("main", "maps") /\ ~useSub
    /\ maps' = IF Runs("mid") /\ "map" \notin Faults THEN 2 ELSE maps
    /\ Goto("main", "setchild")
    /\ UNCHANGED <<procs, waits, pipes, childPid, chrooted, exitcode, newroot, terms>>

\* uidmap_single writes the maps itself.
MapSingle ==
    /\ At("main", "maps") /\ ~useSub
    /\ \/ /\ Runs("mid") /\ maps' = 2
          /\ Goto("main", "setchild")
       \/ /\ ~Runs("mid") \/ "map" \in Faults
          /\ maps' \in 0 .. 1
          /\ Goto("main", "killchild")
    /\ UNCHANGED <<procs, waits, pipes, childPid, chrooted, exitcode, newroot, terms>>

\* do_idmap runs newuidmap, then newgidmap, and waits for each.
MapSub ==
    /\ useSub
    /\ At("main", "maps") \/ (At("main", "gidmap") /\ res["main"] = 0)
    /\ Fork("main", "wait", "helper", "exec")
    /\ StartWait("main", "helper", {"helper"}, IF pc["main"] = "maps" THEN "gidmap" ELSE "mapped")
    /\ UNCHANGED <<pipes, facts, terms>>

Mapped ==
    /\ \/ At("main", "mapped")
       \/ At("main", "gidmap") /\ res["main"] # 0
    /\ Goto("main", IF res["main"] = 0 THEN "setchild" ELSE "killchild")
    /\ UNCHANGED <<procs, waits, pipes, facts, terms>>

KillChild ==
    /\ At("main", "killchild")
    /\ pc' = [pc EXCEPT !["main"] = "setchild"]
    /\ IF Runs("mid")
       THEN /\ life' = [life EXCEPT !["mid"] = "zombie"]
            /\ status' = [status EXCEPT !["mid"] = 128 + 9]
            /\ pend' = [pend EXCEPT !["main"] = @ \cup {"CHLD"}, !["mid"] = {}]
            /\ chld' = [chld EXCEPT !["main"] = IF "CHLD" \in pend["main"] THEN @ ELSE "mid"]
       ELSE UNCHANGED procs
    /\ UNCHANGED <<waits, pipes, facts, terms>>

\* Only when setup_child returns does main know its child.
SetChild ==
    /\ At("main", "setchild")
    /\ childPid' = TRUE
    /\ Goto("main", "run")
    /\ UNCHANGED <<procs, waits, pipes, maps, chrooted, exitcode, newroot, terms>>

(* main: the rest *)

\* Mutant: main calls run_child() as well.
RunFuseAndChild ==
    /\ At("main", "run") /\ withFuse
    /\ Fork("main", "readC", "fuse", "setup")
    /\ newroot' = "there"
    /\ tochild' = Append(tochild, "I")
    /\ UNCHANGED <<waits, toparent, childPid, maps, chrooted, exitcode, terms>>

\* Mutant: no wait_child_chroot().
RunFuseNoWait ==
    /\ At("main", "run") /\ withFuse
    /\ Fork("main", "preclean", "fuse", "setup")
    /\ newroot' = "there"
    /\ UNCHANGED <<waits, pipes, childPid, maps, chrooted, exitcode, terms>>

\* erlent_fuse: mkdtemp and fork.
RunFuse ==
    /\ At("main", "run") /\ withFuse
    /\ Fork("main", "readC", "fuse", "setup")
    /\ newroot' = "there"
    /\ UNCHANGED <<waits, pipes, childPid, maps, chrooted, exitcode, terms>>

\* Without -E main starts the child itself; nobody to read is SIGPIPE.
RunChild ==
    /\ At("main", "run") /\ ~withFuse
    /\ IF ChildReads
       THEN /\ tochild' = Append(tochild, "I")
            /\ Goto("main", "readC")
            /\ UNCHANGED <<procs, waits, toparent, facts>>
       ELSE Exit("main", 128 + 13)
    /\ UNCHANGED terms

\* parent_fuse_preclean: unmount through fusermount.
Preclean ==
    /\ At("main", "preclean")
    /\ Fork("main", "wait", "helper", "exec")
    /\ StartWait("main", "helper", {}, "rmdir")
    /\ UNCHANGED <<pipes, facts, terms>>

\* rmdir fails on what is still mounted.
RemoveNewroot ==
    newroot' = IF newroot = "there" THEN "none" ELSE newroot

\* The rest of parent_fuse_preclean, once fusermount has been waited for.
Rmdir ==
    /\ At("main", "rmdir")
    /\ IF res["main"] = 0 THEN RemoveNewroot ELSE UNCHANGED newroot
    /\ Goto("main", "final")
    /\ UNCHANGED <<procs, waits, pipes, childPid, maps, chrooted, exitcode, terms>>

\* Mutant: nothing is forwarded.
WaitContainerAlone ==
    /\ At("main", "final")
    /\ StartWait("main", "mid", {}, "exit")
    /\ Goto("main", "wait")
    /\ UNCHANGED <<procs, pipes, facts, terms>>

WaitContainer ==
    /\ At("main", "final")
    /\ StartWait("main", "mid", {"mid", IF withFuse THEN "fuse" ELSE Group}, "exit")
    /\ Goto("main", "wait")
    /\ UNCHANGED <<procs, pipes, facts, terms>>

EndFuse ==
    /\ At("main", "exit")
    /\ exitcode' = res["main"]
    /\ IF withFuse
       THEN /\ Send({"fuse"}, "TERM")
            /\ StartWait("main", "fuse", {}, "done")
            /\ Goto("main", "wait")
       ELSE /\ Goto("main", "done")
            /\ UNCHANGED <<pend, waits>>
    /\ UNCHANGED <<life, status, chld, pipes, childPid, maps, chrooted, newroot, terms>>

ExitMain == At("main", "done") /\ Exit("main", exitcode) /\ UNCHANGED terms

-----------------------------------------------------------------------------
(* helper, fuse *)

\* newuidmap and newgidmap fail when the child is gone or the map is refused; fusermount
\* when there is nothing to unmount or it is in use.
RunHelper ==
    /\ At("helper", "exec")
    /\ LET idmap == cont["main"] \in {"gidmap", "mapped"} /\ waitFor["main"] = "helper"
           end(s) ==
               /\ life' = [life EXCEPT !["helper"] = IF Seen("helper") THEN "zombie" ELSE "gone"]
               /\ status' = [status EXCEPT !["helper"] = s]
       IN  \/ /\ idmap /\ Runs("mid")
              /\ maps' = maps + 1
              /\ end(0)
              /\ UNCHANGED newroot
           \/ /\ ~idmap /\ newroot = "mounted"
              /\ newroot' = "there"
              /\ end(0)
              /\ UNCHANGED maps
           \/ /\ idmap => ("helper" \in Faults \/ ~Runs("mid"))
              /\ end(1)
              /\ UNCHANGED <<maps, newroot>>
    /\ pend' = [pend EXCEPT !["main"] = IF Seen("helper") THEN @ \cup {"CHLD"} ELSE @,
                            !["helper"] = {}]
    /\ chld' = [chld EXCEPT !["main"] = IF "CHLD" \in pend["main"] THEN @ ELSE "helper"]
    /\ UNCHANGED <<pc, waits, pipes, childPid, chrooted, exitcode, terms>>

\* fuse_setup; SIGTERM is blocked until it is done.
SetupFuse ==
    /\ At("fuse", "setup")
    /\ \/ /\ Goto("fuse", "init")
          /\ newroot' = "mounted"
          /\ UNCHANGED <<procs, waits, pipes, childPid, maps, chrooted, exitcode>>
       \/ "fuse" \in Faults /\ Exit("fuse", 127)
    /\ UNCHANGED terms

\* erlent_init: libfuse ignores SIGPIPE.
InitFuse ==
    /\ At("fuse", "init")
    /\ tochild' = IF ChildReads THEN Append(tochild, "I") ELSE tochild
    /\ Goto("fuse", "loop")
    /\ UNCHANGED <<procs, waits, toparent, facts, terms>>

\* The loop has ended: fuse_teardown unmounts what is still mounted.
TeardownFuse ==
    /\ At("fuse", "teardown")
    /\ newroot' = IF newroot = "mounted" THEN "there" ELSE newroot
    /\ Goto("fuse", "cleanup")
    /\ UNCHANGED <<procs, waits, pipes, childPid, maps, chrooted, exitcode, terms>>

\* Mutant: the directory is left to parent_fuse_preclean().
CleanupKept == At("fuse", "cleanup") /\ Exit("fuse", 0) /\ UNCHANGED terms

\* cleanup_tempdir: main may have removed it already.
Cleanup ==
    /\ At("fuse", "cleanup")
    /\ RemoveNewroot
    /\ Ends("fuse", 0)
    /\ UNCHANGED <<pc, waits, pipes, childPid, maps, chrooted, exitcode, terms>>

-----------------------------------------------------------------------------
(* mid: setup_child's child and the first half of childFunc *)

Unshare ==
    /\ At("mid", "unshare")
    /\ \/ /\ Runs("main")
          /\ toparent' = Append(toparent, "U")
          /\ Goto("mid", "waitI")
          /\ UNCHANGED <<procs, waits, tochild, facts>>
       \/ ~Runs("main") /\ Exit("mid", 128 + 13)
       \/ "unshare" \in Faults /\ Exit("mid", 127)
    /\ UNCHANGED terms

WaitParent ==
    /\ At("mid", "waitI")
    /\ \/ /\ tochild # <<>>
          /\ tochild' = Tail(tochild)
          /\ Goto("mid", "mount")
          /\ UNCHANGED <<procs, waits, toparent, facts>>
       \/ tochild = <<>> /\ ~ParentWrites /\ Exit("mid", 0)
    /\ UNCHANGED terms

\* The mounts and chroot need the file system, so they fail without it.
FileSystemServed == withFuse => Runs("fuse") /\ pc["fuse"] = "loop"
Chroot ==
    /\ At("mid", "mount")
    /\ \/ /\ FileSystemServed
          /\ ParentWrites
          /\ chrooted' = TRUE
          /\ toparent' = Append(toparent, "C")
          /\ Goto("mid", "fork")
          /\ UNCHANGED <<procs, waits, tochild, childPid, maps, exitcode, newroot>>
       \/ ~ParentWrites /\ Exit("mid", 128 + 13)
       \/ /\ "mount" \in Faults \/ ~FileSystemServed
          /\ Exit("mid", 1)
    /\ UNCHANGED terms

ForkInit ==
    /\ At("mid", "fork")
    /\ Fork("mid", "startwait", "pid1", "setup")
    /\ UNCHANGED <<waits, pipes, facts, terms>>

WaitInit ==
    /\ At("mid", "startwait")
    /\ StartWait("mid", "pid1", {"pid1"}, "exit")
    /\ Goto("mid", "wait")
    /\ UNCHANGED <<procs, pipes, facts, terms>>

ExitMid == At("mid", "exit") /\ Exit("mid", res["mid"]) /\ UNCHANGED terms

-----------------------------------------------------------------------------
(* pid1 and cmd: the second half of childFunc *)

\* Mounting /proc, changing directory and ids; without maps there are no ids.
SetupInit ==
    /\ At("pid1", "setup")
    /\ \/ /\ maps = 2
          /\ Goto("pid1", "fork")
          /\ UNCHANGED <<procs, waits, pipes, facts>>
       \/ ("init" \in Faults \/ maps < 2) /\ Exit("pid1", 1)
    /\ UNCHANGED terms

\* The command waits for the semaphore until PID 1 forwards signals to it.
ForkCommand ==
    /\ At("pid1", "fork")
    /\ Fork("pid1", "relay", "cmd", "sem")
    /\ UNCHANGED <<waits, pipes, facts, terms>>

RunCommand ==
    /\ At("pid1", "relay")
    /\ pc' = [pc EXCEPT !["pid1"] = "wait", !["cmd"] = "exec"]
    /\ StartWait("pid1", "cmd", {"cmd"}, "exit")
    /\ UNCHANGED <<procs, pipes, facts, terms>>

ExitInit == At("pid1", "exit") /\ Exit("pid1", res["pid1"]) /\ UNCHANGED terms

ExitCommand ==
    /\ At("cmd", "exec")
    /\ \E c \in Codes : Exit("cmd", c)
    /\ UNCHANGED terms

-----------------------------------------------------------------------------
Handler(p) == Sigchld(p) \/ Sigterm(p) \/ (p = "pid1" /\ SigchldInit)

MainStep ==
    \/ ForkChild \/ WaitChild \/ MapSingle \/ MapSub \/ Mapped \/ KillChild \/ SetChild
    \/ RunFuse \/ RunChild \/ Preclean \/ Rmdir \/ WaitContainer \/ EndFuse \/ ExitMain

\* What a process does when it is its turn.
Turn(p) ==
    /\ UNCHANGED options
    /\ \/ Handler(p)
       \/ Waitpid(p)
       \/ p = "main" /\ MainStep
       \/ p = "mid" /\ (Unshare \/ WaitParent \/ Chroot \/ ForkInit \/ WaitInit \/ ExitMid)
       \/ p = "pid1" /\ (SetupInit \/ ForkCommand \/ RunCommand \/ ExitInit)
       \/ p = "cmd" /\ ExitCommand
       \/ p = "fuse" /\ (SetupFuse \/ InitFuse \/ TeardownFuse \/ Cleanup)
       \/ p = "helper" /\ RunHelper

Next == SendTerm \/ \E p \in Proc : Turn(p)

\* The kernel runs every process that can run, and the command ends.
Fairness == \A p \in Proc : WF_vars(Turn(p))

Spec == Init /\ [][Next]_vars
FairSpec == Spec /\ Fairness
=============================================================================
