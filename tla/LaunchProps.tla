----------------------------- MODULE LaunchProps -----------------------------
(***************************************************************************)
(* What uchroot promises of starting, signalling and ending a container.   *)
(***************************************************************************)
EXTENDS Launch

\* main is in its last waitpid, for mid.
AwaitsContainer == Runs("main") /\ pc["main"] \in {"wait", "waiting"} /\ cont["main"] = "exit"

(***************************************************************************)
(* "Wait until the child has performed chroot()" (child.cc:560): when main *)
(* unmounts the file system under newroot, or waits for the container to   *)
(* end, its child has entered newroot or is gone; and the child enters it  *)
(* only after main has said that everything is set up.                     *)
(***************************************************************************)
ChrootBeforePreclean ==
    pc["main"] \in {"preclean", "rmdir", "final", "exit", "done"} => chrooted \/ ~Runs("mid")

(***************************************************************************)
(* The child passes waitI, and so mounts, forks PID 1 and runs the         *)
(* command, only with both id maps in the kernel: "There was an error      *)
(* setting up the child environment, kill the child process"               *)
(* (child.cc:545-547).                                                     *)
(***************************************************************************)
MapsFirst ==
    life["mid"] = "run" /\ pc["mid"] \notin {"start", "unshare", "waitI"} => maps = 2

(***************************************************************************)
(* A nonzero exit code that main returns is the status its child really    *)
(* had, and along the chain of wait_for_pid that of PID 1 and the command. *)
(***************************************************************************)
NonzeroIsReal ==
    pc["main"] = "done" /\ exitcode # 0 =>
        /\ exitcode = status["mid"]
        /\ pc["mid"] = "exit" => status["mid"] = status["pid1"]
        /\ pc["mid"] = "exit" /\ pc["pid1"] = "exit" => status["pid1"] = status["cmd"]

(***************************************************************************)
(* Every start ends: whatever fails, the command's end or the failure      *)
(* becomes the end of main, and nobody is left behind.                     *)
(***************************************************************************)
Terminates == <>(\A p \in Proc : ~Runs(p))

(***************************************************************************)
(* Nobody leaves a mount or the temporary directory behind, whether main   *)
(* could unmount it early or not and whoever failed: one of the two that   *)
(* try to remove it succeeds (parent_fuse_preclean, child.cc:565-590;      *)
(* cleanup_tempdir, fuse.cc:244-269).                                      *)
(***************************************************************************)
TempdirRemoved == pc["main"] = "done" /\ ~Runs("fuse") => newroot = "none"

(***************************************************************************)
(* A SIGTERM that reaches main while it waits for a running container is   *)
(* relayed down to the command, and everything ends, even when the command *)
(* would run for ever (install_signal_relay in main, mid and PID 1).       *)
(***************************************************************************)
Relaying == AwaitsContainer /\ relay["mid"] = {"pid1"} /\ relay["pid1"] = {"cmd"}
TermEndsContainer ==
    (Relaying /\ "TERM" \in pend["main"]) ~> (\A p \in Proc : ~Runs(p))

(***************************************************************************)
(* "Just wait for PID 1 and return its exit status" (child.cc:210), "do    *)
(* not consume the exit status of the child process because the main       *)
(* program needs it" (main.cc:37): main's exit code is that of its child,  *)
(* and its child's that of PID 1.                                          *)
(***************************************************************************)
ExitStatusReturned ==
    pc["main"] = "done" =>
        /\ exitcode = status["mid"]
        /\ pc["mid"] = "exit" => status["mid"] = status["pid1"]

(***************************************************************************)
(* "While waiting, forward termination signals to the PIDs in forward_to"  *)
(* (child.cc:592): main, once it has been sent a SIGTERM while it waits    *)
(* for the container, ends.                                                *)
(***************************************************************************)
TermEndsMain == (Relaying /\ "TERM" \in pend["main"]) ~> ~Runs("main")

(***************************************************************************)
(* "run_child() is called by erlent_fuse()" (main.cc:242): when main has   *)
(* started the file system, the child is told to go on, or it has ended.   *)
(***************************************************************************)
FuseStartsChild ==
    Runs("fuse") ~> (tochild # <<>> \/ pc["mid"] # "waitI" \/ ~Runs("mid"))

\* The command runs for ever unless a signal ends it.
DaemonSpec ==
    /\ Spec
    /\ \A p \in Proc \ {"cmd"} : WF_vars(Turn(p))
    /\ WF_vars(Sigterm("cmd") /\ UNCHANGED options)
=============================================================================
