------------------------------ MODULE PtyLoop -------------------------------
(***************************************************************************)
(* The terminal of the command: PID 1 gives it a pty, puts the user's      *)
(* terminal into raw mode and copies between the two until one of them is  *)
(* at its end (childFunc, child.cc:265-382).  The terminal, the pty and    *)
(* the command are external: queues of characters, numbered as they come.  *)
(* The pty is at its end when no process has it open any more: that may be *)
(* before the command's end, or after it.                                  *)
(***************************************************************************)
EXTENDS Integers, Sequences

CONSTANTS
    BufSize,        \* 256, what one read takes
    InCap, OutCap,  \* what the pty holds in each direction
    TtyCap,         \* what the terminal takes before it has shown it
    Sizes,          \* sizes of the window
    MaxTyped, MaxWritten, MaxSignals    \* bounds: characters, and resizes and orphans

ASSUME PtyLoopAssumption ==
    /\ {BufSize, InCap, OutCap, TtyCap} \subseteq Nat \ {0}
    /\ {MaxTyped, MaxWritten, MaxSignals} \subseteq Nat

VARIABLES
    pid1,           \* [at, ready: fd_in, chunk: what is read and not written, quit, moved:
                    \*  the write under way has written something]
    pend,           \* pending signals of PID 1
    tty,            \* [mode, size, hungup, keys: how many, typed: not read, queued, shown]
    pty,            \* [size, in, out, open: who has it open; Holders], as the command sees them
    cmd,            \* [at: "none", "sem", "run" or "ended"; got, wrote: background included]
    signals,        \* resizes and orphans so far
    cut             \* a write was interrupted or failed, or select failed

vars == <<pid1, pend, tty, pty, cmd, signals, cut>>

\* The command, and the processes it has left in the background.
Holders == {"cmd", "bg"}

Init ==
    /\ pid1 = [at |-> "start", ready |-> {}, chunk |-> <<>>, quit |-> FALSE, moved |-> FALSE]
    /\ pend = {}
    /\ \E s \in Sizes :
         /\ tty = [mode |-> "cooked", size |-> s, hungup |-> FALSE, keys |-> 0,
                   typed |-> <<>>, queued |-> <<>>, shown |-> <<>>]
         /\ pty = [size |-> s, in |-> <<>>, out |-> <<>>, open |-> {}]
    /\ cmd = [at |-> "none", got |-> <<>>, wrote |-> <<>>]
    /\ signals = 0 /\ cut = FALSE
-----------------------------------------------------------------------------
(* PID 1 *)

Goto(l) == pid1' = [pid1 EXCEPT !.at = l]

\* TIOCGWINSZ and forkpty; the command waits for the semaphore.
ForkPty ==
    /\ pid1.at = "start"
    /\ pty' = [pty EXCEPT !.size = tty.size, !.open = {"cmd"}]
    /\ cmd' = [cmd EXCEPT !.at = "sem"]
    /\ Goto("forked")
    /\ UNCHANGED <<pend, tty, signals, cut>>

InstallHandler ==
    /\ pid1.at = "forked"
    /\ Goto("handler")
    /\ UNCHANGED <<pend, tty, pty, cmd, signals, cut>>

\* With PID 1 the kernel ends every process of the container.
EndAll ==
    /\ Goto("ended")
    /\ cmd' = [cmd EXCEPT !.at = "ended"]
    /\ pty' = [pty EXCEPT !.open = {}]

\* tcsetattr, then sem_post; exit if it fails.
SetRaw ==
    /\ pid1.at = "handler"
    /\ IF tty.hungup
       THEN EndAll /\ UNCHANGED tty
       ELSE /\ Goto("select")
            /\ cmd' = [cmd EXCEPT !.at = "run"]
            /\ tty' = [tty EXCEPT !.mode = "raw"]
            /\ UNCHANGED pty
    /\ UNCHANGED <<pend, signals, cut>>

\* A pty that nobody has open is ready: read(2) gives what is in it and then EIO.
TtyReady == tty.typed # <<>> \/ tty.hungup
PtyReady == pty.out # <<>> \/ pty.open = {}

\* select, again and again while signals interrupt it.
Select ==
    /\ pid1.at = "select"
    /\ TtyReady \/ PtyReady
    /\ pid1' = [pid1 EXCEPT !.at = "readTty",
                    !.ready = {f \in {"tty", "pty"} : IF f = "tty" THEN TtyReady ELSE PtyReady}]
    /\ UNCHANGED <<pend, tty, pty, cmd, signals, cut>>

RestoredTty == IF tty.hungup THEN tty ELSE [tty EXCEPT !.mode = "cooked"]

\* select fails other than by a signal: tcsetattr and exit.
SelectFails ==
    /\ pid1.at = "select"
    /\ EndAll
    /\ tty' = RestoredTty
    /\ cut' = TRUE
    /\ UNCHANGED <<pend, signals>>

Rc(s) == IF Len(s) < BufSize THEN Len(s) ELSE BufSize

\* Mutant: the read is not bounded by the buffer.
InputAll(s) == s

Input(s) == SubSeq(s, 1, Rc(s))
Remains(s) == SubSeq(s, Rc(s) + 1, Len(s))

\* A terminal that has hung up reads as its end.
ReadTty ==
    /\ pid1.at = "readTty"
    /\ IF "tty" \in pid1.ready /\ ~tty.hungup
       THEN /\ pid1' = [pid1 EXCEPT !.at = "writePty", !.chunk = Input(tty.typed), !.moved = FALSE]
            /\ tty' = [tty EXCEPT !.typed = Remains(@)]
       ELSE /\ pid1' = [pid1 EXCEPT !.at = "readPty", !.quit = "tty" \in pid1.ready]
            /\ UNCHANGED tty
    /\ UNCHANGED <<pend, pty, cmd, signals, cut>>

Written(room) == IF Len(pid1.chunk) < room THEN Len(pid1.chunk) ELSE room

\* write(2) puts what fits into a queue and goes on until everything is there.
Writes(at, room) ==
    /\ pid1.at = at
    /\ Written(room) > 0
    /\ pid1' = [pid1 EXCEPT !.chunk = SubSeq(@, Written(room) + 1, Len(@)), !.moved = TRUE]

Append1(q, room) == q \o SubSeq(pid1.chunk, 1, Written(room))

InRoom == InCap - Len(pty.in)
TtyRoom == TtyCap - Len(tty.queued)

\* Also of a pty that nobody has open: what it takes stays in it.
WritePty ==
    /\ Writes("writePty", InRoom)
    /\ pty' = [pty EXCEPT !.in = Append1(@, InRoom)]
    /\ UNCHANGED <<pend, tty, cmd, signals, cut>>

\* Mutant: the loop ends as soon as the command has.
ReadPtyEarly ==
    /\ \/ pid1.at = "readPty"
       \/ pid1.at = "writePty" /\ pid1.chunk = <<>>
    /\ IF "pty" \in pid1.ready /\ cmd.at # "ended"
       THEN /\ pid1' = [pid1 EXCEPT !.at = "writeTty", !.chunk = Input(pty.out), !.moved = FALSE]
            /\ pty' = [pty EXCEPT !.out = Remains(@)]
       ELSE /\ pid1' = [pid1 EXCEPT !.at = "again", !.quit = @ \/ "pty" \in pid1.ready]
            /\ UNCHANGED pty
    /\ UNCHANGED <<pend, tty, cmd, signals, cut>>

\* Mutant: only rc == 0 is the end, EIO is not.
ReadPtyEio ==
    /\ \/ pid1.at = "readPty"
       \/ pid1.at = "writePty" /\ pid1.chunk = <<>>
    /\ IF "pty" \in pid1.ready /\ pty.out # <<>>
       THEN /\ pid1' = [pid1 EXCEPT !.at = "writeTty", !.chunk = Input(pty.out), !.moved = FALSE]
            /\ pty' = [pty EXCEPT !.out = Remains(@)]
       ELSE Goto("again") /\ UNCHANGED pty
    /\ UNCHANGED <<pend, tty, cmd, signals, cut>>

\* The command's output, or EIO: select has found one of the two.
ReadPty ==
    /\ \/ pid1.at = "readPty"
       \/ pid1.at = "writePty" /\ pid1.chunk = <<>>
    /\ IF "pty" \in pid1.ready /\ pty.out # <<>>
       THEN /\ pid1' = [pid1 EXCEPT !.at = "writeTty", !.chunk = Input(pty.out), !.moved = FALSE]
            /\ pty' = [pty EXCEPT !.out = Remains(@)]
       ELSE /\ pid1' = [pid1 EXCEPT !.at = "again", !.quit = @ \/ "pty" \in pid1.ready]
            /\ UNCHANGED pty
    /\ UNCHANGED <<pend, tty, cmd, signals, cut>>

WriteTty ==
    /\ ~tty.hungup
    /\ Writes("writeTty", TtyRoom)
    /\ tty' = [tty EXCEPT !.queued = Append1(@, TtyRoom)]
    /\ UNCHANGED <<pend, pty, cmd, signals, cut>>

WriteFails ==
    /\ tty.hungup
    /\ pid1.at = "writeTty" /\ pid1.chunk # <<>>
    /\ pid1' = [pid1 EXCEPT !.at = "again", !.chunk = <<>>, !.quit = TRUE]
    /\ cut' = TRUE
    /\ UNCHANGED <<pend, tty, pty, cmd, signals>>

\* Mutant: the error path leaves the terminal as it is.
AgainKeptRaw ==
    /\ \/ pid1.at = "again"
       \/ pid1.at = "writeTty" /\ pid1.chunk = <<>>
    /\ IF pid1.quit
       THEN /\ Goto("wait")
            /\ tty' = IF cmd.at # "ended" THEN tty ELSE [tty EXCEPT !.mode = "cooked"]
       ELSE Goto("select") /\ UNCHANGED tty
    /\ UNCHANGED <<pend, pty, cmd, signals, cut>>

\* The end of the loop: tcsetattr.
Again ==
    /\ \/ pid1.at = "again"
       \/ pid1.at = "writeTty" /\ pid1.chunk = <<>>
    /\ IF pid1.quit
       THEN /\ Goto("wait")
            /\ tty' = RestoredTty
       ELSE Goto("select") /\ UNCHANGED tty
    /\ UNCHANGED <<pend, pty, cmd, signals, cut>>

\* wait_for_pid and exit.
ExitInit ==
    /\ pid1.at = "wait" /\ cmd.at = "ended"
    /\ EndAll
    /\ UNCHANGED <<pend, tty, signals, cut>>

\* A handler interrupts a write that waits for room: no handler has SA_RESTART.  The
\* write returns what it has written so far, or -1.
Blocked ==
    /\ pid1.chunk # <<>>
    /\ \/ pid1.at = "writePty" /\ InRoom = 0
       \/ pid1.at = "writeTty" /\ ~tty.hungup /\ TtyRoom = 0

Handled(sig) ==
    /\ sig \in pend /\ pid1.at # "ended"
    /\ pend' = pend \ {sig}
    /\ cut' = (cut \/ Blocked)
    /\ pid1' = IF Blocked THEN [pid1 EXCEPT !.chunk = <<>>, !.quit = @ \/ ~pid1.moved] ELSE pid1
    /\ UNCHANGED <<cmd, signals>>

\* Mutant: both calls are made on the pty.
SigwinchPty == Handled("WINCH") /\ UNCHANGED <<pty, tty>>

\* sigwinch_action.  TIOCGWINSZ of a terminal that has hung up fails, and TIOCSWINSZ then
\* sets the size from a winsize that nobody has written.
Sigwinch ==
    /\ Handled("WINCH")
    /\ \E s \in Sizes :
         /\ ~tty.hungup => s = tty.size
         /\ pty' = [pty EXCEPT !.size = s]
    /\ UNCHANGED tty

\* sigchld_action reaps an orphan, the relay passes SIGHUP on.
OtherSignal ==
    /\ Handled("CHLD") \/ Handled("HUP")
    /\ UNCHANGED <<tty, pty>>
-----------------------------------------------------------------------------
(* The terminal and the command *)

Type ==
    /\ ~tty.hungup /\ tty.keys < MaxTyped
    /\ tty' = [tty EXCEPT !.keys = @ + 1, !.typed = Append(@, tty.keys + 1)]
    /\ UNCHANGED <<pid1, pend, pty, cmd, signals, cut>>

Show ==
    /\ tty.queued # <<>>
    /\ tty' = [tty EXCEPT !.queued = Tail(@), !.shown = Append(@, Head(tty.queued))]
    /\ UNCHANGED <<pid1, pend, pty, cmd, signals, cut>>

\* Before PID 1 has a handler the signal is ignored.
Resize ==
    /\ signals < MaxSignals /\ ~tty.hungup
    /\ \E s \in Sizes \ {tty.size} : tty' = [tty EXCEPT !.size = s]
    /\ pend' = IF pid1.at \in {"start", "forked", "ended"} THEN pend ELSE pend \cup {"WINCH"}
    /\ signals' = signals + 1
    /\ UNCHANGED <<pid1, pty, cmd, cut>>

\* A process that the command has left to PID 1 ends.
Orphan ==
    /\ signals < MaxSignals
    /\ cmd.at \in {"run", "ended"} /\ pid1.at # "ended"
    /\ pend' = pend \cup {"CHLD"}
    /\ signals' = signals + 1
    /\ UNCHANGED <<pid1, tty, pty, cmd, cut>>

Hangup ==
    /\ ~tty.hungup /\ pid1.at \notin {"start", "forked", "ended"}
    /\ tty' = [tty EXCEPT !.hungup = TRUE, !.typed = <<>>]
    /\ pend' = pend \cup {"HUP"}
    /\ UNCHANGED <<pid1, pty, cmd, signals, cut>>

\* The command, or a process in the background, uses the pty.
InUse == cmd.at # "sem" /\ pty.open # {}

CmdRead ==
    /\ InUse /\ pty.in # <<>>
    /\ cmd' = [cmd EXCEPT !.got = Append(@, Head(pty.in))]
    /\ pty' = [pty EXCEPT !.in = Tail(@)]
    /\ UNCHANGED <<pid1, pend, tty, signals, cut>>

CmdWrite ==
    /\ InUse
    /\ Len(cmd.wrote) < MaxWritten /\ Len(pty.out) < OutCap
    /\ LET c == Len(cmd.wrote) + 1
       IN  /\ cmd' = [cmd EXCEPT !.wrote = Append(@, c)]
           /\ pty' = [pty EXCEPT !.out = Append(@, c)]
    /\ UNCHANGED <<pid1, pend, tty, signals, cut>>

\* The command leaves a process in the background, or opens the terminal again.
OpenPty ==
    /\ cmd.at = "run" /\ pty.open # {}
    /\ \E p \in Holders \ pty.open : pty' = [pty EXCEPT !.open = @ \cup {p}]
    /\ UNCHANGED <<pid1, pend, tty, cmd, signals, cut>>

\* The command redirects all that it has open, or the background is done.
ClosePty ==
    /\ InUse
    /\ \E p \in pty.open : pty' = [pty EXCEPT !.open = @ \ {p}]
    /\ UNCHANGED <<pid1, pend, tty, cmd, signals, cut>>

CmdEnd ==
    /\ cmd.at = "run"
    /\ cmd' = [cmd EXCEPT !.at = "ended"]
    /\ pty' = [pty EXCEPT !.open = @ \ {"cmd"}]
    /\ pend' = pend \cup {"CHLD"}
    /\ UNCHANGED <<pid1, tty, signals, cut>>
-----------------------------------------------------------------------------
Copy ==
    \/ ForkPty \/ InstallHandler \/ SetRaw \/ Select \/ ReadTty \/ WritePty \/ ReadPty
    \/ WriteTty \/ WriteFails \/ Again \/ ExitInit

Signal == Sigwinch \/ OtherSignal

Next ==
    \/ Copy \/ SelectFails \/ Signal
    \/ Type \/ Show \/ Resize \/ Orphan \/ Hangup
    \/ CmdRead \/ CmdWrite \/ OpenPty \/ ClosePty \/ CmdEnd

Spec == Init /\ [][Next]_vars

\* The kernel runs PID 1 and its handlers, and the terminal shows what it has taken.
FairSpec == Spec /\ WF_vars(Copy) /\ WF_vars(Signal) /\ WF_vars(Show)
=============================================================================
