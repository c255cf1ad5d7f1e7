---------------------------- MODULE PtyLoopProps ----------------------------
(* What the copying between the terminal and the pty must guarantee. *)
EXTENDS PtyLoop

Where == {"start", "forked", "handler", "select", "readTty", "writePty", "readPty", "writeTty",
          "again", "wait", "ended"}

\* PID 1 is at one of its system calls, holds at most one buffer, and never more than the
\* queues take is in them (child.cc:325-366).
TypeOK ==
    /\ pid1.at \in Where
    /\ pid1.ready \subseteq {"tty", "pty"} /\ {pid1.quit, pid1.moved} \subseteq BOOLEAN
    /\ Len(pid1.chunk) =< BufSize
    /\ pid1.chunk # <<>> => pid1.at \in {"writePty", "writeTty"}
    /\ pend \subseteq {"WINCH", "CHLD", "HUP"}
    /\ tty.mode \in {"cooked", "raw"} /\ {tty.size, pty.size} \subseteq Sizes
    /\ Len(pty.in) =< InCap /\ Len(pty.out) =< OutCap /\ Len(tty.queued) =< TtyCap
    /\ pty.open \subseteq Holders
    /\ cmd.at \in {"none", "sem", "run", "ended"}

Numbers(n) == [i \in 1 .. n |-> i]

Chunk(at) == IF pid1.at = at THEN pid1.chunk ELSE <<>>

\* As long as no write was cut short, what the command wrote is on the terminal, in the
\* buffer or in the pty, and what is typed while somebody has the pty open reaches them,
\* each in order; and if the terminal does not end first, the loop is left only when
\* nobody has the pty open and all that was written to it is taken (child.cc:325-366).
NothingLost ==
    ~cut =>
        /\ tty.shown \o tty.queued \o Chunk("writeTty") \o pty.out = cmd.wrote
        /\ pty.open # {} /\ ~tty.hungup =>
             cmd.got \o pty.in \o Chunk("writePty") \o tty.typed = Numbers(tty.keys)
        /\ pid1.at \in {"wait", "ended"} /\ ~tty.hungup => pty.open = {} /\ pty.out = <<>>

\* However the loop ends, by either end, a failed write or select, the terminal has its
\* settings back when the user's shell continues (child.cc:345, 367).
SettingsRestored == pid1.at \in {"wait", "ended"} /\ ~tty.hungup => tty.mode = "cooked"

\* A resize that PID 1 is told of reaches the pty, unless PID 1 or the terminal ends
\* before (sigwinch_action, child.cc:131-141).
SizeFollows == "WINCH" \in pend ~> (pty.size = tty.size \/ tty.hungup \/ pid1.at = "ended")

\* PID 1 waits for room in the pty.
Stuck == pid1.at = "writePty" /\ Blocked

\* When the command has ended and nobody has the pty open any more, PID 1 ends, whatever
\* the loop is doing; a slow terminal and signals only delay it, and nothing but a pty
\* full of input that nobody will take keeps it from it (child.cc:325-382).
EndsWhenClosed ==
    (cmd.at = "ended" /\ pty.open = {}) ~> (pid1.at = "ended" \/ Stuck)

-----------------------------------------------------------------------------
(* What the code does not keep. *)

\* PID 1 ends with the command (child.cc:325-382).
EndsWithCommand == cmd.at = "ended" ~> pid1.at = "ended"

\* It ends when, besides, nobody has the pty open: input does not hold it up (child.cc:352).
EndsWithInput == (cmd.at = "ended" /\ pty.open = {}) ~> pid1.at = "ended"

\* The command has its terminal to its end (child.cc:358-365).
LeftAfterCommand == pid1.at = "wait" /\ ~tty.hungup /\ ~cut => cmd.at = "ended"

\* The pty never gets a size but the terminal's (child.cc:133-140).
SizeIsReal == [][pty'.size # pty.size => pty'.size = tty.size]_vars

\* A resize during the start reaches the pty as well (child.cc:270-313).
SizeKnown == pid1.at = "select" /\ "WINCH" \notin pend => pty.size = tty.size

\* Everything that the command wrote is shown (child.cc:353-361).
OutputShown == pid1.at = "ended" /\ ~tty.hungup => tty.shown \o tty.queued = cmd.wrote

\* PID 1 always gets around to the output of the command (child.cc:344-361).
OutputTaken == pty.out # <<>> ~> (pty.out = <<>> \/ pid1.at \in {"wait", "ended"})
=============================================================================
