# A specification of erlent

erlent runs commands in an unprivileged chroot. `uchroot` enters new user, PID and mount
namespaces, gives the container its id maps and, with `-E`, serves the new root through
FUSE so that owners and access modes are emulated: the host file system only ever sees the
calling user. This directory holds TLA+ modules of that program, TLC runs on small
instances, and proofs checked by TLAPS. Paths such as `local.cc` mean
`src/src/erlent/local.cc`; `local.hh`, `child.hh` and `erlent.hh` are in
`src/include/erlent/`, `main.cc` is `src/src/uchroot/main.cc`.

## 1. The system

| part | state | operations | interacts with |
|---|---|---|---|
| request processor (`local.cc`, `local.hh`) | the host tree with its sidecars, one static mutex | `process` for 19 requests | called by the FUSE callbacks; system calls on the host |
| path properties (`local.cc:14-94`, `main.cc:90-100`) | a list of prefixes, longest first | `addPathMapping`, `findPathProp`, `translatePath` | every request, before anything else |
| id mappings (`ChildParams`, `child.cc`) | two lists of `innerID:outerID:count` | lookup in both directions | the processor, the kernel's `uid_map` and `gid_map` |
| options (`main.cc`) | the lists, initial ids, paths | `-U -G -A -u -g -M -m -r -w` | `setup_child`, `addPathMapping` |
| launch (`main.cc`, `child.cc`, `fuse.cc`, `signalrelay.cc`) | up to six processes, two pipes, signal handlers, one temporary directory | fork, the one-byte messages `U`, `I`, `C`, waits, relays, two removals | each other, by pipe, exit status and signal |
| credentials (`child.cc:239-249`) | the ids of PID 1 | setreuid, setregid, setgroups | the kernel's maps |
| pty loop (`child.cc:265-382`) | a pty, the user's terminal, one buffer | `select` and copy; handlers of SIGWINCH, SIGCHLD, SIGHUP | terminal, command |
| FUSE layer (`fuse.cc`) | none | one callback per operation | builds a request, calls `process` |
| wire protocol, server (`erlent.cc`, `erlent.hh`, `server/main.cc`, `fuse/main.cc`) | two byte streams | serialize, deserialize, perform | the server starts the client and waits for it |
| `binddev` | none | mounts, then exec | - |

**What makes them hard.** A request of the emulation is two to four system calls on the
host, and a sidecar (`.erlent.f` for the file `f`, `.erlent` inside a directory) has no
tie to its file but its name: another thread, a crash or a failed call in between leaves
the pair broken, hard links share the sidecar inode as they share the file, and a request
that starts in a mapped directory knows no sidecars at all. Launching is six processes
without a common lock: `waitpid` races the SIGCHLD handler, signals interrupt reads, a
failure on one side must wake the other. The id lists are 64-bit numbers looked up by a
program and, separately, by the kernel. Messages have no frames, so one wrong length
damages all that follow. The pty loop serves two directions and three handlers in one
thread with blocking writes.

**Correct** means: a path stands for the host object that the options order; the
container sees a file system with owners and modes whose requests are atomic; an id
survives the way out and back; a command runs with the ids asked for; a container starts
only when its parts are ready, always ends, leaves nothing behind, returns its exit
status, and passes on SIGTERM; a remote call is answered by the reply to it, or not at
all; what the command prints is shown.

The hazards of each part, with their lines, are in `PROJECT.json` under `hazards`.

## 2. Modules

| module | what it is |
|---|---|
| `IdMap` | id translation as operators, with the widths `IdMod` (2^32) and `LongMod` (2^64); what the kernel accepts as a map and how it translates (external) |
| `IdMapProofs` | `IdsRoundTrip` and its lemmas |
| `MapOptions` | how uchroot arrives at the id maps, and when they reach the kernel |
| `Creds`, `CredsProofs`, `MCMapOptions` | `MapOptions` composed with PID 1's setreuid, setregid and setgroups, and the owners shown under `-M`; ids survive and the command gets its own, for every option list; constants |
| `HostTree` | the POSIX calls the emulation relies on, as functions on a table of entries (external) |
| `AttrFS` | abstract: a tree, the attributes of each object, atomic requests |
| `EmuAttr` | the request processor: one action per request up to its first change of the tree, then one action per further system call |
| `EmuAttrProps`, `EmuAttrProofs`, `MCEmuAttr` | its invariants, the refinement mapping to `AttrFS`, its properties; type correctness, mutual exclusion, what a reported success means (in `Regions` too), and the pairing of files and sidecars; constants |
| `PathMap`, `PathMapProps`, `PathMapProofs`, `MCPathMap` | `-M`, `-r`, `-E` and the prefix list; what they should mean, in path components and host objects; that they do, for every list of options; constants |
| `Regions`, `MCRegions` | `EmuAttr` composed with requests under a mapped directory; constants |
| `AttrFSProofs` | `EmuAttr` implements `AttrFS`, step by step |
| `Launch`, `LaunchProps`, `LaunchProofs` | the processes, pipes, signals, waits and the temporary directory; the safety of the start and the end, for every interleaving |
| `Messages` | the requests and replies |
| `Rpc` | abstract: a call that is performed at most once and answered by its own reply |
| `Wire`, `WireProps`, `WireProofs`, `MCWire` | client, two pipes and server; the refinement mapping to `Rpc`; that it is one, for messages of every length; constants |
| `PtyLoop`, `PtyLoopProps`, `PtyLoopProofs` | PID 1 between the terminal and the pty; nothing lost, for buffers of every size |

Each definition's lines are in `PROJECT.json` under `map`. Definitions with `Mutant:` in
the comment above them are plausible bugs in the definition that follows; each property
is violated when its mutant takes that definition's place.

### 2.1 EmuAttr

`ent` is the host table, sidecars included; `data` the contents of sidecar inodes, `Torn`
when too short to be read; `mutex`, `pc`, `call` and `reply` are the threads'. A thread
takes the mutex with the first system call of a request that `needsLock`, and gives it
back with its reply.

| code | actions |
|---|---|
| `emu_chown`, `emu_chmod` | `Chown`, `Chmod`: read the sidecar; then `OpenSidecar` (O_CREAT, O_TRUNC) and `WriteSidecar` |
| creat, mknod, symlink, mkdir | `Creat`, `Mkdir`: make the object, read the directory's sidecar; then open and write |
| link | `Link`, `LinkSidecar` |
| unlink | `Unlink`, `UnlinkSidecar` |
| rmdir | `Rmdir`: read and unlink the sidecar; `RemoveDir`; on failure open and write |
| rename | `Rename`, `RenameSidecar` |
| getattr, readdir | `Getattr`, `Readdir` |
| requests naming `.erlent*` | `Refuse` |
| the other requests | `PassThrough` |
| a full disk | `SidecarFault` |
| the process is killed | `Crash`; the next one starts on the tree as it is |

Reads of a sidecar are one step with the call before them. For the requests that hold
the mutex nobody can see the difference; `Readdir` and `OPEN`, which do not, touch no
sidecar.

Data is abstracted: modes are sets of the bits setgid, owner, others; the contents of
files and the time stamps are left out; names are atoms, so `isEmuFile` is "not a
client's name". `emuPrefix` matches every name that begins with `.erlent`, and a client
can ask for none of them. Ids come in as host ids (`kernelOut`) and go out through
`kernelIn`, as with FUSE.

### 2.2 PathMap and Regions

In `PathMap` strings are sequences of characters, because everything in this part of the
code is decided by characters: what a trailing slash is, whether `/a` is a prefix of
`/ab`, where the remainder begins. The reference in `PathMapProps` never looks at a
slash but one: it splits paths into components (the names of a string, in the order of
where they start), orders the options by depth and age, and resolves the result on a
host. `RightObject` compares the object that a request reaches with the object that the
options order. The one slash is that at the end of a target, which the sort key counts
because one slash is kept: of `-M X:/a/ -M Y:/a` the first covers what is below `/a`,
although Y comes later (`Slashed` in `Over`).

An insertion is stated by its position (`InsertAt`), which is what `push_front` and
`std::sort` (libstdc++) do to a sorted list of up to 16 entries; beyond that it is free to
exchange entries of equal length, and the model ends there (`MaxBindings`).

`Regions` puts a mapped directory into the tree of `EmuAttr`. The rules of a request are
those of its first path, so a rename out of the mapped directory ends there and touches
no sidecar. A client does not name sidecars in a mapped directory, although only the
emulated part hides them, and leaves the mount point alone.

### 2.3 MapOptions and Creds

One action per option, in any order, then `Defaults` and `SetMaps`. `-A` takes the first
long enough line of `/etc/subuid`. `uidmap_single` is chosen when both lists are one id
of the calling user. Whether newuidmap allows a map (its own rules) is a free choice.

`Creds` adds what PID 1 does with the maps and the initial ids. The kernel's part is
external: an id must be mapped, leaving root drops the capabilities, and without them
setregid only takes the own group. The real, effective and saved id are always equal
here, so one variable stands for the three. `mappedUid` and `mappedGid` are what getattr
says of the user's own files under `-M`.

### 2.4 Launch

`main`, `mid` (its child in the new namespaces), `fuse`, `helper` (newuidmap, newgidmap,
fusermount), `pid1`, `cmd`. A step is a system call and the code up to the next.

* *Signals.* A signal is pending until its handler runs; a process handles its signals
  before its next step, except that a `waitpid` that has begun may still return
  (`Waitpid` has no such guard). That exception is the race between `waitpid` and the
  SIGCHLD handler. SIGTERM stands for the four signals the code treats alike.
* *Pipes.* A read sees the end of a pipe only when every process that inherited the
  write end has ended.
* *Options.* `withFuse` (`-E`) and `useSub` (the maps need newuidmap) are chosen at the
  start and do not change.
* *The temporary directory.* `newroot` is not there, there, or mounted. fusermount may
  unmount it and main remove it (`Preclean`, `RunHelper`, `Rmdir`), and so may the file
  system process at its end (`TeardownFuse`, `Cleanup`).
* *Faults.* `unshare`, `map` (uidmap_single), `helper` (newuidmap, newgidmap), `mount`
  (also bind mounts and chroot), `init` (PID 1's set-up) and `fuse` (fuse_setup) may fail
  where the code checks for failure. fusermount may always fail.
* fork and exec of existing programs do not fail; pids are not used again.

### 2.5 Wire

A stream is a sequence of tokens: a number with its end mark, or one character. Reading
is one action per token, so client and server interleave within a message, pipes fill up
(`Cap`), and a process may end anywhere. A reader that wants a number and finds a
character, or the reverse, goes on as the code does, with garbage.

| code | actions |
|---|---|
| the FUSE callbacks, `process`, `serialize` | `Call`, `SendUp` |
| `Request::receive`, `deserialize` | `ReadUp`; at the end of the stream `EofUp` |
| `Request::perform`, `Reply::serialize` | `Perform`, `SendDown` |
| `Reply::receive`, `deserialize` | `ReadDown`; at the end of the stream `EofDown` |
| the callback after `process` | `Return` |
| the end of the server's main | `Wait` |

`Rpc` promises what a caller may rely on: the request performed is the request made, it
is performed at most once, and the reply is the reply to it. The only damage it allows is
to data on its way when the sender ends. The mapping takes `request`, `performed`,
`answer` and `result` as they are; pipes and readers are hidden.

### 2.6 PtyLoop

The terminal, the pty and the command are external: bounded queues of characters that
are numbered as they are typed or written. PID 1's steps are its system calls; a write
that finds no room waits, after writing what fits. `Sigwinch` and `OtherSignal` are the
handlers; they run between any two steps, and one that interrupts a waiting write makes
it return early, because no handler is installed with SA_RESTART. `cut` remembers that,
a write to a terminal that has hung up, and a failing select (`SelectFails`): the code
then drops what was left.

The loop knows nothing of the command but what the pty tells. `pty.open` says who has it
open: the command, processes that the command has left in the background, or nobody. The
command may redirect everything or open the terminal again (`ClosePty`, `OpenPty`), and
the background may last longer than the command; both read and write under the command's
name. Only when nobody has the pty open does the read fail with EIO, after all that was
written has been read; so the loop may end before the command, and may last beyond it. A
write to such a pty goes on filling it and then waits for ever, which is what Linux does.
With PID 1 the kernel ends every process of the container (`EndAll`). After a hangup
TIOCGWINSZ fails and the handler sets the pty's size all the same, from a winsize nobody
has written (`Sigwinch`).

Three things are left out: the echo of the pty and its line editing, a process that opens
`/dev/tty` again after all have closed it (PID 1 may then wait in a read that select had
found ready), and a resize of the pty by the command itself.

## 3. Runs

| run | instance | checks |
|---|---|---|
| `MCEmuDirs` | two directories, one file, two names, one thread | types; refinement of `AttrFS` |
| `MCEmuFiles` | two files, two names, ids and modes varied | sidecars and files pair up; attributes change only by chown, chmod |
| `MCEmuThreads` | two threads, one file, two names | mutual exclusion; refinement; every call returns |
| `MCRegions` | root and a mapped directory, two files, three names, one fault | a reported success is visible; link and rename carry the attributes along |
| `MCPathMap` | two of 22 `-M` arguments, four `-r` arguments, paths of up to three names | list well formed; right rules; right host object |
| `MCMapOptions` | 16 ids, sums wrap at 32, up to 4 options of 9 mappings, `-u` and `-g` of 0, 5 and -1 | ids survive; the pts group is mapped; the command runs with its ids, sees its files as its own; with `-u` and `-g` alone it starts, and with -1 never does |
| `MCLaunch` | with and without `-E`, own maps and newuidmap; child and uidmap_single may fail | types, maps before start, chroot before unmount, directory removed, termination |
| `MCLaunchTerm` | `-E`, every fault, two SIGTERMs, command need not end by itself | SIGTERM ends the container; a nonzero exit code is a real one |
| `MCWire` | a call of every kind, data of 0, 1 and 2 characters, pipes of two tokens, either side killed | types; nothing left between calls; refinement of `Rpc`; calls end; server follows; status handed on |
| `MCPty` | buffer 2, pty 1 and 3, terminal 1, two keys, three characters of output, one signal, a background, a hangup | order and completeness of both directions; settings restored; size follows; PID 1 ends when the command has and the pty is closed, or waits for room in it |

**Bounds.** Two names and two files are what link, rename-over and a stale sidecar need;
three sidecar inodes cover two files and one directory; `MCRegions` has a fourth, so that
one is always free. Two directories give a directory in a directory and rmdir's failure. Two
threads are enough for every pair of requests. In `MCRegions` the mapped directory holds
one name, chown and chmod leave the root alone, and CREAT stands for MKNOD and SYMLINK
(`Small`). Two mappings are what order, nesting and a common beginning of names need.
Sixteen ids hold the two special ids (no change, nobody), a list of two ranges and an
unmapped id. Two SIGTERMs let one interrupt a step and one arrive at the end. A message
is longer than both pipes, so that every wait for room and every cut occurs; one call of
each kind is enough because what a call leaves behind is exactly what `InSync` speaks of.
In `MCPty` a read leaves something behind, a write fits only in part, output remains when
the command ends, and two keys are one more than a pty takes that nobody reads. Runs end in states without successor (nothing left to run, options
exhausted, both ends gone), so deadlock is not an error in them; what hangs is caught by
the liveness properties instead.

**Fairness.** In `EmuAttr` a thread inside `process()` makes its next system call (the
host's calls return). In `Launch` the kernel runs each process that can run; `FairSpec`
adds that the command ends, `DaemonSpec` that it does not unless signalled. Nothing is
assumed of a SIGTERM being sent or a fault happening. In `Wire` each process makes its
next system call when that can return; nobody has to call, quit or die. In `PtyLoop` the
kernel runs PID 1 and its handlers and the terminal shows what it has taken; the command
and the background need not read, write, close the pty or end, and select need not fail.

### What the code does not keep

Two runs are expected to find a counterexample; `PROJECT.json` quotes the lines.

| run | what happens |
|---|---|
| `MCLaunchStatus` | the SIGCHLD handler takes the child's status; uchroot returns 0 |
| `MCLaunchStorm` | without `-E` the relay signals its own process group and never returns |

`DaemonSpec` of `MCLaunchStorm` states fairness, so that the counterexample is not a
system that is merely idle.

These formulas are false of the code as well. They are stated in the modules and have no
run of their own; each is an edit of a .cfg away, by which the formula takes the place of
the properties listed there.

| formula | edit | what happens |
|---|---|---|
| `RenameKeepsAttrs` | `MCEmuFiles`, `OldTree`, `OldObjects` | a file that was there before erlent and has no sidecar, renamed onto one with a sidecar, takes over its owner and mode (local.cc:259: ENOENT of the sidecar's rename is ignored) |
| `RmdirRestoresWhatItSaved` | `MCEmuDirs`, `MaxFaults = 1`, six `Sides` | a failing rmdir writes an uninitialised `Attrs` when a crash has left the sidecar short (local.cc:252) |
| `CreateSparesOthers` | `MCEmuFiles`, `MaxFaults = 2` | a crash between unlink's two steps (local.cc:244-246) leaves a sidecar that is a hard link of another name's; a creation truncates it and changes the other file's owner and mode |
| `SetsOneFile` | `MCRegions`, `RegionsSpec`, `Sides` s1 to s5, `ReqGids = {0, 1}`, `MaxFaults = 0` | a mapped rename puts another file under a name whose sidecar is hard-linked; chown of one file then changes the other's owner |
| `MappedIsFound` | `MCPathMap` | a single file given to `-M`: its outside path ends in a slash after translation, and the host answers ENOTDIR (local.cc:93) |
| `MapsAsAsked` | `MCMapOptions`, `MCWideMappings` | an inner id too wide for a uid_t is cut in the kernel's map (child.cc:538) and not in the program's list |
| `MappedIdsStart` | `MCMapOptions` | with `-U` and a non-root initial uid, setreuid costs the capabilities that setregid needs (child.cc:239-248); the command does not start |
| `MapsFirst` | `MCLaunch`, fault `"helper"` | the SIGCHLD handler reaps a failed newuidmap, which so counts as success (child.cc:607-611); the child goes on without maps |
| `ChrootBeforePreclean` | `MCLaunch`, `MaxTerm = 1` | a SIGTERM interrupts the read of the pipe and counts as the child's "chroot done" (child.cc:48-63) |
| `TempdirRemoved` | `MCLaunch`, faults `"unshare", "fuse"` | when fuse_setup fails its process exits without cleanup_tempdir (fuse.cc:378-381), and fusermount has nothing to unmount, so main does not remove the directory either |
| `FuseStartsChild` | `MCLaunch`, fault `"fuse"` only | when fuse_setup fails, main and its child wait for each other (main.cc:242) |
| `SizeKnown` | `MCPty` | a resize between TIOCGWINSZ and the handler's installation (child.cc:275-312) never reaches the pty |
| `OutputShown` | `MCPty` | SIGWINCH or SIGCHLD interrupts a write that waits for the terminal: output is dropped or the copying ends (child.cc:361) |
| `OutputTaken` | `MCPty` | PID 1 waits in a write to a pty that the command does not read, and does not take its output (child.cc:352) |
| `EndsWithInput` | `MCPty` | the command has ended and nobody has the pty open, but it is full of what was typed: PID 1 waits in the write to it for ever (child.cc:352) |
| `EndsWithCommand` | `MCPty` | a process in the background has the pty open: no read fails, and PID 1 copies on after the command's end for as long as it lives (child.cc:358-365) |
| `LeftAfterCommand` | `MCPty` | a command that redirects everything closes the pty: the read fails with EIO, and PID 1 leaves the loop and restores the terminal while the command runs (child.cc:359-364) |
| `SizeIsReal` | `MCPty`, `Sizes = {1, 2, 3}` | a resize and then a hangup: TIOCGWINSZ fails, and the pty gets the size of an uninitialised winsize (child.cc:135-138) |

Further things a reader of the models meets: a target of `-M` with a slash at its end
covers what is below it and not the directory itself; a `WRITE` whose sender ends in its
middle is performed with what memory holds in place of the missing bytes (erlent.cc:364,
`Cut` in `Rpc`); `rename` of one sidecar onto a hard link of itself does nothing, so that
a sidecar without file stays (rename(2) of two names of one inode).

So `MCLaunch` leaves the failing newuidmap, the failing fuse_setup and start-up SIGTERMs
out on purpose: what it shows holds without them.

## 4. Theorems

All are about every value of the constants: any number of threads, files, names and
directories, any id lists, buffers of any size, any number of signals and faults. The
assumptions are the ASSUMEs of the modules: constants have their types, sidecar names are
not client names, there are finitely many directories (`Below` counts its levels by them),
the id maps are lists the kernel accepts, a FUSE callback hands on a buffer with its size
(`RequestAssumption`), what system calls return has the type of the field it is sent in
(`AnswerAssumption`), there are at most 15 `-M` options, and the paths that FUSE asks for
are `/` or `/name/name...` with single slashes (`PathMapAssumption`). TLC evaluates all of
them. Some theorems have a hypothesis besides;
each leaves out behaviours in which the property is false of the code, and section 3 says
which.

| theorem | property | hypothesis |
|---|---|---|
| `EmuAttrProofs!TypeCorrect`, `MutualExclusion` | `TypeOK`, `OneInside` | - |
| `EmuAttrProofs!OkIsDone`, `MovesKeepAttrs` | `OkMeansDone`, `MovesWithAttrs` | - |
| `EmuAttrProofs!SidecarsFollow` | `SidecarsFollowFiles` | `NewTree` |
| `AttrFSProofs!ImplementsFileSystem` | `ImplementsAttrFS` | `NewTree`, `RootMapped` |
| `AttrFSProofs!AttrsOnlySetByRequest` | `AttrsOnlySet` | `NewTree` |
| `IdMapProofs!IdsRoundTrip` | an operator lemma | - |
| `CredsProofs!OptionsKeepIds` | `IdsSurvive` | `NarrowOptions` |
| `CredsProofs!OptionsTyped`, `CommandRunsAsAsked`, `PlainStarts` | `TypeOK`, `RunsAsAsked`, `DefaultsStart` | - |
| `CredsProofs!OwnFilesShownOwn`, `TtyGroupIsMapped` | `OwnFilesAreOwn`, `TtyGidMapped` | `NarrowOptions` |
| `LaunchProofs!LaunchTyped`, `NonzeroStatusIsReal` | `TypeOK`, `NonzeroIsReal` | - |
| `LaunchProofs!MapsInstalledFirst` | `MapsFirst` | `HelpersSucceed` |
| `LaunchProofs!ChrootFirst` | `ChrootBeforePreclean` | `Undisturbed` |
| `LaunchProofs!TempdirIsRemoved` | `TempdirRemoved` | `FuseSetsUp` |
| `PtyLoopProofs!LoopTyped`, `TerminalRestored`, `InputOutputKept` | `TypeOK`, `SettingsRestored`, `NothingLost` | - |
| `WireProofs!WireTyped`, `StaysInSync`, `StatusIsPassed` | `TypeOK`, `InSync`, `StatusPassed` | - |
| `WireProofs!ImplementsRpcAlways` | `ImplementsRpc` | - |
| `PathMapProofs!PathTypes`, `RulesAreRight`, `ObjectIsRight` | `TypeOK`, `RightRules`, `RightObject` | - |

**Hypotheses.** `NewTree`: erlent alone has filled the tree and the host never fails it;
files that were there before have no sidecar, and a crash leaves sidecars behind
(`RenameKeepsAttrs`, `CreateSparesOthers`). `RootMapped`: the container's root has ids on
the host, else the kernel shows the root directory as its overflow id and the abstract
file system would have to begin with it; it holds without `-u` and `-g`, and with `-A`.
`NarrowOptions`: inner ids fit in a uid_t, else `uidmap_single` installs another id than
the list has (`MapsAsAsked`). `HelpersSucceed`: newuidmap and newgidmap are not needed, or
neither fault nor SIGTERM ends them; the SIGCHLD handler can reap a failed one, and then
it counts as success. `Undisturbed`: nothing but the end of the child can interrupt main's
read of the pipe, that is no SIGTERM while newuidmap runs and no early end of the file
system process. `FuseSetsUp`: fuse_setup does not fail.

### 4.1 The emulation

`TypeOK` is inductive as it stands because it says of a thread in the middle of a request
which sidecar its next call is about (`CallOK`); without that `Put(ent, c.sidecar, ...)`
could write a sidecar under a client's name. `OneInside` is inductive on top of it:
`needsLock` is true of every request that takes more than one step, so `Continue` always
leaves the mutex with the thread.

Everything about sidecars rests on mutual exclusion in the form of `OneThreadActs`: a step
either starts a request while nobody is inside, or is the next system call of the only
thread that is, or is a request without the mutex, which reads neither sidecars nor
what the others do.

`OkIsDone` and `MovesKeepAttrs` need little about the tree, so they hold after any crash
and beside mapped directories: `TargetInv` says that a thread about to open or move a
sidecar has the one that belongs to its path, and that nobody has changed that path since.

`SidecarsFollow` is about all files at once. A tree is read as three tables: objects by
path, sidecars of files by path, sidecars of directories (`SetObject`, `SetSide` and
`SetDirSide` say what one changed entry does to them). `SidecarInv` says that with nobody
inside every file has its sidecar, and of a thread in the middle of a request which pairs
are not yet, or no more, complete (`Opening`, `Linking`, `Unlinking`, `Removing`,
`Renaming`, `HalfDone`). Hard links are where it is hard: the two names of a file must
share a sidecar, so "same file if and only if same sidecar" is carried through every
entry, and rename has the case of two names of one file, in which the host does nothing.

`ImplementsFileSystem` takes the refinement mapping of `EmuAttrProps`. That mapping picks
a writer and a sidecar by CHOOSE; `Sees` states what it gives without CHOOSE, as a
function of the tree, the sidecars' contents and the one half-done request, and `ViewSees`
shows the two equal. `ViewInv` adds to `SidecarInv` that names are only in directories
that are there, that no sidecar serves a directory and another object, and that a thread
that will write knows the sidecar of its path (`Knows`). Then each action has a lemma:
the first call of a request is the abstract request (rmdir begins with its unlink of the
sidecar, `Begin`, and takes effect with the host's rmdir), all later calls are `Unseen`,
and a request without the mutex sees the tree as it is (`ReadsKeep`). The client's tree
has fewer entries than the host's; that a directory is empty, or below another, is the
same in both (`EmptyView`, `BelowView`). The same lemmas give `AttrsOnlySet`.

### 4.2 Ids and options

`IdsRoundTrip`: under a map the kernel accepts, an id of the container goes out and comes
back unchanged through all four translations. The step that needs an argument is that the
first hit of the program's search is the only one: extents that do not overlap
(`OneExtent`), and ends that do not wrap because the kernel caps them (`ExtentBounds`).
`OptionsKeepIds` has it for the lists that the program really hands to the kernel: the
invariant (`Installed`) is that a running container's maps are the program's lists and
were accepted. In `CredsProofs`, `MapsInv` types the lists whatever `/etc/subuid` holds,
and `CredsInv` follows PID 1 through setreuid, setregid and setgroups. `PlainInv` says
that without `-U`, `-G` and `-A` each list is the one pair of the initial id and the
caller's, which is what makes the calls succeed in the order the code has them. The
kernel takes such a list exactly when the initial id is not -1 (`OneIdAccepted`), so
`DefaultsStart` says both: -1 never starts, everything else is never refused.

### 4.3 Launch

One inductive invariant, `IInv`: types (`ProcsTyped`, `WaitsTyped`, `FactsTyped`), where
each process can be and which others exist then (`Control`), who waits for whom and to
whom signals are handed on (`Waits`), what main has not started yet (`Order`), that main
cannot be interrupted before the child has its namespaces (`Unshares`), what the pipes can
hold (`Pipes`) and how many maps there are (`MapCount`). The pipes are bounded by the
order of the processes, not by the model. On top of it each property has its own:
`StatusInv` (a status that is not zero was read from a child that has ended, and is
handed on unchanged), `MapInv`, `ChrootInv`, `TempdirInv`.

### 4.4 Pty loop

`LoopIInv`: `Typed` and `Bounded`; `Flows`, that what was typed or written is, in order,
what has been taken, what PID 1 holds and what the queues hold, as long as no write was
cut and, for what is typed, somebody has the pty open (`Listening`); and `QuitInv`, that a
pty found ready stays ready, because nobody opens it again once all have closed it, so
that a loop which the terminal does not end is left only when the pty is closed and its
output is taken. Whether the command still runs then is not part of it, and cannot be.

### 4.5 Wire

Messages have no frames, so everything hangs on one fact: a reader takes exactly the
tokens that the message was written in, however long its strings, lists and data are.
Instead of an induction over the message, `ToCome` says for every state of a reader which
tokens of the message are still to come: the rest of the item it is in, then the fields
(or names) after it. `Midway` ties the reader to the message: what it has read is what the
message begins with. `TakeKeeps` is the step: the next token is the head of what is to
come, and taking it leaves the tail. It is split by what the token is: the type
(`TakeType`), a length (`TakeLength`), a number (`TakeNumber`), the count of a list
(`TakeCount`), a character (`TakeChar`), and by what follows an item (`FinishField`,
`FinishName`), where data, which has no length of its own, takes it from a field before
it. `Done`: nothing is to come exactly when the reader is complete, and then it holds the
message. That encoding lists of fields can be taken apart at the front (`FieldsFirst`,
`NamesFirst`) needs `FlattenSeq`, a recursive function, to be what it should be:
`FlattenIs` shows that from the least position at which it would not be.
`RequestSent` and `AnswerSent` show that all classes of messages are such messages: their
lists of fields have no field twice and data last, and the length that deserialize
computes is that of the data (`Sent`).

The invariant `Inv`, with nothing left to the readers, is about the pipes. `Asking`: what
is to come to a server that reads is what is in the pipe and then in the client's buffer
(`Carries`); if the client has ended, the pipe is a beginning of it (`Starts`).
`Answering`: the same in the other direction, or a reply to a read whose data was cut.
`Ending`: who can have ended with which status. At the end of a stream only data can be
completed (`TornCut`), and it becomes what `Cut` allows. Both pipes are needed at once:
that the server is in nobody's way when a call begins follows from the client having read
all of the last reply. `RemoteStep` gives each action its abstract step: `Call`, `Perform`
and `Return` are those of `Rpc`, the ends of a process are `EndClient` and `EndServer`,
all other steps stutter.

### 4.6 Paths

The code compares characters, the properties names, for options, hosts and strings of any
length; the proofs are about the two agreeing, and need no induction over strings. The
n-th name of a string is the one whose start has n starts up to it (`Nth`), so names are
counted, and lemmas about them are about cardinalities. `NthOfUnion` numbers two sets of
which one lies behind the other, and gives `ComponentsOfJoined`: the names of two strings
with a slash between them are those of the first and then those of the second.
`ComponentsOfBody` is that slashes at the end add no name, and `CleanNames` that a string
with single slashes and none at its end has its n-th name exactly between the slashes.
With those, `PrefixOfNames`: the names of one such string are the first names of another
exactly when it is that other string, or the other is `Below` it, that is, goes on with a
slash. That is the test of `isPathPrefixOf` (`Fits`, `Covers`, `FitsIsCovers`), except for
the targets that `Special` leaves out: the code does not match a slashed target with the
directory itself, nor one with doubled slashes inside, and a mapped single file is not found.

The list has one inductive invariant, `Ordering`: it is the options and the root
directory, permuted (`place`), longest first, and of equal lengths the later first
(`Sorted`). `InsertSorted` is the step: an entry put behind all that are longer keeps it
so. Lengths are characters and the order that was asked for is depth: `LengthsOrder` says
that among targets which cover one path the longer is the deeper, or the same with its
slash. It is in this lemma that a first version of `Over`, by depth and age alone, turned
out false; the run could not see it, because no two of its targets differed in a slash
only, and now has such a pair. `TheFirst` and `TheRule` make the entry that `findPathProp`
returns the chosen option, which is `RightRules`; `Translated` says that a translated path
is the outside directory, a slash, and what the target leaves of the path, which with
`ComponentsOfJoined` is `RightObject`, its error codes included.

### 4.7 Only model-checked

Liveness (`EveryCallReturns`, `Terminates`, `TermEndsContainer`, `EveryCallEnds`,
`ServerFollows`, `SizeFollows`, `EndsWhenClosed`), which the prover cannot do. Every
invariant and every action property that a run checks is a theorem, with the hypotheses
of the table above.

## 5. Not modelled

FUSE itself is always started with `-s`, so the present build calls `process` from one
thread; `MCEmuThreads` checks what the mutex is for. Two uchroot processes on one tree
share no mutex and can interleave anything; the code promises nothing there. Contents,
time stamps, access checks (`default_permissions` leaves them to the kernel), logging,
usage text and `binddev` (a straight line of system calls) are left out.

The main of the remote client stops before it would serve anything (fuse/main.cc:103): `Wire` is
about `process()`, the messages and the server, as they are called from the callbacks.
The bytes of a number are one token, so its sign and overflow are not visible there;
numbers are read into the type they were written from. `cleanup_tempdir` tries again when
rmdir answers EBUSY; an unmount in the model is done when it returns. `newroot[256]`
(child.cc:556) is one byte behind the mapping's length but in its page. Pids are not used
again, so a late signal goes nowhere (fuse.cc:291). A SIGTERM to mid after its chroot and
before its relay (child.cc:200) ends mid alone; `MCLaunchTerm` has these behaviours, and
no line says what should become of the command then. In `PtyLoop` the hangup of the
terminal and its size are the only events of a terminal; what the kernel sends to the
command's session is left to the command.

## 6. Plan

1. Done: the attribute emulation with its abstract specification, mapped directories,
   path properties, id mappings, options and credentials, launch and temporary
   directory, the wire protocol with its abstract specification, the pty loop; first
   theorems.
2. Done: every invariant that a run checks is a theorem, and so are the action properties
   of `EmuAttr` and `Regions` and the refinements of `AttrFS` and `Rpc`.
3. Perhaps later: two uchroot on one tree, should the code ever promise something of it;
   a server whose reply is cut by a full disk.
