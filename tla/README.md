# LDiskpart in TLA+

LDiskpart is a Linux port of ReactOS' diskpart: an interactive program that
selects a disk, a partition or a volume and runs commands on the selection. The
port is an alpha. Several of its source files still carry their own `main`,
their own copies of the shared variables and stubs of functions that another
file implements, so the repository is not one linked program. This project
models each part as its file is written and composes the parts through the
globals and prototypes of `diskpart.h`. A command uses the helper defined in
its own file when there is one, and the one of `partlist.c` otherwise.

## The system

| part | source | state it keeps | operations |
|---|---|---|---|
| session | `diskpart.h:186-194`, `select.c` | disk and volume lists, `CurrentDisk`, `CurrentPartition`, `CurrentVolume`, `errno` | select disk / partition / volume |
| editing | `setid.c`, `inactive.c`, `uniqueid.c` | partition type, boot indicator, signature, dirty flag | setid, inactive, uniqueid disk |
| partition list | `partlist.c`, `rescan.c`, `list.c` | the same entries | UpdateDiskLayout, WritePartitions, RemoveVolume, rescan, list |
| interpreter | `interpreter.c`, `help.c` | the line, `bWhiteSpace`, `bRun`; the table `cmds` | InterpretMain, InterpretScript, InterpretCmd, help |
| program | `diskpart.c` | flags, script, timeout, result | main, RunScript, InterpretMain |
| clean | `clean.c` | the device, the size, what is written | clean, clean all |
| delete | `delete.c` | the MBR of a device, a copy in each process | delete_partition |
| active, create | `active.c`, `create.c` | libparted's table in memory and on the device, the objects to release | select_partition, set_partition_active, create |
| views | `detail.c`, `list.c` | none; they read the session | detail disk / partition / volume, the units of list |
| read-only | `dump.c`, `gpt.c`, `filesystems.c` | none | print |
| format | `format.c` | none | runs mkfs |
| helpers | `misc.c` | none | digit and prefix checks, RoundingDivide |
| stubs | `add.c`, `assign.c`, ... (21 files) | none | return a constant |

The parts interact as follows. `main` either runs the prompt loop or a script;
both hand lines to the interpreter, which splits them, looks up an entry of the
command table and calls its function. A command reads and changes the session's
globals. `active`, `create` and `delete` are programs of their own that act on
a device, so several of them may run at the same time. Nothing runs
concurrently inside one program.

What is hard about this code, and what each part must get right:

* *Session.* The three selections are separate globals that every command
  changes on its own. A long sequence of legal commands must not leave a
  partition of one disk in focus together with another disk, or a volume that
  was freed. Two traversals, in `list.c` and `select.c`, must number the
  entries alike, also after `setid` made an entry unused. `errno` survives from
  one command to the next.
* *Interpreter.* The argument loop exists twice. The prompt's copy carries
  `bWhiteSpace` from line to line, lines come in pieces of the buffer's size,
  and quotes may stay open. The search of the table exists twice as well.
* *Program.* Flags take values that may look like flags. The exit status is all
  a calling script sees.
* *Clean.* Writes are short or fail, the recorded size is not always the
  device's, and the process may be killed.
* *Delete.* Read, change and write back without a lock, then a request to the
  kernel that may fail.

* *Active and create.* Several programs read, edit and write back one table
  without a lock. Any call to libparted may fail, each failure has its own list
  of objects to release, flags may be refused one by one, and a size in bytes may
  wrap.
* *Views.* detail computes an offset with the sector size of one disk and searches
  with that of another; list changes its unit at thresholds, where rounding must
  not turn the order around.
* *Help.* What help lists under a command and what the interpreter runs come from
  two searches of one table.

Every hazard has its line in `PROJECT.json`, with the properties that cover it.

## Modules

| module | models | corresponds to |
|---|---|---|
| `Focus` | abstract: what the selection promises | the comment and names of `diskpart.h:186-194` |
| `DiskSession` | session, editing, partition list | one action per command; the variables are the globals and the fields of the entries |
| `MCDiskSession` | two instances of it | - |
| `Units` | the units of list, RoundingDivide | operators; no state |
| `SessionViews` | detail and what list shows | operators on the state of `DiskSession`, which it extends |
| `Interpreter` | interpreter and the search of help | `GetLine` is fgetws, `Interpret` the loop body with the command it calls |
| `MCInterpreter` | a table and inputs | - |
| `Startup` | program | one action per kind of flag and per line |
| `MCStartup` | argument lists | - |
| `Wipe` | abstract: what cleaning a disk promises | - |
| `Clean` | clean | one action per system call |
| `MbrDelete` | delete, several processes | one action per system call |
| `TableEditing` | abstract: what tools that edit one table promise each other | - |
| `Parted` | active and create, several processes | one action per call to libparted |
| `MCParted` | a device of three sectors and arguments | - |
| `*_proofs` | the theorems about the module they extend | - |

Operators marked `faulty` are variants of the operator that follows them, each
with one plausible mistake. No specification uses them; putting one in place of
the right operator makes the property it was written for fail.

**DiskSession.** A disk, a partition and a volume are model values. The lists are
constants because nothing in the code fills them (`diskpart.c:53-73`). `reply`
records the last command, whether it reported success, the number it was asked
for and the number it said; `unsaved` and `visited` are history. A decimal
argument is a natural number that passes through `Saturated` (strtol) and
`ToInt` (the assignment to an int). Arguments of setid are bytes, or one of two
values for an argument that is not `id=` and one that is malformed. All the checks
of a command that only print and return are one action (`Report`). `RemoveVolume`
has no caller in the repository; it is an operation of the session that can
happen at any time.

**Interpreter.** `input` is everything on stdin, or in the script, and `position`
the next character, so a line that exceeds the buffer arrives as several lines
with the same meaning of `position`. Arguments are the positions where they
begin; the loop's flags at a character are functions of the text before it
(`InQuote`, `AfterCut`). The command table is external: `interpreter.c:25` says
it is the same as the original's. `TableAssumption` states what is used of it,
that the entry of a group comes before those of its members, and `NamesAssumption`
that no two entries have the same names. `Undocumented` are the entries whose help
is `IDS_NONE`, which help does not list. `Returns` says what
a command may return; the stubs and `select.c`, `clean.c`, `rescan.c` and others
return 0 for success.

**Startup.** A script and stdin are a number of pieces. `InterpretScript` returns 1
as the stub of `diskpart.c:29` does, or 0 or 1 as the one of `interpreter.c`
may. The lists of disks and volumes are a counter, which `main` must bring back
to zero on every path. What `main` should accept is stated apart from its loop:
an argument is a flag unless it stands behind a flag that takes a value. `FlagPlaces`
is the least set of places closed under that rule, so the grammar needs no recursion.

**Clean.** Sizes are in sectors. `write` zeroes any number of sectors up to what it
was asked for and up to the end of the device, or fails; it never returns 0 on a
block device before its end. The user may clean again at any time, on a disk
that was used in between. The arguments are one word.

**MbrDelete.** An entry of the MBR is in use or not. Each process has its copy
`mbr_data`. A failing ioctl is a warning, as in the code.

**Parted.** Each process is one run of either program after the other; `job` holds
its arguments, `table` its PedDisk, and `held` the objects of libparted it has to
release, among them the geometry of `create.c:95` and the constraint of `create.c:129`. libparted is external. A commit writes the whole table or nothing, and one
that reports failure may have done either. `ped_partition_set_flag` may refuse any
flag, and the code ignores it. The free region that libparted offers lies in no
partition and may be any such region; that libparted would refuse an overlap is
not assumed, so `NoOverlap` rests on the comparison of `create.c:110`. libparted
refuses a partition that ends before it starts, which is where a size that wraps
to nothing ends. A failed commit of create releases the partition and then the
table that owns it (`create.c:140`): what the second release does is undefined, and
the process may die there or go on. `latest`, `unset` and `uncleared` are history;
`misfreed` remembers where a process released something twice.

**SessionViews and Units.** detail and list change nothing, so they are operators on
the session's state. Extents, sector counts and sector sizes are constants, like
the lists. `K` stands for 1024: TLC's integers have 32 bits, and a small `K` puts
sizes on both sides of every threshold. Sums of 64 bits do not wrap in `Units`.

## What is checked

Runs that pass:

| run | bounds | shows |
|---|---|---|
| `session` | 2 disks (one with a primary and a logical partition), types 0, 7, 0x42, any initial types and boot indicators, ints of 3 bits and longs of 4 | the selection is consistent, edits stay on it, list and select agree on numbers, failures leave the selection alone |
| `session_lists` | 3 disks, 2 volumes with several extents, sizes around every threshold for K = 4 | the enumeration is complete, a freed volume is not in focus, what detail shows agrees, what list disk, volume and partition show is near the true sizes, `Focus` is implemented |
| `interpreter` | a buffer of 7 characters, two words and up to six more characters, 3 arguments, a table of 7 entries in 3 levels | lines and words are split rightly, the right entry runs, help explains it and lists what would run, the loop ends |
| `startup` | all lists of up to 5 of 6 arguments, 0 to 2 pieces of input | the flag loop accepts the grammar stated on its own, the status is true, main ends |
| `clean` | buffer of 2 sectors, device of 5, recorded size 0, 1, 3, 5 or 6 | success means that the promised part of the device is zero unless the recorded size falls short of it, `Wipe` is implemented, the loop ends |
| `parted` | 2 processes, 3 sectors, 3 partition numbers of which 2 are not logical, a megabyte of 2 sectors, numbers of 4 bits, so that a size of 4 megabytes wraps to none, 2 tables | partitions never overlap, at most one is active, success is on the device with the size asked for, all but two objects of create are released, once, `TableEditing` is implemented |
| `delete` | 2 processes, 2 slots, indexes 0 to 3 | no other entry is harmed, deletions stick unless a stale copy is written, the kernel's table is current |

Why the bounds are enough. The session's commands look at one disk, one
partition or one volume and at whether it is the selected one, so two of each
kind separate all cases; three disks make a middle one for the enumeration. The
widths put a number on each side of an int and of a long. The buffer of the
interpreter ends at every place of the texts: inside a word, in quotes, at a
blank, and on a newline. Four words exceed the longest name and the argument
limit. Five arguments leave one behind a script and a timeout with their values.
The sizes of `clean` are unknown, below one buffer, between one and two, equal
to the device's, and beyond it. Two processes are enough for a lost update, and
for one to read between another's edits and its write. Three sectors leave a free
one between two partitions of the table that is not empty, and on the empty one a
region that is larger than the partition asked for, equal to it, or too small; two
of the three numbers can be taken by primary partitions, so that numbers run out.
The theorems below hold for all other values.

What some properties except. A property that would be false of the code in a case
says so in its comment and names the case, so that nothing else may go wrong:

* `WordsStayWhole` counts quotes from the start of a line, as the loop means them,
  and demands that each argument at the prompt begins a word of the whole line. It
  excepts `CutInQuotes`: `bQuote` is set anew for every piece (`interpreter.c:149`),
  so where the buffer ends inside quotes, the rest of a quoted word is run as words
  of a command of its own. Without the exception the run fails.
* `SuccessMeansWiped` compares with what the messages promise (`diskpart_msg.mc:607-616`):
  the whole device, or its first and last MB. It excepts recorded sizes that fall
  short of the device, of which `clean.c:64` takes no second look: clean then reports
  success with sectors left. Of those it says that the region of that size is zero.
* `ReleasedOnce` allows create to leave the geometry and the constraint, which no path
  of it destroys, and to release the partition twice after a failed commit.
* `ReportedIsOnDevice` excepts a boot flag that libparted refused to set, and the size
  of a partition whose bytes wrap at 2^64.
* `FailureKeepsFocus` lets the end of `select disk next` drop disk and partition,
  both together. `EnumerationComplete` speaks of enumerations that no `select disk N`
  has moved.
* `DeletionsStick` excepts an entry written back from a stale copy, which is what
  `delete_race` shows, and `KernelCurrent` a request that the kernel refused or a kill lost.
* `StatusIsTrue` says of a script that failed that it could not be opened or that
  `InterpretScript` may return 0, which in the run it may.

Runs that show a disagreement between the code and what it says of itself:

| run | what happens |
|---|---|
| `setid_zero` | `setid` with no `id=` argument writes type 0, which `setid.c:94` says is not allowed |
| `inactive_unwritten` | `inactive` reports success although `UpdateDiskLayout` cleared the dirty flag and nothing is written (`inactive.c:39`) |
| `stale_errno` | after one number that is out of range, `select disk 0` is refused until `uniqueid` resets `errno` (`select.c:131`) |
| `success_exits` | `rescan` succeeds with 0, which ends the prompt loop or the script (`rescan.c:31`, `interpreter.c:173`) |
| `delete_race` | an entry reported as deleted is back, written by another process (`delete.c:71`) |

Smaller disagreements were noticed and have no run. A number beyond an int
selects the disk it wraps to (`select.c:130`; add 8 to `Typed` in
`stale_errno.cfg`). `select partition` shows the kernel's number, not the one it
accepts (`select.c:183`). The help writes CLEAN [ALL] and the code accepts only
`all` (`clean.c:44`). The usage text makes /S optional, but a timeout alone is an
error (`diskpart.c:192`). An argument that begins with a quote is dropped by both
loops (`interpreter.c:111`, `163`). create accepts a size whose bytes wrap at 2^64
and reports the size asked for (`create.c:31`, `147`). active reports success although libparted
refused the flag (`active.c:97`), clears the flags of primary partitions only
where `active.c:84` says all, and returns 0 when it failed (`active.c:151`). create
writes the table without telling the kernel (`create.c:138`), and destroys neither its
geometry nor its constraint on any path (`create.c:95`, `129`). clean believes a recorded
size that is smaller than the device and reports success with the rest of the disk as it
was (`clean.c:64`, against `diskpart_msg.mc:607`). A quoted word that the buffer cuts is
run from there on as a command (`interpreter.c:149`). list disk has no KB:
a disk of 1.4 MB shows as 1 MB, and a partition of 1.3 MB on it as 1331 KB
(`list.c:31`). The last line of a dump shows characters of the line before it
(`dump.c:39`).

**Fairness.** `Clean`, `Interpreter` and `Startup` assume weak fairness of the
program's own step: one process that runs is scheduled again, its system calls
return, and stdin or the script is finite. `Kill` and `Again` are not fair.
`CleanEnds` needs no fairness of its own for writes, because each write that
returns makes progress. `DiskSession`, `MbrDelete` and `Parted` state no liveness: their
commands are single steps or straight-line code.

## What is proved

All theorems hold for every value of the constants that meets the assumptions of
the module. TLC evaluates the assumptions in the runs.

* `DiskSession_proofs`. `TypeCorrect` is inductive as it stands. With it follow
  `PartitionStaysOnDisk`, `VolumeStaysAlive` (each inductive together with
  `TypeOK`), the action properties `EditsOnlyTouchFocus` and `FailuresKeepFocus`,
  and the refinement `SessionImplementsFocus`, one step of `Focus` for each
  command. `EnumerationComplete` is not inductive: that every disk was visited at
  the end follows from `SeenPrefix`, which says that while the enumeration lasts
  the visited disks are those up to the current one in list order.
  `ListedNumbersSelect` holds for lists of any length without induction: counting
  the entries in use is injective on them and stays within their number, so it
  reaches every row (`RankIsOnto`), and behind the primaries the count goes on from
  their number (`LogicalsFollow`).
* `Interpreter_proofs`. `InterpreterInv` adds to the properties what
  `bWhiteSpace` says of the character before the next line: it is FALSE only in
  the middle of a word, and TRUE only at the start or after a blank. That is why
  the prompt loop may leave out the reset. `PieceSeesQuotes` says that a piece counts
  the quotes of the whole line unless the buffer cut it inside quotes; from it follows
  that its arguments begin words of that line (`NoWordIsSplit`). `FoundHasTypedNames` derives from the
  order of the table that the entry found has exactly the names compared.
  `HelpFindsTheSame` shows that the search of `help.c` on the words behind
  `help` is the search of `interpreter.c`. `HelpOffersEveryName` follows because
  the names of an entry find that entry (`FoundByItsNames`): one before it that
  agrees as well would have a group entry of the same names.
* `Clean_proofs`. `CleanInv` adds `Progress`: in the loop the first `written`
  sectors are zero, and after the first write the first buffer is. From it
  follow `SuccessIsWiped` and `CleanImplementsWipe`. `SizeTaken` relates the size the loop
  goes by to the recorded one, so that the region wiped is the device's wherever the
  recorded size does not fall short of it.
* `MbrDelete_proofs`. `DeleteInv` adds that every copy obeys what the table on
  disk obeys, and that a copy that is not stale equals it. It holds for any
  number of processes.
* `Parted_proofs`. `TypeCorrect` is inductive as it stands. `SpaceIsFree` adds that
  the space a create has chosen is free in its own copy until the partition is
  in; with it each step is one of `TableEditing` (`PartedImplementsTableEditing`).
  `PartitionsNeverOverlap` is then proved of the abstract steps alone: whoever
  keeps to `TableEditing` has disjoint copies and writes nothing else.
  `AtMostOneActive` needs that no copy has two active primary partitions either,
  since any copy may be written next. `AllIsReleasedOnce` rests on the fact that
  what a program holds, apart from what create loses, is a function of where it is (`HeldAt`).
  `PartitionHasItsSize` follows the space from the search to the commit.
  `ReportsAreTrue` rests on `ReportOf`: a process about to commit has what it was
  asked for in its copy, and after the commit on the device, unless another process
  wrote later. A step of another process changes only the device (`StepIsOwn`).
* `Units_proofs`. From what integer division gives follow `ShownIsNear`, `DiskIsNear` and
  `SizesKeepTheirOrder` for every size and every even `K`. The order holds across
  thresholds because each is a whole number of the smaller units, and rounding
  never passes such a number.
* `SessionViews_proofs`. `DetailIsConsistent` follows from `PartitionStaysOnDisk`,
  `VolumeStaysAlive` and one more invariant, that the volume in focus is an entry
  of the list; `ListStaysNear` from `ShownIsNear` and `DiskIsNear`.

* `Startup_proofs`. `StartupInv` says of the loop that it stands at a place of
  `FlagPlaces`, or at the end, and that what it stored is what the flags before that
  place ask for; and of the program behind the loop where it may be with which
  result. That `FlagPlaces` is closed gives the next place (`FlagIsPassed`); that it
  is the least such set gives that no value is a flag (`NoFlagBehindFlag`). Both
  theorems on scripts follow, for lines of any length.

Four theorems say of a disagreement found above that it has no other cause. They
assume the cause away and prove the violated property: `IdGivenKeepsListed` (every
setid has an `id=`, `setid_zero`), `FittingNumbersAreHonoured` (every number fits an
int, `stale_errno`), `OnlyZeroExitsToo` (no function returns FALSE, `success_exits`) and
`AloneReportedIsDeleted` (one process at most, `delete_race`). The hypotheses are met
by ordinary use of the program.

Only model-checked: the liveness properties `CleanEnds`, `InterpreterEnds` and
`ProgramEnds`, since fairness is out of the prover's reach. Every invariant and action
property of the passing runs is a theorem. `NumberIsHonoured`, `FocusIsListed`,
`OnlyExitExits`, `ReportedIsDeleted` and `SuccessIsWritten` are refuted by their runs,
so no theorem states them without a hypothesis.

## Not modelled

`gpt.c`, `filesystems.c`, `format.c` and `dump.c` print or start another program and
keep no state of their own. The 21 command files without an implementation return a
constant. `DismountVolume` and the two searches for unpartitioned entries of
`partlist.c`, and `DuplicateQuotedString` of `misc.c`, have no caller in the
repository. Messages, resources, translations and the formatting of output are left
out. Memory management is left out, except that a freed volume must not be in focus
and that active and create release what they hold.

## Plan

1. `DiskSession` with `Focus`: done, with its proofs.
2. `Clean` with `Wipe`, and `MbrDelete`: done, with their proofs.
3. `Interpreter` and `Startup`: done, with their proofs.
4. `Parted` with `TableEditing`: done, with its proofs. Left: delete acting on the
   same device, which removes an entry under active and create.
5. `Units` and `SessionViews`: done, with their proofs.
6. Theorems left: that each process of `Parted` alone on a device ends with what it
   reports, and what holds of `delete` beside `active` and `create` once they share a
   device.
