# zkz: models, checks and proofs

zkz is an x86-64 ptrace debugger. This directory holds a TLA+ model of it, from `main`
to the end of the session: the launch with its two worker threads, the symbol loader, the
line table, the breakpoints, the execution commands and the process they control. Beside
it are the TLC configurations that check it on small programs, and TLAPS proofs, for every
program, of every safety property that a run finds true, of its refinements, and of when
the properties that a run refutes hold after all.

Contents: the [system](#the-system), the [modules](#the-modules), how the
[model corresponds to the code](#how-the-model-corresponds-to-the-code), what each
[run](#the-runs) checks, what the runs [found](#what-the-runs-found), the
[proofs](#the-proofs), what is [left out](#what-is-not-modelled) and the
[plan](#the-plan).

## The system

| part | state | operations | who it meets |
|---|---|---|---|
| breakpoint list (`breakpoint.cpp`) | `B_List`, entries with address, saved word, number, enabled | append, remove, search by number and by address, disable | the text of the process: `RemoveElement` peeks and pokes it |
| command loop and execution control (`Debugger.cpp`) | the list, the position in a command, `m_regs` | `run`/`continue`, `step`, `auto`, `break`, `breakl`, `delete`, `disable`, `set`, `info`, `exit` | the process, through ptrace and waitpid |
| session flags (`debug.cpp`) | `b_is_running`, `b_is_sys_stopped`, `is_systrace`, pid, pathname | setters, getters | read by every guard of the command loop |
| register commands (`registers.cpp`) | none of its own | `InfoRegister`, `SetRegister` | registers of the process |
| launch and attach (`Debugger.cpp`) | pid, base address, two worker threads | `ParseArguments`, `StartProcess`, `AttachProcess`, `Debugger` | fork, exec, the loaders |
| symbol loader (`parsesymbols.cpp`) | path list, symbol list, `b_load_failed` | `OpenFile`, `LoadSymbols`, `ParseDynamic`, which call one another; `listsym` | runs on a worker thread; maps files through `elfp.cpp` |
| ELF file access (`elfp.cpp`) | the mapping, one file at a time | `OpenElf`, `LoadFile`, `RemoveMap` | base class of the symbol loader |
| line table (`dwarf.cpp`) | compilation units, line records | searches by line, by address | filled by the other worker thread; `breakl`, `select` |
| code injection (`inject.cpp`) | list of shellcodes | append, remove, inject, restore | compiled out of the command loop (`INJECT` is not defined) |
| process reconstruction (`reconstruct.cpp`) | an ELF image | read, write | not called |
| arguments and output (`utils.cpp`, `log.h`) | none | splitting, printing | the terminal |

The debugger is one thread once the workers of the launch are joined. The other
actor is the traced process, together with whoever sends signals to it. The two
interact through the text (the debugger writes `int3` bytes into it, and a ptrace
word is longer than the instruction it patches), through the instruction pointer,
and through stops.

What is hard about this code, and what makes it correct:

- **A breakpoint is a lie about the text.** The process must see its own
  instructions, whatever the order in which breakpoints are placed, hit, disabled
  and removed. `PlaceBreakpoint` saves eight bytes and patches one; restores write
  eight. Entries that share a word can save and restore each other's `int3`.
- **A stop is an inference.** The code decides that a breakpoint was hit when an
  entry lists `rip - 1`. A step, a signal or a system call can stop the process
  there too.
- **Every wait can end in three ways**, and the callers treat them differently: an
  exit, a stop, a fatal signal; the process can die between any two requests.
  The code must never go back to the prompt while the process runs, believe it gone
  while it lives, or give up on it because a request failed that should not have.
- **Numbers and positions.** Breakpoint numbers come from the length of the list
  and are searched for behind a guard on that length.
- **Something must come back.** `step` and `continue` loop over stops; the prompt
  must return, with programs that never end too. The launch waits for the child and for
  two threads.
- **Three threads and a child start at once**, and `Debugger` can return between the
  creation of the threads and their joins. What the threads fill, the prompt reads with no
  lock, and the flags they set must tell the truth about it.
- **The loader's calls share one mapping.** A nested call unmaps the file of its caller,
  its result is dropped, the clean-up of a failed call frees what the symbol list still
  holds, and the search for what was loaded already never finds anything.

`PROJECT.json` lists each of these hazards at its line, with the properties that
watch it.

## The modules

| module | what it is |
|---|---|
| `BreakpointList` | operators of the list: a sequence of records |
| `Debuggee` | the traced process, the kernel and the CPU (external: modelled from the requests the debugger makes) |
| `Program` | the abstract specification: the debugged program with no debugger |
| `DebugSession` | extends both: the command loop, its functions, the process beside it; the properties |
| `LineTable` | operators of the line table: loading, and the searches by unit and line |
| `LineSession` | extends both: `select`, `breakl` and the base address beside everything `DebugSession` does |
| `SymbolLoader` | the thread that loads symbols: files, paths, symbols, and the stack of its nested calls |
| `Launch` | extends `LineSession` and `SymbolLoader`: the whole program, its main thread, both worker threads and the child between fork and exec |
| `MCSession`, `MCLines`, `MCLaunch` | small programs, line tables and file systems for TLC |
| `BreakpointListProofs` | lemmas about the operators of the list, and an induction up to a number |
| `DebugSessionProofs` | the invariants of `DebugSession` |
| `TransparencyProofs` | `DebugSession` implements `Program`, and who disarms a breakpoint |
| `HazardProofs` | where the hazards of `DebugSession` come from, and the sessions that have none |
| `LineTableProofs` | lemmas about the operators of the line table: concatenation, extremes, the searches |
| `LineSessionProofs` | the theorems about `LineSession` |
| `SymbolLoaderProofs` | the theorems about `SymbolLoader` |
| `LaunchProofs` | the theorems about `Launch` |

`DebugSession` implements `Program`: `At`, the instruction that has still to
complete, is the image of the instruction pointer under the refinement mapping, and
`Transparent` is the abstract specification as a property. `LineSession` implements
`DebugSession`, and `Launch` implements both `DebugSession` (its `SessionFollows`) and
`SymbolLoader`; all of it is proved, so that what is proved of a part holds of the whole
program.

## How the model corresponds to the code

**Text.** `mem` is an array of bytes. A word has `WordSize` bytes, two in the runs
and eight in the code; what matters is that it spans several instructions. An
instruction is a range of bytes, and the program is the relation `Succ`. Code that
differs from the image is `Garbled`: the process goes anywhere or stops at a signal.
`Mapped` says which words ptrace can reach.

**The process.** `tstate` is the ptrace state: `stopped`, resumed by CONT
(`running`), SYSCALL (`tracing`) or SINGLESTEP (`stepping`), a zombie (`exited`,
`killed`) or `reaped`. `why` is the cause of the last stop; no action of the
debugger reads it, since the code never looks at the status beyond its kind, and
only `hist` and the properties do. `syscall` is the call a syscall-enter stop is at.

**The debugger.** `pc` is the place where it is. A label is a place where the other
actor can do something: the prompt, each `waitpid`, the code behind each `waitpid`,
and the heads of loops. Between two labels the code makes ptrace requests on a
stopped process only, which nobody can resume meanwhile. What can happen is a kill,
which makes the requests behind it fail. In most functions the first and the later
requests lead to the same exit, so that the kill may as well have come before. In
`RestoreBreakpoint` they do not: its callers compare the result with `< -1`, which no
failure is, so a kill before any of its four requests leaves a zombie that nobody has
waited for and sends the debugger on to the prompt or the loop. `RestoreBreakpoint` has
a disjunct for that.
`ContinueExecution` calls itself in tail position, so the recursion is a loop.
`after` is where `RestoreBreakpoint` returns to, and `stepI`, `stepN` are the locals
of `StepX`. The locals are reset when the function is left.

| code | action |
|---|---|
| `break`, `PlaceBreakpoint` | `Break` |
| `delete`, `RemoveElement` | `Delete` (per number of the command line) |
| `disable`, `DisableBreakpoint` | `Disable`; the null pointer of a failed search ends the debugger |
| `run`, `continue` | `Continue`, then `ContinueExecution`, `ContinueWait`, `ContinueStopped` |
| `run` behind an exit | `Restart` |
| `step n`, `StepX` | `Step`, then `StepX`, `StepXWait`, `StepXStopped` |
| `auto`, `StepAuto` | `AutoCommand`, then `StepAuto`, `StepAutoWait`, `StepAutoStopped`, `StepAutoTest` |
| `RestoreBreakpoint` | `RestoreBreakpoint` inside the `...Stopped` action, then `RestoreWait` |
| `WaitForProcess` | `WaitForProcess`, with the three branches its caller takes |
| `set`, `SetRegister`; `info`, `InfoRegister` | `Set`, `InfoRegister` |
| `exit`, `KillProcess` | `Exit` |
| `select` | `Select`; the range is checked behind the assignment, or not at all |
| `breakl`, `GetAddressByLine` | `BreakLine` |
| `InitDebugLines`, `ParseLines`, `GetBaseAddress` | in `LineSession` the initial table; in `Launch` the thread: `OpenLines`, `ParseUnit` per unit, `UnitThrows` |
| `main`, `ParseArguments` | `ParseArguments` |
| `StartProcess` | `Debugger_` (the fork), `Exec` (the child), `StartProcess` (the wait and its three results) |
| `Debugger` behind it | `CreateLines`, `CreateSymbols`, `GetRegs`, `JoinSymbols`, `JoinLines`, then `Session` |
| `OpenFile`, `OpenElf`, `LoadFile` | `OpenElf`, `OpenFileFails` |
| `LoadSymbols` up to its call, and the scan in `ParseDynamic` | `LoadSymbols`, `LoadSymbolsFails`, `ScanFails`, `StackOverflow` |
| the loop of `ParseDynamic`, and its ends | `ParseDynamic`, `ParseDynamicReturns`, `ParseDynamicFails`, `PathOverruns` |
| `dyn_failed` of `LoadSymbols` | `DynFailed`, in each action that takes it |
| `listsym` | `ListSyms`, where it reads behind the list; otherwise it prints |
| end of input, missing or malformed argument | `InputError`, `BadArgument` |

Undefined behaviour is a choice over what the build can do. The registers passed by
value to `PTRACE_SETREGS` are read through a stray pointer: the request fails or
loads any `rip`. The loop condition of `auto` reads a variable nobody assigns: it
goes on or ends. The smallest line number of a unit starts from an uninitialised
`int`: any value. The loops and null pointers with no defined end are the end of the
debugger.

**The loader.** Its recursion is `frames`: one frame per active `ParseDynamic`, with the
file it scanned, the loop index, and `syminfo` of the `LoadSymbols` that called it, which
is null, set, or a block whose `m_symbol` nobody assigned. `worker` is the label. A file is
its function symbols (with an address or not) and its dynamic entries, in order; paths are
strings, concatenated as the code does, without a separator. An entry of `P_list` carries
the buffer it is in, because `SearchForPath` compares pointers. Each allocation may fail.

**The launch.** `main` is the place of the main thread, `lineThread` and `worker` those of
the other two. While `main` is not `MainLoop`, `pc` stays at the prompt to come and the
process of `Debuggee` is the one that the exec will stop; `child` says what there is in
its place (`forked`, `stopped` at its exec, `interrupted` by another signal before it, a
zombie, `reaped`, or `traced`). `StartProcess` takes any stop for that of the exec, so a
launch goes on with an interrupted child too; it is followed up to the prompt and no
further (`Over`), since what would be debugged there is not yet the program. A program
that ends on the way is `Abandoned`: by its arguments, a failed fork, a child that exits, a
failed `PTRACE_GETREGS` (which destroys two joinable threads), an exception of libelfin, or
a crash of the loader.

**The base address** that `GetBaseAddress` reads is kept in an `int` (`Debugger.h:30`):
`BaseAddress` cuts it down to `IntLimit`, and `ParseLines` adds it modulo 2^`AddressBits`.

**`hist`** is a history variable that no action reads. It records that a hazard has
happened: a word was saved that was not the image's (`overlap`), a breakpoint was
restored at another address (`misrestore`), a stop was taken for a hit that it was
not (`falsehit`), registers came from a stray pointer (`setregs`). Properties that
the code cannot keep behind such an event name it; the events themselves are what
the runs that expect a violation show.

## The runs

Bounds are constants and appear in guards: `MaxBreakpoints` entries, `MaxSteps` as
argument of `step`, `MaxSignals` signals from outside, `MaxOrphans` processes
lost in a restart. Two breakpoints are enough for a pair that shares a word, for a
duplicate and for a number that outlives a deletion. Step counts up to two reach a
loop counter of zero and of one, right and wrong for `rip - i`. One signal can
arrive at any instruction.

- **transparent** (`MCTransparent.cfg`): program Four, two breakpoints out of two
  that share a word, one apart, and an unmapped address; a branch that may fault.
  Checks `TypeOK`; `HitIsHandled`: a process stopped behind an `int3` is with the command
  that resumed it, which finds the entry and steps over the instruction before anything
  else, whatever kill comes in between; `DisarmedByOwner`: while no two breakpoints share a
  word, an `int3` disappears only by its own hit or removal (what happens when they do is
  the run **neighbour**); `HazardsHaveCause`: each hazard comes only from what is named as
  its cause; and `Transparent`: the session, seen from the program, is the program. `Program`
  has no signals, so that `continue` drops them is not visible to it.
  The run stops where a hazard happens (`UntilHazard`). That loses nothing for these
  properties: `hist` only grows, they demand nothing once it is not empty (`Program` through
  `derailed`), and the step into a hazard is still checked. For `TypeOK` the theorem has no
  such limit.
- **hazards** (`MCHazards.cfg`): program Three, one breakpoint that can be placed
  again after its deletion, no constraint, so everything behind a wrong restore, a
  false hit or garbage registers is reached. Checks `PromptQuiescent` and
  `FailedHasNoProcess`, which hold behind all of them, and `MemoryFaithful`, which holds
  behind a false hit and garbage registers and says nothing behind a wrong restore or a
  shared word.
- **liveness** (`MCLiveness.cfg`): program Loop, which never ends, one breakpoint, no
  constraint, `FairSpec`. Checks `StepReturns`, `TracedContinueReturns`,
  `EnabledStops`.
- **lines** (`MCLines.cfg`): a program of two instructions under two compilation units
  that share a line number, with two records for one line and a record behind the text;
  units before, in and out of range; lines that exist, lie between and lie outside;
  an uninitialised minimum below, among and above the lines. Checks `LineTypeOK`,
  `LinesFound`, `FileLinesFound`, `LinePlacesLine`. The process is tiny since `LineSessionImplements`
  reduces the rest to the runs above.
- **launch** (`MCLaunch.cfg`): a program of one instruction, two compilation units, and one
  of five file systems: two libraries that share a third with a missing one before it; two
  that need each other; a search path without separator with symbols that have no address;
  a program that can not be loaded; one that loads entirely. Up to one failing allocation
  and a stack of four calls, one more than the longest chain without a cycle and as many as
  there are files (`RoomAssumption`, the hypothesis of `LoaderOverflows`). The child may
  exit, be killed or be stopped anywhere on its way. Checks `LaunchTypeOK`; of the loader `EveryLibraryLoaded`,
  `FailureIsReported`, `OverflowNeedsCycle`, `CrashNeedsCause`; of the launch `MainLoopIsAlone`,
  `RunsLines`, `FreedIsHidden`, `LaunchFailsForCause`, the refinement `SessionFollows`, and the liveness
  property `LaunchEnds`.
- **shared_library** (`MCShared.cfg`): the first of these file systems and no failing
  allocation; one property, which TLC finds violated.
- **pie_lines** (`MCPie.cfg`): the same file linked at another address than it is loaded
  at, with the twelve digits of a user address in the memory map; one property that
  TLC finds violated.
- **wrong_restore** (`MCRestore.cfg`), **lost_restart** (`MCRestart.cfg`), **numbers**
  (`MCNumbers.cfg`), **neighbour** (`MCNeighbour.cfg`): program Four with no constraint; one
  property each, which TLC finds violated.
- **one_shot** (`MCOneShot.cfg`): the same with one breakpoint and no signal, so that no
  other entry can have erased its `int3`; one property that TLC finds violated.

Deadlock is checked in every run. The debugger ending is not a deadlock
(`Terminating`); a wait that nothing ends would be one.

**Fairness.** `WF_vars(Debugger)`: the debugger runs when it is not waiting, and
`waitpid` returns when a status exists. `WF_vars(Followed(Execute))`: the kernel
runs a process that has been resumed. No fairness for commands, so a session may
stay at the prompt for ever, nor for signals or kills, nor for any particular branch
of the program. `auto` has no liveness property since its loop has no defined end.
`LaunchFairness` is weak fairness of the main thread, of the child up to its exec and of each
worker thread: the kernel schedules them. The steps of a thread exclude one another, so
one condition per thread is enough. None for an exception, for a signal to the child, or for
a session behind the launch.

**Every property can fail.** For each property of a passing run `PROJECT.json` names
a mutated definition under which the same run finds it violated: an entry
numbered from zero, `erase(it)` for `erase(it + i)`, the patched word saved in place
of the original, the inverse test for a placed `int3`, `WNOHANG`, an unchecked poke,
a repeated step, an ignored tracing flag, a continue behind every restore, a restore at the
instruction pointer, units counted from one, units numbered from one in the table, a count compared with an index, a zero for an absent line, a parent that does not
wait, a thread that is not joined, a flag that is not asked for or not set, sections read
again behind the nested call, the wrong path opened, no path with room for its end. The mutants are in the modules, above
what they mutate.

## What the runs found

1. **wrong_restore.** `StepX` restores a disabled breakpoint at `rip - i` with the
   loop counter `i` in place of 1 (`Debugger.cpp:241`). With `i = 0` the saved word is
   written one byte behind the breakpoint and execution resumes there, with the `int3`
   still in place.
2. **lost_restart.** `StartProcess` waits for the pid of the process that has exited;
   the new pid is stored only after the wait (`Debugger.cpp:1140`). `waitpid` fails,
   the zeroed status reads as an exit, and every `run` leaves one more process stopped
   at its exec.
3. **one_shot.** The restore of a hit writes the original word back (`Debugger.cpp:99`) and
   nothing sets the `int3` again: the entry stays enabled and the program passes it the
   second time it comes there.
4. **numbers.** `RemoveElement` refuses a number above the length of the list, and
   `AppendElement` hands out numbers again: after a deletion a listed breakpoint may
   not be removable, or another one with its number goes (`breakpoint.cpp:50`, with the
   comment "BUG" above it). The search of `disable` has the same guard, and
   `DisableBreakpoint` dereferences the null pointer that it returns (`Debugger.cpp:87`).
5. **pie_lines.** `GetBaseAddress` gives up unless the memory map begins with sixteen
   alphanumeric characters, and a user address has twelve (`Debugger.cpp:1106`). The base
   is always 0, so `breakl` aims at addresses of the file; in a position-independent
   program they are not mapped and no breakpoint is ever placed.
6. **shared_library.** `SearchForPath` compares the pointer of a buffer that was just
   allocated with those in `P_list` (`parsesymbols.cpp:108`), so a library that two others
   need is listed, opened and loaded twice, in the "vector of pathnames already searched"
   (`parsesymbols.h:11`). Libraries that need each other recurse until the stack is full.
7. **neighbour.** `RemoveElement` writes a whole word back (`breakpoint.cpp:67`). With
   breakpoints at two adjacent bytes, the deletion of the one placed first erases the
   `int3` of the other, whose entry stays listed and enabled.
Three more departures have no run of their own, but the models have them and the proofs say
how far they reach. `PlaceBreakpoint` saves the word as it is, with the `int3` of a neighbour
or duplicate in it (`Debugger.cpp:139`), so that `m_origdata` need not be the "original data at
the address" (`breakpoint.h:26`): the hazard `overlap`, with `SavedIsOriginal` in
`CarefulSessionsAreSafe`. When a signal ends the process during the single step of a restore,
`RestoreBreakpoint` reaps it and nobody clears `b_is_running` (`Debugger.cpp:132`); the next
request fails with no process (`FailureMeansNoProcess`). And what libelfin throws while the
units are read is thrown behind the try block of `InitDebugLines` (`Debugger.cpp:395`) and ends
the debugger, although `dwarf.h:23` says "if init_debug_lines fails, do not end the process":
`UnitThrows`, one of the causes in `LaunchFailsOnlyForCause`.

What a user can rely on beside these is proved. Finding 1, a saved word that is not
the original, and a step taken for a hit have one cause each (`HazardsAreCaused`); in a session whose breakpoints share no word, lie on
no instruction of one byte and stay enabled, and that does not use `set`, none of them ever
happens (`CarefulSessionsAreSafe`). As long as only the last breakpoint is removed, the number
shown for a breakpoint selects it (`NumbersArePositions`); finding 4 needs a deletion
further up. While no word is shared, finding 7 can not happen
(`DisarmedOnlyByOwner`). The table says where the process has the lines exactly if
`m_base_addr` is what the file was moved by, and since a user address has less than sixteen
digits, exactly if it was not moved (`LinesAreLocated`): finding 5 is every moved file. A
crash of the symbol loader needs a library path in the file or memory that runs out at a file
whose last function has no address (`LoaderCrashes`).

What looked wrong and is not: the uninitialised minimum of `GetMinLineNumber` never
refuses a line (`LookupIsFirst`, `FileLinesAreFound`), and the address -1 that the unsigned comparison
lets through ends in a failed poke that changes nothing (`LinePlacesLine`). A nested call of
the loader replaces the mapping of its caller, but the loop of the caller runs over copies
(`EveryLibraryLoaded`); it drops the result of the call, but the flag is shared
(`FailureIsReported`); what `dyn_failed` frees stays in the list, but `listsym` is then
refused (`FreedIsHidden`).

## The proofs

The theorems hold for every value of the constants that satisfies the named assumptions:
of `Debuggee` (sizes are positive, the image is an array of bytes, instructions lie in the
text and none starts within another, the program has no `int3` of its own, system calls fall
through), of `DebugSession` (the user breaks at instructions or outside the text; the bounds
are naturals), of `LineTable` (the widths; that 2^`AddressBits` is a positive number is part of
the assumption, since the provers know no powers), of `LineSession` (numbers are integers, in `NumberAssumption`; in `UnitAssumption` the types
of the records in the file, fewer units than a number can count, and the line addresses are
those of instructions or outside the text), of `SymbolLoader` (the types of files, and what
`Named` returns: strings, and at least one for a file whose last function has an address; both
follow by the recursion of `SelectSeq`, where the provers do not go). There is no
bound on the text, the word, the program, the number of breakpoints or steps, the libraries and
how they need each other, the depth of the stack, the units, and no constraint.

| theorem | says |
|---|---|
| `TypeCorrect` | `Spec => []TypeOK` |
| `TextIsFaithful` | `Spec => []MemoryFaithful` |
| `FailureMeansNoProcess` | `Spec => []FailedHasNoProcess` |
| `PromptIsQuiescent` | `Spec => []PromptQuiescent` |
| `DisarmedOnlyByOwner` | `Spec => DisarmedByOwner` |
| `HitsAreHandled` | `Spec => []HitIsHandled` |
| `SessionIsTransparent` | `Spec => Transparent`: the session implements `Program` |
| `HazardsAreCaused` | `Spec => HazardsHaveCause`: a foreign word is saved only next to another breakpoint, a restore goes astray only for a disabled one, a stop is mistaken only behind an instruction of one byte |
| `CarefulSessionsAreSafe` | if `[]Careful` and no `set`, then no hazard ever, `[]SavedIsOriginal`, `[]RestoresItsOwn`, and `Transparent` |
| `NumbersArePositions` | `Spec => (OnlyLastRemoved => []SelectedByItsNumber)` |
| `LookupIsFirst` | `GetAddressByLine` finds the first record of a line, for every table and every uninitialised minimum |
| `LineTypeCorrect`, `LinesAreFound` | `LineSpec => []LineTypeOK`, `LineSpec => []LinesFound` |
| `LineSessionImplements` | `LineSpec => Spec` |
| `FileLinesAreFound` | `LineSpec => []FileLinesFound`: every line of every unit of the file is found |
| `LinesAreLocated` | `LineSpec => []`, for a table that is not empty and sums that do not wrap (`AddressesFit`): `LinesAreInProcess <=> BaseAddress = LoadBias`, and with `FirstDigits < 16`, `LinesAreInProcess <=> LoadBias = 0` |
| `LinesArePlaced` | `LineSpec => LinePlacesLine` |
| `LineSessionIsSafe` | the theorems about `DebugSession` above, for `LineSpec` |
| `LoaderTypeCorrect` | `LoaderSpec => []LoaderTypeOK` |
| `LoaderLoadsAll` | `LoaderSpec => []EveryLibraryLoaded` |
| `LoaderReports` | `LoaderSpec => []FailureIsReported` |
| `LoaderOverflows` | `LoaderSpec => [](DepthSuffices => OverflowNeedsCycle)`: with room for every file once, only a cycle fills the stack |
| `LoaderCrashes` | `LoaderSpec => []CrashNeedsCause` |
| `LaunchLoads`, `LaunchLoaderIsSafe` | `LaunchSpec => LoaderSpec`, and with it the loader's theorems |
| `LaunchImplements`, `LaunchIsSafe` | `LaunchSpec => Spec`, and with it those of the session, `Transparent` included |
| `LaunchFindsLines`, `LaunchPlacesLines` | `LinesFound` and `LinePlacesLine`, for the table that the thread builds |
| `LaunchLoadsLines` | `LaunchSpec => []MainLoopIsAlone`: `MainLoop` begins behind the end of both threads, with all units in the table or none |
| `LaunchRunsLines` | `LaunchSpec => RunsLines`: from `MainLoop` on every step is one of `LineSession` |
| `LaunchFindsFileLines` | `FileLinesFound` of the table at the prompt |
| `LaunchTypeCorrect` | `LaunchSpec => []LaunchTypeOK` |
| `FreedStaysHidden` | `LaunchSpec => []FreedIsHidden` |
| `LaunchFailsOnlyForCause` | `LaunchSpec => []LaunchFailsForCause` |

The invariants, each inductive with the ones above it:

- `TypeInv` adds to `TypeOK` that inside the loop of `StepX` the counter is below the
  number of steps, without which the increment could leave its type.
- `TextInv` adds to `MemoryFaithful` that saved words are words of the image
  (`SavedImage`) and that listed addresses are mapped (`ListedMapped`).
  `MemoryFaithful` is not inductive by itself: a restore writes a saved word.
- `ControlInv` relates the label to the state of the process: away from a `waitpid` it
  is neither resumed nor an exit nobody has waited for, `Failed` means that it is dead,
  and `b_is_running` is cleared only when the process that is followed is gone (which
  `Restart` needs, whose fork may fail). `FailedHasNoProcess` needs
  `ListedMapped` as well: `RemoveElement` fails only on a word that is not there.

- `ProgramInv` (in `TransparencyProofs`) says, as long as `hist` is empty, that the place of
  the program is an instruction and a pending system call is the one before `rip`
  (`AtInstruction`), that an `int3` which stopped the process is listed and is dealt with
  before the next prompt or resumption (`HitIsHandled`, which is a property of its own), and that the single step of a
  restore is over the instruction and not over an `int3` (`StepsOverHit`). Without the second,
  a resumption could move the place of the program from `rip - 1` to `rip`; without the
  third, the step of a restore could hit again where nobody handles it. `TextInv` and
  `ListedTargets` give `FetchesInstruction`: where the process fetches, there is its whole
  instruction or a listed `int3`, so nothing is ever torn. `ProgramStep` shows of every step
  that it is a step of `Program` or a stutter (`Undisturbed`).

`HazardProofs` looks at the first step into a hazard, where `ProgramInv` still holds. A process
that no `int3` has stopped is at an instruction or, in a system call, behind the last byte of
one. If the list has the byte before, that byte starts an instruction, and as no instruction
starts within another it is an instruction of one byte (`BehindOneByte`). That is the whole
cause of a false hit. The cause of an overlap comes from `MemoryFaithful`: a word that differs
from the image has the byte of a listed breakpoint in it. `CarefulStep` then shows that no
step between careful states is the first hazard; what `TextInv` and `Program` demand without
hazards is then true for ever. `NumbersArePositions` has the invariant `Numbered`: entry `i` has number `i`.

`DebugSessionProofs` has a lemma per group of actions for each invariant, and rests on
`BreakpointListProofs` for what `AppendElement`, `RemoveElement`, `DisableElement` and
the searches return: `RemoveElementProperties` says that the remaining entries are the
old ones without the one at `RemovePosition`.

`LineTableProofs` is about operators only. Bounded sets of integers have extremes, so that the
tests before the search refuse no line of the table (`BoundsRefuseNothing`), and an answer is
an address of the asked line or `NotFound` (`LookupAnswers`). The table is a concatenation, which
the library defines as a recursive function in a `LET`, and nothing can be expanded there
without knowing that such a function exists. `ConcatenatesExists` and `ConcatenatesAgree` show
that the sequence of partial concatenations exists and that there is only one;
`FlattenValue` takes the concatenation from it, and `FlattenOneMore` is the equation that the
rest uses. The induction is `UpToInduction`, by the smallest number for which a set does not
hold; it takes a set and not an operator, which the provers can instantiate.

`LineInv` adds to `LineTypeOK` that each row comes from a record of a unit of the file
(`UnitRow`), so that its address is one of `Targets` and every `BreakLine` is a `Break` or
changes nothing. `EveryRowLoaded` is the other direction, no record is lost, and the two give
`FileLinesAreFound`. That the table has its types is proved (`LoadedRows`, `RowsTyped`), not
assumed.

`SymbolLoaderProofs` rests on `RequiredIsLeast`, that `Required` is the least set closed under
dependencies, and on invariants above the types and the shape of the stack
(`LoaderInv`): `LoaderReach`, every frame is of a listed file and nothing is listed without
need; `LoaderLosesNothing`, a listed file is about to be opened, or its functions are in the
list and it is on the stack or all it needs is listed, and a frame has listed what its file
needs up to its loop index; `LoaderFlag`, the flag is set exactly for the failures met. At the
end the stack is empty, so the second closes `Listed` under dependencies. `LoaderChain` is for
the stack: each frame is of a file that the one below it needs. Frames and the path about to
be opened are one more than `MaxDepth` files when the stack is full; with at most `MaxDepth`
files two of them are the same file, which so needs itself (`OverflowIsCycle`). `LoaderCause`
is for the clean-up: in every frame a `syminfo` that points nowhere is that of a file whose
last function was not named, so that `dyn_failed` crashes for no other.

`LaunchProofs` shows first that every step is one of the loader or leaves it alone, and one of
the session or leaves it alone (`LaunchSteps`). `LaunchControl` relates the labels of the
threads: behind a join its thread is done, there is a child only where the code has one, and
symbols are offered only when the flag is not set. `LineInv` holds of the growing table, unit
by unit, and `TableSoFar` says which units it has: those before `nextUnit`, and all of them when
the thread is done, which the join then hands to `MainLoop`.

Model-checked only: the liveness properties (`StepReturns`, `TracedContinueReturns`,
`EnabledStops`, `LaunchEnds`), since the prover does not reach fairness and `ENABLED`; and the
seven violations, which are counterexamples and need no proof.

## What is not modelled

- Printed text: registers, listings, lines, help, log levels, addresses of symbols. `auto`
  printing `rip` before it reads the registers is outside the model for this reason, and so
  are `utils.cpp` and `log.h`. How the command line is split into words is left out; what
  `ParseArguments` decides is in `Launch`.
- A session on a child that a signal stopped before its exec: the launch is followed to the
  prompt only. Its breakpoints are then placed in the child's copy of the debugger.
- The process after the debugger ends (the kernel detaches it with the breakpoints still in
  its text), and the destructors behind the end of `main`.
- The depth of the recursion of `ContinueExecution`. (That of the loader is modelled.)
- Registers other than `rip`, data memory, threads of the traced process.
- An attached process: `Debugger()` dereferences the null pathname (`Debugger.cpp:1226`)
  before it reaches `AttachProcess`, which would not set `b_is_running` either.
- Malformed ELF files behind a valid header. `elfp.cpp` is modelled as the loader uses it;
  its functions in namespace `Process` serve code injection only.
- `inject.cpp`: no object of its classes is made. The command is compiled out and has no code
  behind its prompts. `reconstruct.cpp`: not called; reading and writing of an ELF image with
  no protocol. `README.MD` says that these files will be replaced.

## The plan

Done: the whole program from `main` on (`Launch`, with `SymbolLoader`, `LineSession`,
`DebugSession` and `Program` below it), with its runs; type and safety theorems of every
module, and the refinements between them.

What could follow: a model of code injection, when the code that is announced to replace
`inject.cpp` is there and is called; a proof of the liveness properties, with a prover that
reaches fairness.
