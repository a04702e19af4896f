---------------------------- MODULE DebugSession ----------------------------
(***************************************************************************)
(* The command loop of zkz (Main::MainLoop in src/src/Debugger.cpp) and    *)
(* the functions it calls, for a process started by StartProcess, together *)
(* with the process.                                                       *)
(*                                                                         *)
(* The debugger is one thread that blocks in waitpid only.  A label of pc  *)
(* is a place where the other party can act: a command starts at           *)
(* "MainLoop"; "...Wait" is the waitpid of a function and "...Stopped"     *)
(* the code behind it; "ContinueExecution", "StepX" and "StepAuto" are the *)
(* heads of the recursion and of the two loops; RestoreBreakpoint returns  *)
(* to the label in after.  What runs between two labels makes no system    *)
(* call that waits.  What can happen between two of its ptrace requests is *)
(* a kill, which makes the rest of them fail.  In RestoreBreakpoint that   *)
(* has a branch of its own, since its callers do not ask for its failure;  *)
(* elsewhere it leaves what a kill before the first request leaves, or one *)
(* behind the last.                                                        *)
(***************************************************************************)
EXTENDS Debuggee, BreakpointList

CONSTANTS Targets,         \* addresses the user gives to "break"
          MaxBreakpoints,  \* bound: entries of the list
          MaxSteps,        \* bound: argument of "step"
          MaxOrphans       \* bound: restarts that leave a process behind

(* The user breaks at instructions, or outside the text.                   *)
ASSUME TargetAssumption == Targets \subseteq Int /\ Targets \cap Addr \subseteq Insns
ASSUME BoundAssumption ==
  MaxBreakpoints \in Nat /\ MaxSteps \in Nat /\ MaxOrphans \in Nat

VARIABLES li,          \* BreakpointList li of MainLoop
          running,     \* Debug::b_is_running
          sysStopped,  \* Debug::b_is_sys_stopped
          systrace,    \* Debug::m_arguments.is_systrace
          pc,          \* where the debugger is
          after,       \* where RestoreBreakpoint returns to
          stepI,       \* i of StepX
          stepN,       \* number_of_steps of StepX
          orphans,     \* processes StartProcess has started and lost
          hist         \* which hazards have happened (see below)

control == <<pc, after, stepI, stepN>>
flags   == <<running, sysStopped, systrace, orphans>>
vars    == <<tracee, li, flags, control, hist>>

(* Labels at which the debugger has ended: "Failed" after a failed ptrace  *)
(* request or fork, "Quit" by the exit command, and "Abandoned" by the     *)
(* input, a failed SetRegister, a crash or an uncaught exception, with no  *)
(* regard to the process.                                                  *)
Ended == {"Failed", "Abandoned", "Quit"}
Waits == {"ContinueWait", "StepXWait", "StepAutoWait", "RestoreWait"}
AfterStop == {"ContinueStopped", "StepXStopped", "StepAutoStopped"}
Resumption == {"MainLoop", "ContinueExecution", "StepX", "StepAutoTest"}
StepLabels == {"StepX", "StepXWait", "StepXStopped"}
Labels == Ended \cup Waits \cup AfterStop \cup Resumption \cup {"StepAuto"}

(* hist is a history variable: no action reads it.                         *)
(*   overlap     a breakpoint was placed on a word that is not the image's *)
(*   misrestore  a breakpoint was restored at another address than its own *)
(*   falsehit    a stop was taken for a breakpoint that it is not          *)
(*   setregs     SetRegister loaded registers from a stray pointer         *)
Hazards == {"overlap", "misrestore", "falsehit", "setregs"}
Clean == hist = {}

TypeOK ==
  /\ DebuggeeTypeOK
  /\ li \in Seq(BreakpointType(Addr, Word))
  /\ Len(li) <= MaxBreakpoints
  /\ running \in BOOLEAN /\ sysStopped \in BOOLEAN /\ systrace \in BOOLEAN
  /\ pc \in Labels /\ after \in Resumption
  /\ stepI \in 0 .. MaxSteps /\ stepN \in 0 .. MaxSteps
  /\ orphans \in 0 .. MaxOrphans
  /\ hist \subseteq Hazards

(* MainLoop is entered behind the exec stop of the process.                *)
Init ==
  /\ DebuggeeInit
  /\ li = <<>>
  /\ running = TRUE /\ sysStopped = FALSE /\ systrace \in BOOLEAN
  /\ pc = "MainLoop" /\ after = "MainLoop"
  /\ stepI = 0 /\ stepN = 0
  /\ orphans = 0
  /\ hist = {}

(* The locals of a function keep a value while the function is active.     *)
Goto(label) ==
  /\ pc' = label
  /\ after' = "MainLoop"
  /\ IF label \in StepLabels THEN UNCHANGED <<stepI, stepN>> ELSE stepI' = 0 /\ stepN' = 0

(* A request that resumes the process, and the failure it meets when the   *)
(* process is not there to be resumed.                                     *)
ResumeOrFail(mode, wait) ==
  \/ Attached /\ Resume(mode) /\ Goto(wait)
  \/ ~Attached /\ Goto("Failed") /\ UNCHANGED <<tstate, why>>

(* Mutant: waitpid with WNOHANG, whose untouched status reads as an exit.  *)
WaitForProcessNoHang(onExit, onStop, onSignal) ==
  /\ \/ tstate = "stopped" /\ Goto(onStop) /\ UNCHANGED <<tstate, running>>
     \/ tstate = "exited" /\ Goto(onExit) /\ tstate' = "reaped" /\ running' = FALSE
     \/ tstate = "killed" /\ Goto(onSignal) /\ tstate' = "reaped" /\ UNCHANGED running
     \/ tstate \in Resumed /\ Goto(onExit) /\ running' = FALSE /\ UNCHANGED tstate
  /\ UNCHANGED <<mem, rip, why, syscall, signals, li, sysStopped, systrace, orphans, hist>>

(* Main::WaitForProcess and the branch its callers take on its result.     *)
(* Only WIFEXITED clears b_is_running.                                     *)
WaitForProcess(onExit, onStop, onSignal) ==
  /\ \/ tstate = "stopped" /\ Goto(onStop) /\ UNCHANGED <<tstate, running>>
     \/ tstate = "exited" /\ Goto(onExit) /\ tstate' = "reaped" /\ running' = FALSE
     \/ tstate = "killed" /\ Goto(onSignal) /\ tstate' = "reaped" /\ UNCHANGED running
  /\ UNCHANGED <<mem, rip, why, syscall, signals, li, sysStopped, systrace, orphans, hist>>

----------------------------------------------------------------------------
(* Breakpoints in the text.                                                *)

(* (origdata & 0xffffffffffffff00) | 0xcc                                  *)
Patched(w) == [w EXCEPT ![0] = INT3]

(* Mutant: the opposite test, to restore what was not patched.             *)
HasNoInt3Bits(b) == ~(b \div 64 = 3 /\ (b \div 4) % 4 = 3)

(* (data & 0xcc) == 0xcc: the four bits of the lowest byte, not the byte.  *)
HasInt3Bits(b) == b \div 64 = 3 /\ (b \div 4) % 4 = 3

(* The callers of RestoreBreakpoint compare its result with "< -1" or drop *)
(* it, so they go on at next whether it failed or not.  It fails before    *)
(* the first change when the word is not mapped, and at whichever of its   *)
(* four requests follows a kill; the text of the dead is not followed.     *)
RestoreBreakpoint(b, address, next) ==
  /\ hist' = hist \cup (IF address # b.address THEN {"misrestore"} ELSE {})
                  \cup (IF why # "int3" THEN {"falsehit"} ELSE {})
  /\ \/ /\ Mapped(address)
        /\ mem' = WriteWord(mem, address, b.origdata)
        /\ rip' = address
        /\ Resume("stepping")
        /\ pc' = "RestoreWait" /\ after' = next
     \/ /\ IF Mapped(address) THEN tstate' = "killed" ELSE tstate' \in {tstate, "killed"}
        /\ pc' = next
        /\ UNCHANGED <<mem, rip, why, after>>
  /\ UNCHANGED <<syscall, signals, stepN, li, running, systrace, orphans>>

(* Mutant: the process is continued behind every restore.                  *)
RestoreWaitThenContinue ==
  /\ pc = "RestoreWait"
  /\ WaitForProcess("ContinueExecution", "ContinueExecution", "ContinueExecution")

RestoreWait ==
  pc = "RestoreWait" /\ WaitForProcess(after, after, after)

(* Mutant: the failure of the poke is not checked either.                  *)
PlaceBreakpointUnchecked(a) ==
  /\ Len(li) < MaxBreakpoints
  /\ LET word == IF Attached /\ Mapped(a) THEN ReadWord(mem, a) ELSE [k \in Offsets |-> 255]
     IN /\ mem' = IF Attached THEN WriteWord(mem, a, Patched(word)) ELSE mem
        /\ li' = AppendElement(li, a, word)
  /\ UNCHANGED <<rip, tstate, why, syscall, signals, control, flags, hist>>

(* Main::PlaceBreakpoint.  The failure of the peek goes unnoticed (the     *)
(* result is unsigned), that of the poke does not.                         *)
PlaceBreakpoint(a) ==
  LET word == ReadWord(mem, a)
  IN \/ /\ Attached /\ Mapped(a)
        /\ Len(li) < MaxBreakpoints
        /\ mem' = WriteWord(mem, a, Patched(word))
        /\ li' = AppendElement(li, a, word)
        /\ hist' = hist \cup (IF word # ReadWord(Image, a) THEN {"overlap"} ELSE {})
        /\ UNCHANGED <<rip, tstate, why, syscall, signals, control, flags>>
     \/ ~(Attached /\ Mapped(a)) /\ UNCHANGED vars

(* "break", for one address of the command.                                *)
Break(a) == pc = "MainLoop" /\ running /\ PlaceBreakpoint(a)

(* BreakpointList::RemoveElement for one number of the command.  The peek  *)
(* of a word that is not there reads as all ones, so the poke is tried and *)
(* fails.                                                                  *)
Delete(n) ==
  /\ pc = "MainLoop" /\ running
  /\ UNCHANGED <<rip, tstate, why, syscall, signals, flags, hist>>
  /\ \/ ~Removable(li, n) /\ UNCHANGED <<mem, li, control>>
     \/ /\ Removable(li, n)
        /\ LET b == li[RemovePosition(li, n)]
           IN \/ /\ Attached /\ Mapped(b.address)
                 /\ mem' = IF HasInt3Bits(mem[b.address])
                           THEN WriteWord(mem, b.address, b.origdata) ELSE mem
                 /\ li' = RemoveElement(li, n)
                 /\ UNCHANGED control
              \/ /\ ~(Attached /\ Mapped(b.address))
                 /\ Goto("Failed") /\ UNCHANGED <<mem, li>>

(* Main::DisableBreakpoint dereferences nullptr when the search fails.     *)
DisableBreakpoint(n) ==
  \/ FoundByNumber(li, n) /\ li' = DisableElement(li, n) /\ UNCHANGED control
  \/ ~FoundByNumber(li, n) /\ Goto("Abandoned") /\ UNCHANGED li

(* "disable" has no check that the process is running.                     *)
Disable(n) ==
  /\ pc = "MainLoop"
  /\ DisableBreakpoint(n)
  /\ UNCHANGED <<tracee, flags, hist>>

----------------------------------------------------------------------------
(* run, continue                                                           *)

Continue ==
  /\ pc = "MainLoop" /\ running
  /\ Goto("ContinueExecution")
  /\ UNCHANGED <<tracee, li, flags, hist>>

(* StartProcess behind an exit.  It waits for the process id it still      *)
(* holds, which is reaped: waitpid fails, the zero in wstatus reads as an  *)
(* exit, and the new process is neither recorded nor waited for.  Only a   *)
(* failed fork is an error to the caller.                                  *)
Restart ==
  /\ pc = "MainLoop" /\ ~running
  /\ \/ orphans < MaxOrphans /\ orphans' = orphans + 1 /\ UNCHANGED control
     \/ Goto("Failed") /\ UNCHANGED orphans
  /\ UNCHANGED <<tracee, li, running, sysStopped, systrace, hist>>

(* Mutant: the flag of the command line is ignored.                        *)
ContinueExecutionUntraced ==
  /\ pc = "ContinueExecution"
  /\ sysStopped' = FALSE
  /\ ResumeOrFail("running", "ContinueWait")
  /\ UNCHANGED <<mem, rip, syscall, signals, li, running, systrace, orphans, hist>>

ContinueExecution ==
  /\ pc = "ContinueExecution"
  /\ sysStopped' = FALSE
  /\ ResumeOrFail(IF systrace THEN "tracing" ELSE "running", "ContinueWait")
  /\ UNCHANGED <<mem, rip, syscall, signals, li, running, systrace, orphans, hist>>

ContinueWait ==
  pc = "ContinueWait" /\ WaitForProcess("MainLoop", "ContinueStopped", "Failed")

ContinueStopped ==
  /\ pc = "ContinueStopped"
  /\ \/ /\ ~Attached
        /\ Goto("Failed")
        /\ UNCHANGED <<tracee, li, flags, hist>>
     \/ /\ Attached /\ ~IsListed(li, rip - 1)
        /\ IF systrace THEN Goto("MainLoop") /\ sysStopped' = TRUE
                       ELSE Goto("ContinueExecution") /\ UNCHANGED sysStopped
        /\ UNCHANGED <<tracee, li, running, systrace, orphans, hist>>
     \/ /\ Attached /\ IsListed(li, rip - 1)
        /\ LET b == GetElementByAddress(li, rip - 1)
           IN RestoreBreakpoint(b, rip - 1,
                                IF b.enabled THEN "MainLoop" ELSE "ContinueExecution")
        /\ UNCHANGED <<stepI, sysStopped>>

----------------------------------------------------------------------------
(* step, with no check that the process is running                         *)

Step(n) ==
  /\ pc = "MainLoop"
  /\ pc' = "StepX" /\ stepI' = 0 /\ stepN' = n
  /\ UNCHANGED <<after, tracee, li, flags, hist>>

StepX ==
  /\ pc = "StepX"
  /\ \/ stepI >= stepN /\ Goto("MainLoop") /\ UNCHANGED <<tstate, why>>
     \/ stepI < stepN /\ ResumeOrFail("stepping", "StepXWait")
  /\ UNCHANGED <<mem, rip, syscall, signals, li, flags, hist>>

(* Mutant: a stop is taken for a spurious one and the step is repeated.    *)
StepXWaitRepeating ==
  pc = "StepXWait" /\ WaitForProcess("MainLoop", "StepX", "StepX")

StepXWait ==
  pc = "StepXWait" /\ WaitForProcess("MainLoop", "StepXStopped", "StepXStopped")

(* A disabled breakpoint is restored at rip - i, i being the loop counter. *)
StepXStopped ==
  /\ pc = "StepXStopped"
  /\ \/ /\ ~Attached
        /\ Goto("Failed")
        /\ UNCHANGED <<tracee, li, flags, hist>>
     \/ /\ Attached /\ ~IsListed(li, rip - 1)
        /\ pc' = "StepX" /\ stepI' = stepI + 1
        /\ UNCHANGED <<after, stepN, tracee, li, flags, hist>>
     \/ /\ Attached /\ IsListed(li, rip - 1)
        /\ LET b == GetElementByAddress(li, rip - 1)
           IN IF b.enabled
              THEN RestoreBreakpoint(b, rip - 1, "MainLoop") /\ UNCHANGED stepI
              ELSE RestoreBreakpoint(b, rip - stepI, "StepX") /\ stepI' = stepI + 1
        /\ UNCHANGED sysStopped

----------------------------------------------------------------------------
(* auto                                                                    *)

AutoCommand ==
  /\ pc = "MainLoop"
  /\ Goto("StepAuto")
  /\ UNCHANGED <<tracee, li, flags, hist>>

StepAuto ==
  /\ pc = "StepAuto"
  /\ ResumeOrFail("stepping", "StepAutoWait")
  /\ UNCHANGED <<mem, rip, syscall, signals, li, flags, hist>>

StepAutoWait ==
  pc = "StepAutoWait" /\ WaitForProcess("MainLoop", "StepAutoStopped", "StepAutoStopped")

(* Mutant: the restore of a hit is at the instruction pointer itself.      *)
StepAutoStoppedAtRip ==
  /\ pc = "StepAutoStopped"
  /\ \/ /\ ~Attached
        /\ Goto("Failed")
        /\ UNCHANGED <<tracee, li, flags, hist>>
     \/ /\ Attached /\ ~IsListed(li, rip - 1)
        /\ Goto("StepAutoTest")
        /\ UNCHANGED <<tracee, li, flags, hist>>
     \/ /\ Attached /\ IsListed(li, rip - 1)
        /\ LET b == GetElementByAddress(li, rip - 1)
           IN RestoreBreakpoint(b, rip, IF b.enabled THEN "MainLoop" ELSE "StepAutoTest")
        /\ UNCHANGED <<stepI, sysStopped>>

StepAutoStopped ==
  /\ pc = "StepAutoStopped"
  /\ \/ /\ ~Attached
        /\ Goto("Failed")
        /\ UNCHANGED <<tracee, li, flags, hist>>
     \/ /\ Attached /\ ~IsListed(li, rip - 1)
        /\ Goto("StepAutoTest")
        /\ UNCHANGED <<tracee, li, flags, hist>>
     \/ /\ Attached /\ IsListed(li, rip - 1)
        /\ LET b == GetElementByAddress(li, rip - 1)
           IN RestoreBreakpoint(b, rip - 1,
                                IF b.enabled THEN "MainLoop" ELSE "StepAutoTest")
        /\ UNCHANGED <<stepI, sysStopped>>

(* The loop condition reads the outer ret, which is never assigned.        *)
StepAutoTest ==
  /\ pc = "StepAutoTest"
  /\ \/ Goto("StepAuto")
     \/ Goto("MainLoop")
  /\ UNCHANGED <<tracee, li, flags, hist>>

----------------------------------------------------------------------------
(* The other commands.  "list", "listsym", "printb", "info registers" and  *)
(* "help" change nothing that is modelled here.                            *)

(* The loop of InfoRegister over the register table has no end.            *)
InfoRegister == Goto(IF Attached THEN "Abandoned" ELSE "Failed")

(* "info <register>"                                                       *)
Info ==
  /\ pc = "MainLoop"
  /\ InfoRegister
  /\ UNCHANGED <<tracee, li, flags, hist>>

(* The registers are passed to PTRACE_SETREGS by value, so it reads them   *)
(* through a stray pointer.  It fails, which only the form with the        *)
(* register name on the command line notices, or loads whatever is there.  *)
SetRegister ==
  \/ UNCHANGED <<rip, hist, control>>
  \/ Goto("Abandoned") /\ UNCHANGED <<rip, hist>>
  \/ /\ Attached
     /\ rip' \in 0 .. TextSize
     /\ hist' = hist \cup {"setregs"}
     /\ UNCHANGED control

(* "set"                                                                   *)
Set ==
  /\ pc = "MainLoop" /\ running
  /\ SetRegister
  /\ UNCHANGED <<mem, tstate, why, syscall, signals, li, flags>>

(* The end of the input, and an empty answer to "delete" or "disable".     *)
InputError ==
  /\ pc = "MainLoop"
  /\ Goto("Abandoned")
  /\ UNCHANGED <<tracee, li, flags, hist>>

(* "delete" and "info" with no argument read behind the vector of words;   *)
(* std::stoi throws out of MainLoop in the prompting form of "disable".    *)
BadArgument ==
  /\ pc = "MainLoop"
  /\ Goto("Abandoned")
  /\ UNCHANGED <<tracee, li, flags, hist>>

(* "exit", answered with yes.                                              *)
Exit ==
  /\ pc = "MainLoop"
  /\ Goto("Quit")
  /\ tstate' = IF tstate \in Alive THEN "killed" ELSE tstate
  /\ UNCHANGED <<mem, rip, why, syscall, signals, li, flags, hist>>

----------------------------------------------------------------------------
Command ==
  \/ \E a \in Targets : Break(a)
  \/ \E n \in 0 .. MaxBreakpoints + 1 : Delete(n) \/ Disable(n)
  \/ \E n \in 0 .. MaxSteps : Step(n)
  \/ Continue \/ Restart \/ AutoCommand
  \/ Info \/ Set \/ InputError \/ BadArgument \/ Exit

(* What the debugger does between two prompts.                             *)
Debugger ==
  \/ ContinueExecution \/ ContinueWait \/ ContinueStopped
  \/ StepX \/ StepXWait \/ StepXStopped
  \/ StepAuto \/ StepAutoWait \/ StepAutoStopped \/ StepAutoTest
  \/ RestoreWait

(* The kernel detaches the process when the debugger ends; it is followed  *)
(* no further.                                                             *)
Followed(step) == pc \notin Ended /\ step /\ UNCHANGED <<li, flags, control, hist>>

Process == Followed(Execute \/ Signal \/ Kill)

Terminating == pc \in Ended /\ UNCHANGED vars

Next == Command \/ Debugger \/ Process \/ Terminating

Spec == Init /\ [][Next]_vars

(* waitpid returns when there is a status to report, and the kernel runs a *)
(* resumed process.  Nothing makes the user type a command, and nothing    *)
(* makes a signal or a kill happen.                                        *)
Fairness == WF_vars(Debugger) /\ WF_vars(Followed(Execute))

FairSpec == Spec /\ Fairness

----------------------------------------------------------------------------
(* Safety.                                                                 *)

Disturbs(h) == hist \cap h # {}

(* Breakpoints leave no trace: unless words with a breakpoint of another   *)
(* entry were saved (PlaceBreakpoint) or written to another address than   *)
(* the entry's (StepX), the text is the loaded image but for an int3 at    *)
(* addresses that are listed, after any placing, hit, deletion, disabling. *)
MemoryFaithful ==
  ~Disturbs({"overlap", "misrestore"}) =>
    \A x \in Addr : mem[x] = Image[x] \/ (mem[x] = INT3 /\ IsListed(li, x))

(* The prompt accepts commands, and the debugger ends, only while the      *)
(* process is not executing: every resume is followed by its wait, in      *)
(* ContinueExecution, StepX, StepAuto and RestoreBreakpoint alike.         *)
PromptQuiescent == pc \in Ended \cup {"MainLoop"} => tstate \notin Resumed

(* A hit is never forgotten: wherever a process that lives is stopped      *)
(* behind an int3, the debugger is in the function that resumed it, which  *)
(* finds the entry and steps over the instruction before the next prompt   *)
(* or resumption, and that step does not end behind another int3; whether  *)
(* the entry is enabled, and whatever kill or signal comes in between.     *)
Handling == {"ContinueWait", "StepXWait", "StepAutoWait"} \cup AfterStop

HitIsHandled ==
  Clean /\ why = "int3" /\ tstate = "stopped" => pc \in Handling /\ IsListed(li, rip - 1)

(* MainLoop returns -1 on a failed request only when there is no process   *)
(* left: no failure of ContinueExecution, StepX, StepAuto or RemoveElement *)
(* abandons a stopped process, whatever has been placed where.  "set" is   *)
(* not among them: its failure ends the debugger with a process that lives *)
(* ("Abandoned").                                                          *)
FailedHasNoProcess == pc = "Failed" => tstate \in Dead

(* No two breakpoints share a word.                                        *)
Separated ==
  \A i, j \in DOMAIN li :
    i # j => \/ li[i].address - li[j].address >= WordSize
             \/ li[j].address - li[i].address >= WordSize

(* The int3 of a listed breakpoint disappears only when the process has    *)
(* hit it or when the breakpoint is removed, as long as no word is shared: *)
(* RestoreBreakpoint and RemoveElement write to no other breakpoint.       *)
DisarmedByOwner ==
  [][\A i \in DOMAIN li :
       LET a == li[i].address
       IN (hist' = {} /\ Separated /\ mem[a] = INT3 /\ mem'[a] # INT3)
          => (why = "int3" /\ rip = a + 1) \/ ~IsListed(li', a)]_vars

(* The debugged program runs as it would without a debugger.  At an int3   *)
(* the instruction that is still to complete is the one under it, and at a *)
(* syscall-enter stop it is the system call.                               *)
At == IF why = "int3" THEN rip - 1
      ELSE IF syscall # NoSyscall THEN syscall ELSE rip

Undebugged ==
  INSTANCE Program WITH at <- At, derailed <- ~Clean,
                        status <- IF tstate \in Alive THEN "alive" ELSE tstate

(* Unless a hazard happens, every behaviour of the session is a behaviour  *)
(* of the program alone: no instruction is skipped, repeated or torn by    *)
(* PlaceBreakpoint, RestoreBreakpoint, RemoveElement, and the commands.    *)
Transparent == Undebugged!Spec

(* Where the hazards come from.  A word that is not the image's is saved   *)
(* only next to another breakpoint; a breakpoint is restored at the wrong  *)
(* address only when it is disabled; and a stop is mistaken for a hit only *)
(* behind a listed instruction of one byte, whichever of ContinueStopped,  *)
(* StepXStopped and StepAutoStopped searches for rip - 1, whatever stopped *)
(* the process.                                                            *)
HazardsHaveCause ==
  [][Clean =>
       /\ "overlap" \in hist' => ~Separated'
       /\ "misrestore" \in hist' => \E i \in DOMAIN li : li[i].address = rip - 1 /\ ~li[i].enabled
       /\ "falsehit" \in hist' => IsListed(li, rip - 1) /\ InsnLen[rip - 1] = 1]_vars

(* A user who keeps clear of the causes.                                   *)
Careful ==
  /\ Separated
  /\ \A i \in DOMAIN li : li[i].enabled /\ InsnLen[li[i].address] > 1

----------------------------------------------------------------------------
(* Liveness, under FairSpec.                                               *)

Idle == pc \in Ended \cup {"MainLoop"}

(* "step n" comes back to the prompt even when the program never ends.     *)
StepReturns == pc \in StepLabels ~> Idle

(* With system call tracing, "continue" comes back from a program that     *)
(* makes system calls for ever.                                            *)
TracedContinueReturns == (systrace /\ pc = "ContinueWait") ~> (Idle \/ ~Clean)

(* A process that runs into an enabled breakpoint is reported: the prompt  *)
(* comes back, in a program that would otherwise run for ever.             *)
AtEnabled == AtInt3 /\ IsListed(li, rip) /\ GetElementByAddress(li, rip).enabled
EnabledStops == (Fetching /\ AtEnabled) ~> (Idle \/ ~Clean)

----------------------------------------------------------------------------
(* What comments of the code claim and the code does not do.               *)

(* Debugger.cpp:93 "to restore the instruction to its previous state       *)
(* before placing the breakpoint": a restore is at the breakpoint.         *)
RestoresItsOwn == ~Disturbs({"misrestore"})

(* Debugger.cpp:436 "to restart a process, while it is still running or    *)
(* exited": a restart does not lose the process it starts.                 *)
RestartKeepsProcess == Clean => orphans = 0

(* breakpoint.h:13 "no stop at breakpoint if this is false": no            *)
(* instruction under an enabled breakpoint completes without a stop.  With *)
(* a single entry nothing but its own hit can have disarmed it.            *)
EnabledNotPassed ==
  [][(pc # "RestoreWait" /\ IsListed(li, rip) /\ At' # At
        /\ tstate \in Resumed /\ syscall = NoSyscall)
     => ~(Clean /\ GetElementByAddress(li, rip).enabled)]_vars

(* breakpoint.cpp:47 "Remove breakpoint from its number": removing or      *)
(* hitting one breakpoint disarms no other.  Behind an int3 the entry at   *)
(* rip - 1 is the one that was hit.                                        *)
OnlyOwnerDisarms ==
  [][\A i \in DOMAIN li :
       LET a == li[i].address
       IN Clean' /\ mem[a] = INT3 /\ mem'[a] # INT3 /\ IsListed(li', a)
            => why = "int3" /\ rip = a + 1]_vars

(* breakpoint.h:26 "original data at the address".                         *)
SavedIsOriginal ==
  \A i \in DOMAIN li : li[i].origdata = ReadWord(Image, li[i].address)

(* breakpoint.cpp:47 "Remove breakpoint from its number": the number that  *)
(* is listed for a breakpoint selects it, in "delete" and in "disable".    *)
SelectedByItsNumber ==
  \A i \in DOMAIN li :
    LET n == li[i].number
    IN Removable(li, n) /\ FoundByNumber(li, n) /\ RemovePosition(li, n) = i
=============================================================================
