------------------------------- MODULE Launch -------------------------------
(***************************************************************************)
(* The whole program, from main to the end of the session: ParseArguments, *)
(* Debugger and StartProcess (src/src/Debugger.cpp), the child between     *)
(* fork and exec, the two worker threads, and behind their joins the       *)
(* command loop of LineSession, with "listsym".                            *)
(*                                                                         *)
(* Main is the main thread.  Until it enters MainLoop, pc of DebugSession  *)
(* stays at the prompt that is still to come, and the process of Debuggee  *)
(* is the one that exec will stop: child says what there is in its place.  *)
(* A program that ends before MainLoop, in whatever way, is "Abandoned".   *)
(* b_is_running has the value that StartProcess gives it, nobody reads it  *)
(* before.                                                                 *)
(***************************************************************************)
EXTENDS LineSession, SymbolLoader

CONSTANT Listings     \* bound: numbers the user gives to "listsym"

ASSUME ListingAssumption == Listings \subseteq Nat

VARIABLES main,        \* where the main thread is
          child,       \* the forked process
          lineThread,  \* where worker_debuglines is
          nextUnit,    \* the compilation unit it parses next
          symState     \* Debug::b_sym_state

launch == <<main, child, lineThread, nextUnit, symState>>
session == <<vars, lines>>
allVars == <<session, loader, launch>>

MainLabels == {"ParseArguments", "Debugger", "StartProcess", "CreateLines",
               "CreateSymbols", "GetRegs", "JoinSymbols", "JoinLines", "MainLoop"}

(* "stopped" at the exec and not waited for yet; "traced" from then on the *)
(* process of Debuggee; "interrupted" by another signal before its exec;   *)
(* "exited" and "killed" are zombies.                                      *)
ChildStates == {"none", "forked", "stopped", "interrupted", "exited", "killed",
                "reaped", "traced"}

LineThreadLabels == {"none", "InitDebugLines", "ParseLines", "done", "threw"}

LaunchTypeOK ==
  /\ main \in MainLabels
  /\ child \in ChildStates
  /\ lineThread \in LineThreadLabels
  /\ nextUnit \in 1 .. Len(Units) + 1
  /\ symState \in BOOLEAN
  /\ LineTypeOK
  /\ LoaderTypeOK

LaunchInit ==
  /\ Init
  /\ table = <<>> /\ dwarf = TRUE /\ unit = 0
  /\ LoaderInit
  /\ main = "ParseArguments"
  /\ child = "none"
  /\ lineThread = "none" /\ nextUnit = 1
  /\ symState = TRUE

(* The program ends: the threads with it, and the kernel lets go of the    *)
(* process.                                                                *)
Abandon ==
  /\ Goto("Abandoned")
  /\ UNCHANGED <<tracee, li, flags, hist>>

Launching == pc = "MainLoop" /\ main # "MainLoop"

----------------------------------------------------------------------------
(* The main thread up to MainLoop.                                         *)

(* "-h" ends the program.  With no "-f" there is no pathname, which        *)
(* Debugger dereferences before it looks at the process id.                *)
ParseArguments ==
  /\ Launching /\ main = "ParseArguments"
  /\ \/ Abandon /\ UNCHANGED main
     \/ main' = "Debugger" /\ UNCHANGED vars
  /\ UNCHANGED <<lines, loader, child, lineThread, nextUnit, symState>>

(* StartProcess up to its wait.                                            *)
Debugger_ ==
  /\ Launching /\ main = "Debugger"
  /\ \/ Abandon /\ UNCHANGED <<main, child>>
     \/ child' = "forked" /\ main' = "StartProcess" /\ UNCHANGED vars
  /\ UNCHANGED <<lines, loader, lineThread, nextUnit, symState>>

(* Mutant: the parent does not wait for its child.                         *)
StartProcessAtOnce ==
  /\ Launching /\ main = "StartProcess"
  /\ main' = "CreateLines"
  /\ UNCHANGED <<session, loader, child, lineThread, nextUnit, symState>>

(* The pid is still 0, so that waitpid takes the only child there is.      *)
(* A child killed by a signal counts as started, and so does one that a    *)
(* signal stops before its exec.                                           *)
StartProcess ==
  /\ Launching /\ main = "StartProcess"
  /\ \/ child = "stopped" /\ child' = "traced" /\ main' = "CreateLines" /\ UNCHANGED vars
     \/ child = "interrupted" /\ main' = "CreateLines" /\ UNCHANGED <<child, vars>>
     \/ child = "killed" /\ child' = "reaped" /\ main' = "CreateLines" /\ UNCHANGED vars
     \/ child = "exited" /\ child' = "reaped" /\ Abandon /\ UNCHANGED main
  /\ UNCHANGED <<lines, loader, lineThread, nextUnit, symState>>

CreateLines ==
  /\ Launching /\ main = "CreateLines"
  /\ main' = "CreateSymbols"
  /\ lineThread' = "InitDebugLines"
  /\ UNCHANGED <<session, loader, child, nextUnit, symState>>

CreateSymbols ==
  /\ Launching /\ main = "CreateSymbols"
  /\ main' = "GetRegs"
  /\ StartLoader
  /\ UNCHANGED <<session, child, lineThread, nextUnit, symState>>

(* Mutant: the process is set going while the threads work.                *)
GetRegsAndContinue ==
  /\ Launching /\ main = "GetRegs" /\ child = "traced" /\ Attached
  /\ main' = "JoinSymbols"
  /\ Resume("running")
  /\ UNCHANGED <<mem, rip, syscall, signals, li, flags, control, hist, lines, loader,
                 child, lineThread, nextUnit, symState>>

ChildAttached == child = "interrupted" \/ (child = "traced" /\ Attached)

(* When the request fails, Debugger returns with two joinable threads,     *)
(* whose destructors end the program.                                      *)
GetRegs ==
  /\ Launching /\ main = "GetRegs"
  /\ \/ ChildAttached /\ main' = "JoinSymbols" /\ UNCHANGED vars
     \/ ~ChildAttached /\ Abandon /\ UNCHANGED main
  /\ UNCHANGED <<lines, loader, child, lineThread, nextUnit, symState>>

JoinSymbols ==
  /\ Launching /\ main = "JoinSymbols" /\ worker = "done"
  /\ main' = "JoinLines"
  /\ UNCHANGED <<session, loader, child, lineThread, nextUnit, symState>>

(* Mutants: the thread is detached; the failure of the other is not asked  *)
(* for.                                                                    *)
JoinLinesNot ==
  /\ Launching /\ main = "JoinLines"
  /\ main' = "MainLoop"
  /\ symState' = ~b_load_failed
  /\ UNCHANGED <<session, loader, child, lineThread, nextUnit>>

JoinLinesUnasked ==
  /\ Launching /\ main = "JoinLines" /\ lineThread = "done"
  /\ main' = "MainLoop"
  /\ UNCHANGED <<session, loader, child, lineThread, nextUnit, symState>>

JoinLines ==
  /\ Launching /\ main = "JoinLines" /\ lineThread = "done"
  /\ main' = "MainLoop"
  /\ symState' = ~b_load_failed
  /\ UNCHANGED <<session, loader, child, lineThread, nextUnit>>

MainThread ==
  \/ ParseArguments \/ Debugger_ \/ StartProcess \/ CreateLines \/ CreateSymbols
  \/ GetRegs \/ JoinSymbols \/ JoinLines

----------------------------------------------------------------------------
(* The child up to its exec, where it stops; or it exits, when it cannot   *)
(* be traced or executed.                                                  *)
Exec ==
  /\ pc \notin Ended /\ child = "forked"
  /\ child' \in {"stopped", "exited"}
  /\ UNCHANGED <<session, loader, main, lineThread, nextUnit, symState>>

(* Between its PTRACE_TRACEME and its exec every signal stops it.          *)
Interrupt ==
  /\ pc \notin Ended /\ child = "forked"
  /\ child' = "interrupted"
  /\ UNCHANGED <<session, loader, main, lineThread, nextUnit, symState>>

KillChild ==
  /\ pc \notin Ended /\ child \in {"forked", "stopped", "interrupted"}
  /\ child' = "killed"
  /\ UNCHANGED <<session, loader, main, lineThread, nextUnit, symState>>

(* The process while the launch goes on.                                   *)
ProcessBeside ==
  /\ Launching /\ child = "traced"
  /\ Process
  /\ UNCHANGED <<lines, loader, launch>>

----------------------------------------------------------------------------
(* worker_debuglines                                                       *)

(* The file is opened, as a file and by libelfin, within the try block.    *)
OpenLines ==
  /\ pc \notin Ended /\ lineThread = "InitDebugLines"
  /\ \/ dwarf' = FALSE /\ lineThread' = "done"
     \/ lineThread' = "ParseLines" /\ UNCHANGED dwarf
  /\ UNCHANGED <<vars, table, unit, loader, main, child, nextUnit, symState>>

ParseUnit ==
  /\ pc \notin Ended /\ lineThread = "ParseLines"
  /\ \/ /\ nextUnit <= Len(Units)
        /\ table' = table \o ParseLines(Units[nextUnit], BaseAddress, nextUnit - 1)
        /\ nextUnit' = nextUnit + 1
        /\ UNCHANGED lineThread
     \/ /\ nextUnit > Len(Units)
        /\ lineThread' = "done"
        /\ UNCHANGED <<table, nextUnit>>
  /\ UNCHANGED <<vars, dwarf, unit, loader, main, child, symState>>

(* libelfin throws at a line program it does not know, and nothing catches *)
(* what it throws behind the try block.                                    *)
UnitThrows ==
  /\ pc \notin Ended /\ lineThread = "ParseLines" /\ nextUnit <= Len(Units)
  /\ lineThread' = "threw"
  /\ Abandon
  /\ UNCHANGED <<lines, loader, main, child, nextUnit, symState>>

(* worker_elfsyms.  A crash of the thread is the end of the program.       *)
LoadStep ==
  /\ pc \notin Ended /\ worker # "none"
  /\ LoaderNext
  /\ IF worker' \in Crashed THEN Abandon ELSE UNCHANGED vars
  /\ UNCHANGED <<lines, launch>>

----------------------------------------------------------------------------
(* MainLoop.  The session of a process that has not come to its exec is    *)
(* followed no further.                                                    *)

Session ==
  /\ main = "MainLoop" /\ child = "traced"
  /\ LineNext
  /\ UNCHANGED <<loader, launch>>

(* "listsym n" reads n entries, and what is behind them when there are     *)
(* fewer.                                                                  *)
ListSyms(n) ==
  /\ main = "MainLoop" /\ child = "traced" /\ pc = "MainLoop" /\ running /\ symState
  /\ n > Len(S_list)
  /\ Abandon
  /\ UNCHANGED <<lines, loader, launch>>

Over ==
  /\ pc \in Ended \/ (main = "MainLoop" /\ child # "traced")
  /\ UNCHANGED allVars

LaunchNext ==
  \/ MainThread
  \/ Exec \/ Interrupt \/ KillChild \/ ProcessBeside
  \/ OpenLines \/ ParseUnit \/ UnitThrows
  \/ LoadStep
  \/ Session
  \/ \E n \in Listings : ListSyms(n)
  \/ Over

LaunchSpec == LaunchInit /\ [][LaunchNext]_allVars

(* The kernel schedules the three threads and the child.  Nothing makes    *)
(* the user start the program, or memory run out.                          *)
LaunchFairness ==
  /\ WF_allVars(MainThread)
  /\ WF_allVars(Exec)
  /\ WF_allVars(OpenLines \/ ParseUnit)
  /\ WF_allVars(LoadStep)

LaunchFairSpec == LaunchSpec /\ LaunchFairness

----------------------------------------------------------------------------
(* Safety.                                                                 *)

(* MainLoop runs alone, in whatever order the threads ended: nothing is    *)
(* still filling the tables it reads, and it finds every unit, or none and *)
(* the flag that keeps the line commands away (dwarf.h:26).                *)
MainLoopIsAlone ==
  main = "MainLoop" =>
    /\ lineThread = "done" /\ worker = "done"
    /\ table = IF dwarf THEN Loaded ELSE <<>>

(* From there on only the commands and the process move what the session   *)
(* is about: no thread of the launch comes back to it.                     *)
RunsLines == [][main = "MainLoop" => [LineNext]_session]_allVars

(* A function whose memory LoadSymbols has freed stays in S_list; as long  *)
(* as listsym may read the list there is none.                             *)
FreedIsHidden == main = "MainLoop" /\ symState => freed = {}

ChildLives ==
  \/ child \in {"forked", "stopped", "interrupted"}
  \/ child = "traced" /\ tstate \notin Dead

(* The launch gives up a process that lives only when a thread crashes:    *)
(* StartProcess takes no live child for an ended one, and PTRACE_GETREGS   *)
(* does not fail on a process that StartProcess has waited for.            *)
LaunchFailsForCause ==
  pc \in Ended /\ main # "MainLoop" /\ ChildLives =>
    lineThread = "threw" \/ worker \in Crashed

(* The program, seen at the process and the breakpoints, is a session of   *)
(* DebugSession: nothing that the launch does, and no thread it starts,    *)
(* moves the process, places a breakpoint or ends the debugger otherwise   *)
(* than a failure at the prompt would.                                     *)
SessionFollows == Spec

----------------------------------------------------------------------------
(* Liveness, under LaunchFairSpec.                                         *)

(* From the fork on the launch ends, at the prompt or with the program:    *)
(* neither waitpid nor one of the two joins waits for ever, whatever the   *)
(* libraries need of one another and whichever of them can not be opened.  *)
LaunchEnds == main = "StartProcess" ~> (main = "MainLoop" \/ pc \in Ended)
=============================================================================
