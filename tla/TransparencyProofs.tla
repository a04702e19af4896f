------------------------- MODULE TransparencyProofs -------------------------
(***************************************************************************)
(* That DebugSession leaves the breakpoints and the debugged program alone *)
(* for every value of the constants: DisarmedByOwner, and the refinement   *)
(* of Program.                                                             *)
(***************************************************************************)
EXTENDS DebugSessionProofs

----------------------------------------------------------------------------
(* Who disarms a breakpoint.                                               *)

(* A written word leaves every address alone that is a word away.          *)
LEMMA WriteElsewhere ==
  ASSUME NEW m \in [Addr -> Byte], NEW a \in Int, NEW w, NEW x \in Addr,
         x - a >= WordSize \/ a - x >= WordSize
  PROVE  WriteWord(m, a, w)[x] = m[x]
<1>1. x - a \notin Offsets
  BY SizeAssumption DEF Offsets, Addr
<1>. QED
  BY <1>1 DEF WriteWord

(* Apart means that no two entries have the same address either.           *)
LEMMA ApartEntries ==
  ASSUME TypeInv, Separated, NEW i \in DOMAIN li, NEW j \in DOMAIN li, i # j
  PROVE  /\ li[i].address \in Addr /\ li[j].address \in Addr
         /\ \/ li[i].address - li[j].address >= WordSize
            \/ li[j].address - li[i].address >= WordSize
         /\ li[i].address # li[j].address
<1>1. li[i] \in BreakpointType(Addr, Word) /\ li[j] \in BreakpointType(Addr, Word)
  BY ElementOfSeq, LenProperties DEF TypeInv, TypeOK
<1>2. li[i].address \in Addr /\ li[j].address \in Addr
  BY <1>1 DEF BreakpointType
<1>. QED
  BY <1>2, SizeAssumption DEF Separated, Addr

(* What remains of the list behind a removal is at another place.          *)
LEMMA RemovedIsGone ==
  ASSUME TypeInv, Separated, NEW n, Removable(li, n)
  PROVE  ~IsListed(RemoveElement(li, n), li[RemovePosition(li, n)].address)
<1> DEFINE p == RemovePosition(li, n)
           r == RemoveElement(li, n)
<1>1. li \in Seq(BreakpointType(Addr, Word))
  BY DEF TypeInv, TypeOK
<1>2. p \in 1 .. Len(li) /\ Len(li) \in Nat /\ DOMAIN li = 1 .. Len(li)
  BY <1>1, RemoveElementProperties, LenProperties
<1>3. r = RemoveAt(li, p)
  BY DEF RemoveElement
<1>. HIDE DEF p, r
<1>4. /\ r \in Seq(BreakpointType(Addr, Word)) /\ Len(r) = Len(li) - 1
      /\ \A j \in 1 .. Len(li) - 1 : r[j] = IF j < p THEN li[j] ELSE li[j + 1]
  BY <1>1, <1>2, <1>3, RemoveAtProperties
<1>5. DOMAIN r = 1 .. Len(li) - 1
  BY <1>4, LenProperties
<1>6. ASSUME NEW j \in DOMAIN r  PROVE r[j].address # li[p].address
  <2>1. CASE j < p
    <3>1. j \in DOMAIN li /\ j # p /\ r[j] = li[j]
      BY <1>2, <1>4, <1>5, <2>1
    <3>. QED  BY <1>2, <3>1, ApartEntries
  <2>2. CASE ~(j < p)
    <3>1. j + 1 \in DOMAIN li /\ j + 1 # p /\ r[j] = li[j + 1]
      BY <1>2, <1>4, <1>5, <2>2
    <3>. QED  BY <1>2, <3>1, ApartEntries
  <2>. QED  BY <2>1, <2>2
<1>. QED
  BY <1>6 DEF IsListed, WithAddress, p, r

(* One step, at one entry.                                                 *)
Disarmed(i) ==
  /\ hist' = {} /\ Separated
  /\ mem[li[i].address] = INT3 /\ mem'[li[i].address] # INT3

LEMMA RestoreDisarms ==
  ASSUME TypeInv, TextInv, NEW address, NEW next, IsListed(li, rip - 1),
         RestoreBreakpoint(GetElementByAddress(li, rip - 1), address, next),
         NEW i \in DOMAIN li, Disarmed(i)
  PROVE  why = "int3" /\ rip = li[i].address + 1
<1>1. PICK k \in 1 .. Len(li) : GetElementByAddress(li, rip - 1) = li[k] /\ li[k].address = rip - 1
  BY GetElementByAddressProperties DEF TypeInv, TypeOK
<1>2. k \in DOMAIN li
  BY <1>1, LenProperties DEF TypeInv, TypeOK
<1>3. /\ address = li[k].address /\ why = "int3"
      /\ \/ Mapped(address) /\ mem' = WriteWord(mem, address, li[k].origdata)
         \/ mem' = mem
  BY <1>1 DEF RestoreBreakpoint, Disarmed
<1>4. i = k
  <2>. SUFFICES ASSUME i # k PROVE FALSE
    OBVIOUS
  <2>1. /\ li[i].address \in Addr /\ li[k].address \in Int
        /\ \/ li[i].address - li[k].address >= WordSize
           \/ li[k].address - li[i].address >= WordSize
    BY <1>2, ApartEntries DEF Disarmed, Addr
  <2>2. mem'[li[i].address] = mem[li[i].address]
    BY <1>3, <2>1, WriteElsewhere DEF TypeInv, TypeOK, DebuggeeTypeOK
  <2>. QED  BY <2>2 DEF Disarmed
<1>. QED
  BY <1>1, <1>3, <1>4 DEF TypeInv, TypeOK, DebuggeeTypeOK

LEMMA DeleteDisarms ==
  ASSUME TypeInv, TextInv, NEW n, Delete(n), NEW i \in DOMAIN li, Disarmed(i)
  PROVE  ~IsListed(li', li[i].address)
<1> DEFINE p == RemovePosition(li, n)
           a == li[p].address
<1>1. /\ Removable(li, n) /\ Mapped(a)
      /\ mem' = WriteWord(mem, a, li[p].origdata)
      /\ li' = RemoveElement(li, n)
  BY DEF Delete, Disarmed
<1>2. p \in DOMAIN li
  BY <1>1, RemoveElementProperties, LenProperties DEF TypeInv, TypeOK
<1>. HIDE DEF p
<1>3. i = p
  <2>. SUFFICES ASSUME i # p PROVE FALSE
    OBVIOUS
  <2>1. /\ li[i].address \in Addr /\ a \in Int
        /\ li[i].address - a >= WordSize \/ a - li[i].address >= WordSize
    BY <1>2, ApartEntries DEF Disarmed, Addr
  <2>2. mem'[li[i].address] = mem[li[i].address]
    BY <1>1, <2>1, WriteElsewhere DEF TypeInv, TypeOK, DebuggeeTypeOK
  <2>. QED  BY <2>2 DEF Disarmed
<1>4. ~IsListed(RemoveElement(li, n), a)
  BY <1>1, RemovedIsGone DEF Disarmed, p
<1>. QED
  BY <1>1, <1>3, <1>4

LEMMA DisarmStep ==
  ASSUME TypeInv, TextInv, [Next]_vars, NEW i \in DOMAIN li, Disarmed(i)
  PROVE  (why = "int3" /\ rip = li[i].address + 1) \/ ~IsListed(li', li[i].address)
<1>0. mem' # mem
  BY DEF Disarmed
<1>1. ASSUME NEW a \in Targets, Break(a)  PROVE FALSE
  <2>1. Mapped(a) /\ mem' = WriteWord(mem, a, Patched(ReadWord(mem, a)))
    BY <1>0, <1>1 DEF Break, PlaceBreakpoint, vars, tracee
  <2>2. mem'[a] = INT3 /\ \A x \in Addr \ {a} : mem'[x] = mem[x]
    BY <2>1, PatchWord DEF TypeInv, TypeOK, DebuggeeTypeOK
  <2>3. li[i].address \in Addr
    BY DEF TextInv, ListedMapped, Mapped
  <2>. QED  BY <2>2, <2>3 DEF Disarmed
<1>2. ASSUME NEW n \in 0 .. MaxBreakpoints + 1, Delete(n)
      PROVE  ~IsListed(li', li[i].address)
  BY <1>2, DeleteDisarms
<1>3. CASE ContinueStopped
  <2>1. IsListed(li, rip - 1)
    BY <1>0, <1>3 DEF ContinueStopped, tracee
  <2>. QED  BY <1>0, <1>3, <2>1, RestoreDisarms DEF ContinueStopped, tracee
<1>4. CASE StepXStopped
  <2>1. IsListed(li, rip - 1)
    BY <1>0, <1>4 DEF StepXStopped, tracee
  <2>. QED  BY <1>0, <1>4, <2>1, RestoreDisarms DEF StepXStopped, tracee
<1>5. CASE StepAutoStopped
  <2>1. IsListed(li, rip - 1)
    BY <1>0, <1>5 DEF StepAutoStopped, tracee
  <2>. QED  BY <1>0, <1>5, <2>1, RestoreDisarms DEF StepAutoStopped, tracee
<1>6. ASSUME NEW n \in 0 .. MaxBreakpoints + 1, Disable(n)  PROVE FALSE
  BY <1>0, <1>6 DEF Disable, tracee
<1>7. ASSUME NEW n \in 0 .. MaxSteps, Step(n)  PROVE FALSE
  BY <1>0, <1>7 DEF Step, tracee
<1>8. ~(Continue \/ Restart \/ AutoCommand \/ Info \/ Set \/ InputError \/ BadArgument \/ Exit)
  BY <1>0 DEF Continue, Restart, AutoCommand, Info, Set, InputError, BadArgument, Exit, tracee
<1>9. ~(ContinueExecution \/ StepX \/ StepAuto \/ StepAutoTest)
  BY <1>0 DEF ContinueExecution, StepX, StepAuto, StepAutoTest, tracee
<1>10. ~(ContinueWait \/ StepXWait \/ StepAutoWait \/ RestoreWait)
  BY <1>0 DEF ContinueWait, StepXWait, StepAutoWait, RestoreWait, WaitForProcess
<1>11. ~Process
  BY <1>0 DEF Process, Followed, Execute, Trap, Advance, EnterSyscall, LeaveSyscall,
              Terminate, Fault, Garbled, Signal, Kill
<1>12. ~(Terminating \/ UNCHANGED vars)
  BY <1>0 DEF Terminating, vars, tracee
<1>. QED
  BY <1>1, <1>2, <1>3, <1>4, <1>5, <1>6, <1>7, <1>8, <1>9, <1>10, <1>11, <1>12
  DEF Next, Command, Debugger

(* The int3 of a breakpoint that shares no word disappears only at its own *)
(* hit, in RestoreBreakpoint, or at its removal, in RemoveElement.         *)
THEOREM DisarmedOnlyByOwner == Spec => DisarmedByOwner
<1>1. TypeInv /\ TextInv /\ [Next]_vars =>
        [\A i \in DOMAIN li :
           LET a == li[i].address
           IN (hist' = {} /\ Separated /\ mem[a] = INT3 /\ mem'[a] # INT3)
              => (why = "int3" /\ rip = a + 1) \/ ~IsListed(li', a)]_vars
  <2>. SUFFICES ASSUME TypeInv, TextInv, [Next]_vars, NEW i \in DOMAIN li,
                       hist' = {}, Separated,
                       mem[li[i].address] = INT3, mem'[li[i].address] # INT3
                PROVE  \/ why = "int3" /\ rip = li[i].address + 1
                       \/ ~IsListed(li', li[i].address)
    OBVIOUS
  <2>. QED  BY DisarmStep DEF Disarmed
<1>. QED
  BY <1>1, TextInvariant, PTL DEF Spec, DisarmedByOwner

----------------------------------------------------------------------------
(* The program undisturbed.  As long as no hazard has happened, the place  *)
(* of the program is an instruction; a hit is handled; and the step of a   *)
(* restore executes the instruction, not an int3.                          *)

AtInstruction ==
  /\ At \in Insns
  /\ tstate \in Resumed => why = "none"
  /\ why = "int3" => syscall = NoSyscall
  /\ syscall # NoSyscall => syscall \in Syscalls /\ rip = syscall + InsnLen[syscall]

StepsOverHit ==
  pc = "RestoreWait" /\ tstate \in Resumed =>
    tstate = "stepping" /\ syscall = NoSyscall /\ mem[rip] # INT3

ProgramInv == HitIsHandled /\ (Clean => AtInstruction /\ StepsOverHit)

ListedTargets == \A i \in DOMAIN li : li[i].address \in Targets

(* The refinement mapping.                                                 *)
Status  == IF tstate \in Alive THEN "alive" ELSE tstate
Mapping == <<At, Status, ~Clean>>

Stutter == UNCHANGED Mapping

(* What every step of the debugger and the process has to show.            *)
Undisturbed == Clean' => ProgramInv' /\ (Stutter \/ Undebugged!Next)

LEMMA InsnFacts ==
  /\ \A i \in Insns : i \in Int /\ i \in Addr /\ i # NoSyscall /\ BytesOf(i) \subseteq Addr
                      /\ Image[i] # INT3 /\ i \in BytesOf(i) /\ InsnLen[i] \in Nat
  /\ \A i \in Insns \ Exits : Succ[i] \subseteq Insns
  /\ \A i \in Syscalls \ Exits : i + InsnLen[i] \in Insns /\ i + InsnLen[i] \in Succ[i]
<1>1. ASSUME NEW i \in Insns
      PROVE  /\ i \in Int /\ i \in Addr /\ i # NoSyscall /\ BytesOf(i) \subseteq Addr
             /\ Image[i] # INT3 /\ i \in BytesOf(i) /\ InsnLen[i] \in Nat
  <2>1. i \in Addr /\ InsnLen[i] \in Nat \ {0} /\ BytesOf(i) \subseteq Addr /\ Image[i] # INT3
    BY InsnAssumption, ProgramAssumption
  <2>2. i \in Int /\ i >= 0
    BY <2>1 DEF Addr
  <2>. QED  BY <2>1, <2>2 DEF NoSyscall, BytesOf
<1>2. \A i \in Insns : Succ[i] \subseteq Insns
  BY ControlAssumption
<1>3. ASSUME NEW i \in Syscalls \ Exits
      PROVE  i + InsnLen[i] \in Insns /\ i + InsnLen[i] \in Succ[i]
  <2>1. Succ[i] = {i + InsnLen[i]} /\ i \in Insns
    BY ProgramAssumption, ControlAssumption
  <2>. QED  BY <1>2, <2>1
<1>. QED
  BY <1>1, <1>2, <1>3

(* Where the process fetches, it finds the instruction or a listed int3:   *)
(* no int3 lies within the instruction behind its first byte.              *)
LEMMA FetchesInstruction ==
  ASSUME TypeInv, TextInv, ListedTargets, ProgramInv, Clean, Fetching
  PROVE  /\ At = rip /\ rip \in Insns /\ why = "none"
         /\ ~AtInt3 => Intact(rip)
         /\ AtInt3 => IsListed(li, rip)
<1>1. At = rip /\ rip \in Insns /\ why = "none"
  BY DEF ProgramInv, AtInstruction, Fetching, At
<1>2. \A x \in Addr : mem[x] = Image[x] \/ (mem[x] = INT3 /\ IsListed(li, x))
  BY DEF TextInv, MemoryFaithful, Disturbs, Clean
<1>3. ASSUME NEW x \in Addr, IsListed(li, x)  PROVE x \in Insns
  BY <1>3, TargetAssumption DEF IsListed, WithAddress, ListedTargets
<1>4. ASSUME ~AtInt3  PROVE Intact(rip)
  <2>1. ASSUME NEW x \in BytesOf(rip)  PROVE mem[x] = Image[x]
    <3>1. x \in Addr
      BY <1>1, InsnFacts
    <3>2. CASE x = rip
      BY <1>2, <1>4, <3>1, <3>2 DEF AtInt3
    <3>3. CASE x # rip
      <4>1. x \notin Insns
        BY <1>1, <3>3, DisjointAssumption
      <4>. QED  BY <1>2, <1>3, <3>1, <4>1
    <3>. QED  BY <3>2, <3>3
  <2>. QED  BY <1>1, <2>1 DEF Intact
<1>5. ASSUME AtInt3  PROVE IsListed(li, rip)
  <2>1. rip \in Addr /\ mem[rip] = INT3 /\ Image[rip] # INT3
    BY <1>1, <1>5, InsnFacts DEF AtInt3
  <2>. QED  BY <1>2, <2>1
<1>. QED
  BY <1>1, <1>4, <1>5

(* What a step that leaves the process alone has to show.                  *)
LEMMA ProcessAlone ==
  ASSUME ProgramInv, UNCHANGED tracee, hist \subseteq hist',
         Clean' => HitIsHandled' /\ StepsOverHit'
  PROVE  Undisturbed
<1>. SUFFICES ASSUME Clean' PROVE ProgramInv' /\ Stutter
  BY DEF Undisturbed
<1>1. Clean
  BY DEF Clean
<1>2. UNCHANGED <<mem, rip, tstate, why, syscall, signals>>
  BY DEF tracee
<1>3. At' = At /\ Status' = Status /\ Clean' = Clean
  BY <1>1, <1>2 DEF At, Status
<1>4. AtInstruction'
  BY <1>1, <1>2, <1>3 DEF ProgramInv, AtInstruction
<1>. QED
  BY <1>3, <1>4 DEF ProgramInv, Stutter, Mapping

----------------------------------------------------------------------------
(* Steps of the process.                                                   *)

LEMMA ExecuteUndisturbed ==
  ASSUME TypeInv, TextInv, ControlInv, ListedTargets, ProgramInv, Followed(Execute)
  PROVE  Undisturbed
<1>. SUFFICES ASSUME Clean' PROVE ProgramInv' /\ (Stutter \/ Undebugged!Next)
  BY DEF Undisturbed
<1>0. /\ UNCHANGED <<li, pc, hist>> /\ Clean /\ (~Clean)' = ~Clean
      /\ Execute /\ mem' = mem
  BY DEF Followed, Clean, control, Execute, Trap, Advance, EnterSyscall, LeaveSyscall,
         Terminate, Fault, Garbled
<1>1. tstate \in Resumed /\ Status = "alive" /\ pc \in Waits /\ why = "none"
  <2>1. tstate \in Resumed
    BY <1>0 DEF Execute, Trap, Advance, EnterSyscall, LeaveSyscall, Terminate, Fault, Garbled, Fetching
  <2>. QED  BY <1>0, <2>1 DEF Status, Alive, ControlInv, ProgramInv, AtInstruction
<1>2. /\ At \in Insns
      /\ syscall # NoSyscall => syscall \in Syscalls /\ rip = syscall + InsnLen[syscall]
      /\ At = IF syscall # NoSyscall THEN syscall ELSE rip
      /\ pc = "RestoreWait" => tstate = "stepping" /\ syscall = NoSyscall /\ mem[rip] # INT3
  BY <1>0, <1>1 DEF ProgramInv, AtInstruction, StepsOverHit, At
<1>3. Fetching => /\ At = rip /\ rip \in Insns /\ (~AtInt3 => Intact(rip))
                  /\ (AtInt3 => IsListed(li, rip))
  BY <1>0, FetchesInstruction
<1>4. CASE Trap
  <2>1. rip' = rip + 1 /\ why' = "int3" /\ tstate' = "stopped" /\ syscall' = NoSyscall /\ Fetching
        /\ mem[rip] = INT3 /\ syscall = NoSyscall
    BY <1>4 DEF Trap, Stop, Fetching, AtInt3
  <2>2. rip' - 1 = rip /\ IsListed(li, rip)
    BY <1>3, <1>4, <2>1, InsnFacts DEF Trap
  <2>3. At' = At /\ Status' = "alive"
    BY <1>3, <2>1, <2>2 DEF At, Status, Alive
  <2>4. pc \in Handling
    BY <1>1, <1>2, <2>1 DEF Handling, Waits
  <2>5. AtInstruction'
    BY <1>2, <2>1, <2>3 DEF AtInstruction, Resumed
  <2>6. HitIsHandled' /\ StepsOverHit'
    BY <1>0, <2>1, <2>2, <2>4 DEF HitIsHandled, StepsOverHit, Resumed, IsListed, WithAddress
  <2>. QED  BY <1>0, <1>1, <2>3, <2>5, <2>6 DEF ProgramInv, Stutter, Mapping
<1>5. CASE Advance
  <2>1. /\ Fetching /\ syscall = NoSyscall /\ syscall' = NoSyscall
        /\ rip \notin Exits /\ rip' \in Succ[rip]
        /\ \/ tstate = "stepping" /\ tstate' = "stopped" /\ why' = "step"
           \/ tstate # "stepping" /\ tstate' = tstate /\ why' = why
    BY <1>5 DEF Advance, Stop, Fetching
  <2>2. At' = rip' /\ rip' \in Insns /\ Status' = "alive"
    BY <1>1, <1>3, <2>1, InsnFacts DEF At, Status, Alive
  <2>3. AtInstruction'
    BY <1>1, <2>1, <2>2 DEF AtInstruction, Resumed
  <2>4. HitIsHandled' /\ StepsOverHit'
    BY <1>0, <1>1, <1>2, <2>1 DEF HitIsHandled, StepsOverHit, Resumed
  <2>5. Undebugged!Run
    BY <1>0, <1>1, <1>3, <2>1, <2>2 DEF Undebugged!Run, Status
  <2>. QED  BY <2>3, <2>4, <2>5 DEF ProgramInv, Undebugged!Next
<1>6. CASE EnterSyscall
  <2>1. /\ Fetching /\ syscall = NoSyscall /\ syscall' = rip /\ rip \in Syscalls
        /\ rip' = rip + InsnLen[rip] /\ why' = "syscall" /\ tstate' = "stopped"
    BY <1>6 DEF EnterSyscall, Stop, Fetching
  <2>2. At' = At /\ Status' = "alive" /\ syscall' # NoSyscall
    BY <1>3, <2>1, InsnFacts DEF At, Status, Alive
  <2>3. AtInstruction'
    BY <1>2, <2>1, <2>2 DEF AtInstruction, Resumed
  <2>4. HitIsHandled' /\ StepsOverHit'
    BY <2>1 DEF HitIsHandled, StepsOverHit, Resumed
  <2>. QED  BY <1>0, <1>1, <2>2, <2>3, <2>4 DEF ProgramInv, Stutter, Mapping
<1>7. CASE LeaveSyscall
  <2>1. /\ syscall \in Syscalls \ Exits /\ syscall' = NoSyscall /\ rip' = rip
        /\ why' \in {"syscall", "step"} /\ tstate' = "stopped"
    BY <1>7 DEF LeaveSyscall, Stop
  <2>2. syscall # NoSyscall /\ At = syscall
    BY <1>2, <2>1, InsnFacts, ControlAssumption
  <2>3. At' = rip /\ Status' = "alive" /\ rip \in Succ[syscall] /\ rip \in Insns
    BY <1>2, <2>1, <2>2, InsnFacts DEF At, Status, Alive
  <2>4. AtInstruction'
    BY <2>1, <2>3 DEF AtInstruction, Resumed
  <2>5. HitIsHandled' /\ StepsOverHit'
    BY <2>1 DEF HitIsHandled, StepsOverHit, Resumed
  <2>6. Undebugged!Run
    BY <1>0, <1>1, <2>1, <2>2, <2>3 DEF Undebugged!Run, Status
  <2>. QED  BY <2>4, <2>5, <2>6 DEF ProgramInv, Undebugged!Next
<1>8. CASE Terminate
  <2>1. tstate' = "exited" /\ UNCHANGED <<rip, why, syscall>>
    BY <1>8 DEF Terminate
  <2>2. At \in Exits
    BY <1>2, <1>3, <1>8, InsnFacts, ControlAssumption DEF Terminate
  <2>3. At' = At /\ Status' = "exited"
    BY <2>1 DEF At, Status, Alive, Resumed
  <2>4. AtInstruction'
    BY <1>1, <1>2, <2>1, <2>3 DEF AtInstruction, Resumed
  <2>5. HitIsHandled' /\ StepsOverHit'
    BY <2>1 DEF HitIsHandled, StepsOverHit, Resumed
  <2>6. Undebugged!Exit
    BY <1>0, <1>1, <2>2, <2>3 DEF Undebugged!Exit, Status
  <2>. QED  BY <2>4, <2>5, <2>6 DEF ProgramInv, Undebugged!Next
<1>9. CASE Fault
  <2>1. /\ UNCHANGED <<rip, syscall>> /\ why' = "signal" /\ tstate' = "stopped"
    BY <1>9 DEF Fault, Stop
  <2>2. At' = At /\ Status' = "alive"
    BY <1>2, <2>1 DEF At, Status, Alive
  <2>3. AtInstruction'
    BY <1>2, <2>1, <2>2 DEF AtInstruction, Resumed
  <2>4. HitIsHandled' /\ StepsOverHit'
    BY <2>1 DEF HitIsHandled, StepsOverHit, Resumed
  <2>. QED  BY <1>0, <1>1, <2>2, <2>3, <2>4 DEF ProgramInv, Stutter, Mapping
<1>10. ~Garbled
  BY <1>3 DEF Garbled
<1>. QED
  BY <1>0, <1>4, <1>5, <1>6, <1>7, <1>8, <1>9, <1>10 DEF Execute

LEMMA SignalUndisturbed ==
  ASSUME ProgramInv, Followed(Signal)
  PROVE  Undisturbed
<1>. SUFFICES ASSUME Clean' PROVE ProgramInv' /\ Stutter
  BY DEF Undisturbed
<1>1. /\ Clean /\ (~Clean)' = ~Clean /\ Fetching
      /\ UNCHANGED <<rip, syscall>> /\ why' = "signal" /\ tstate' = "stopped"
  BY DEF Followed, Clean, Signal, Stop
<1>2. At' = At /\ Status' = "alive" /\ Status = "alive"
  BY <1>1 DEF At, Status, Alive, Fetching, ProgramInv, AtInstruction
<1>3. AtInstruction'
  BY <1>1, <1>2 DEF ProgramInv, AtInstruction, Resumed
<1>4. HitIsHandled' /\ StepsOverHit'
  BY <1>1 DEF HitIsHandled, StepsOverHit, Resumed
<1>. QED  BY <1>1, <1>2, <1>3, <1>4 DEF ProgramInv, Stutter, Mapping

(* A kill from outside, and that of the exit command.                      *)
LEMMA KillUndisturbed ==
  ASSUME ProgramInv, tstate \in Alive, tstate' = "killed",
         UNCHANGED <<mem, rip, why, syscall, hist>>
  PROVE  Undisturbed
<1>. SUFFICES ASSUME Clean' PROVE ProgramInv' /\ Undebugged!Next
  BY DEF Undisturbed
<1>1. Clean /\ (~Clean)' = ~Clean
  BY DEF Clean
<1>2. At' = At /\ Status' = "killed" /\ Status = "alive"
  BY DEF At, Status, Alive, Resumed
<1>3. AtInstruction'
  BY <1>1, <1>2 DEF ProgramInv, AtInstruction, Resumed
<1>4. HitIsHandled' /\ StepsOverHit'
  BY DEF HitIsHandled, StepsOverHit, Resumed
<1>5. Undebugged!Killed
  BY <1>1, <1>2 DEF Undebugged!Killed, Status
<1>. QED  BY <1>3, <1>4, <1>5 DEF ProgramInv, Undebugged!Next

----------------------------------------------------------------------------
(* Steps of the debugger.                                                  *)

(* The process is resumed when its last stop was no int3, so that the      *)
(* place of the program does not move.                                     *)
LEMMA ResumeUndisturbed ==
  ASSUME TypeInv, ProgramInv, NEW mode \in Resumed, NEW wait \in Waits \ {"RestoreWait"},
         pc \notin Handling, ResumeOrFail(mode, wait),
         UNCHANGED <<mem, rip, syscall, signals, li, hist>>
  PROVE  Undisturbed
<1>1. CASE Attached /\ Resume(mode) /\ Goto(wait)
  <2>. SUFFICES ASSUME Clean' PROVE ProgramInv' /\ Stutter
    BY DEF Undisturbed
  <2>1. Clean /\ (~Clean)' = ~Clean
    BY DEF Clean
  <2>2. why # "int3" /\ tstate = "stopped"
    BY <1>1, <2>1 DEF ProgramInv, HitIsHandled, Attached
  <2>3. why' = "none" /\ tstate' = mode /\ pc' = wait
    BY <1>1 DEF Resume, Goto
  <2>4. At' = At /\ Status' = Status
    BY <2>2, <2>3 DEF At, Status, Alive
  <2>5. AtInstruction'
    BY <2>1, <2>3, <2>4 DEF ProgramInv, AtInstruction
  <2>6. HitIsHandled' /\ StepsOverHit'
    BY <2>3 DEF HitIsHandled, StepsOverHit
  <2>. QED  BY <2>1, <2>4, <2>5, <2>6 DEF ProgramInv, Stutter, Mapping
<1>2. CASE ~Attached /\ Goto("Failed") /\ UNCHANGED <<tstate, why>>
  <2>1. ASSUME Clean'  PROVE HitIsHandled' /\ StepsOverHit'
    BY <1>2 DEF Goto, HitIsHandled, StepsOverHit, Attached
  <2>2. UNCHANGED tracee
    BY <1>2 DEF tracee
  <2>. QED  BY <2>1, <2>2, ProcessAlone
<1>. QED
  BY <1>1, <1>2 DEF ResumeOrFail

(* waitpid reports a stop, or reaps the process.                           *)
LEMMA WaitUndisturbed ==
  ASSUME ProgramInv, NEW onExit, NEW onStop, NEW onSignal, onStop # "RestoreWait",
         pc = "RestoreWait" \/ onStop \in Handling,
         WaitForProcess(onExit, onStop, onSignal)
  PROVE  Undisturbed
<1>0. UNCHANGED <<mem, rip, why, syscall, signals, li, hist>>
  BY DEF WaitForProcess
<1>1. CASE tstate = "stopped" /\ Goto(onStop) /\ UNCHANGED tstate
  <2>1. pc' = onStop /\ UNCHANGED tracee
    BY <1>0, <1>1 DEF Goto, tracee
  <2>2. ASSUME Clean'  PROVE HitIsHandled' /\ StepsOverHit'
    <3>1. Clean
      BY <1>0, <2>2 DEF Clean
    <3>2. why = "int3" => pc \in Handling /\ IsListed(li, rip - 1)
      BY <1>1, <3>1 DEF ProgramInv, HitIsHandled
    <3>3. pc \in Handling => pc # "RestoreWait"
      BY DEF Handling, AfterStop
    <3>. QED  BY <1>0, <1>1, <2>1, <3>2, <3>3 DEF HitIsHandled, StepsOverHit
  <2>. QED  BY <1>0, <2>1, <2>2, ProcessAlone
<1>2. CASE tstate \in {"exited", "killed"} /\ tstate' = "reaped"
  <2>. SUFFICES ASSUME Clean' PROVE ProgramInv' /\ Undebugged!Next
    BY DEF Undisturbed
  <2>1. Clean /\ (~Clean)' = ~Clean
    BY <1>0 DEF Clean
  <2>2. At' = At /\ Status' = "reaped" /\ Status = tstate
    BY <1>0, <1>2 DEF At, Status, Alive, Resumed
  <2>3. AtInstruction'
    BY <1>0, <1>2, <2>1, <2>2 DEF ProgramInv, AtInstruction, Resumed
  <2>4. HitIsHandled' /\ StepsOverHit'
    BY <1>2 DEF HitIsHandled, StepsOverHit, Resumed
  <2>5. Undebugged!Reaped
    BY <1>2, <2>1, <2>2 DEF Undebugged!Reaped, Status
  <2>. QED  BY <2>3, <2>4, <2>5 DEF ProgramInv, Undebugged!Next
<1>. QED
  BY <1>1, <1>2 DEF WaitForProcess

(* A restore behind a true hit puts the instruction back under the place   *)
(* of the program, or finds the process killed; any other one is a hazard. *)
LEMMA RestoreUndisturbed ==
  ASSUME TypeInv, TextInv, ListedTargets, ProgramInv, Attached, IsListed(li, rip - 1),
         NEW address, NEW next,
         RestoreBreakpoint(GetElementByAddress(li, rip - 1), address, next)
  PROVE  Undisturbed
<1>. SUFFICES ASSUME Clean' PROVE ProgramInv' /\ (Stutter \/ Undebugged!Next)
  BY DEF Undisturbed
<1>1. PICK k \in 1 .. Len(li) : GetElementByAddress(li, rip - 1) = li[k] /\ li[k].address = rip - 1
  BY GetElementByAddressProperties DEF TypeInv, TypeOK
<1>2. k \in DOMAIN li
  BY <1>1, LenProperties DEF TypeInv, TypeOK
<1>3. Clean /\ (~Clean)' = ~Clean /\ address = rip - 1 /\ why = "int3" /\ Mapped(rip - 1)
  BY <1>1, <1>2 DEF RestoreBreakpoint, Clean, TextInv, ListedMapped
<1>4. syscall = NoSyscall /\ At = rip - 1 /\ At \in Insns /\ tstate = "stopped" /\ AtInstruction
  BY <1>3 DEF ProgramInv, AtInstruction, At, Attached
<1>5. CASE /\ mem' = WriteWord(mem, rip - 1, li[k].origdata) /\ rip' = rip - 1
           /\ Resume("stepping") /\ pc' = "RestoreWait"
  <2>0. tstate' = "stepping" /\ why' = "none" /\ syscall' = syscall
    BY <1>5 DEF Resume, RestoreBreakpoint
  <2>1. At' = At /\ Status' = Status
    BY <1>4, <1>5, <2>0 DEF At, Status, Alive, Resumed
  <2>2. li[k].origdata = ReadWord(Image, rip - 1)
    BY <1>1, <1>2, <1>3 DEF TextInv, SavedImage, Disturbs, Clean
  <2>3. mem'[rip - 1] = Image[rip - 1]
    BY <1>3, <1>5, <2>2, WriteImage DEF TypeInv, TypeOK, DebuggeeTypeOK
  <2>4. mem'[rip'] # INT3
    BY <1>4, <1>5, <2>3, InsnFacts
  <2>5. AtInstruction' /\ HitIsHandled' /\ StepsOverHit'
    BY <1>4, <1>5, <2>0, <2>1, <2>4 DEF AtInstruction, HitIsHandled, StepsOverHit
  <2>. QED  BY <1>3, <2>1, <2>5 DEF ProgramInv, Stutter, Mapping
<1>6. CASE tstate' = "killed" /\ UNCHANGED <<rip, why, syscall>>
  <2>1. At' = At /\ Status' = "killed" /\ Status = "alive"
    BY <1>4, <1>6 DEF At, Status, Alive, Resumed
  <2>2. AtInstruction' /\ HitIsHandled' /\ StepsOverHit'
    BY <1>4, <1>6, <2>1 DEF AtInstruction, HitIsHandled, StepsOverHit, Resumed
  <2>3. Undebugged!Killed
    BY <1>3, <2>1 DEF Undebugged!Killed, Status
  <2>. QED  BY <2>2, <2>3 DEF ProgramInv, Undebugged!Next
<1>. QED
  BY <1>1, <1>3, <1>5, <1>6 DEF RestoreBreakpoint

(* The code behind a waitpid leaves no int3 unhandled.                     *)
LEMMA StoppedUndisturbed ==
  ASSUME TypeInv, TextInv, ListedTargets, ProgramInv, ControlInv,
         ContinueStopped \/ StepXStopped \/ StepAutoStopped
  PROVE  Undisturbed
<1>1. CASE Attached /\ IsListed(li, rip - 1)
  BY <1>1, RestoreUndisturbed DEF ContinueStopped, StepXStopped, StepAutoStopped
<1>2. CASE ~(Attached /\ IsListed(li, rip - 1))
  <2>1. UNCHANGED tracee /\ UNCHANGED <<li, hist>> /\ pc' # "RestoreWait"
    BY <1>2 DEF ContinueStopped, StepXStopped, StepAutoStopped, Goto
  <2>2. ASSUME Clean'  PROVE HitIsHandled' /\ StepsOverHit'
    <3>1. Clean
      BY <2>1, <2>2 DEF Clean
    <3>2. ~(why = "int3" /\ tstate = "stopped")
      BY <1>2, <3>1 DEF ProgramInv, HitIsHandled, Attached
    <3>. QED  BY <2>1, <3>2 DEF HitIsHandled, StepsOverHit, tracee
  <2>. QED  BY <2>1, <2>2, ProcessAlone
<1>. QED
  BY <1>1, <1>2

(* At the prompt the last stop of a process was no int3, and the text is   *)
(* not part of the mapping.                                                *)
LEMMA PromptUndisturbed ==
  ASSUME ProgramInv, pc \in {"MainLoop", "StepAutoTest", "StepX"},
         UNCHANGED <<rip, tstate, why, syscall>>,
         hist \subseteq hist', pc' # "RestoreWait"
  PROVE  Undisturbed
<1>. SUFFICES ASSUME Clean' PROVE ProgramInv' /\ Stutter
  BY DEF Undisturbed
<1>1. Clean /\ (~Clean)' = ~Clean
  BY DEF Clean
<1>2. At' = At /\ Status' = Status
  BY DEF At, Status
<1>3. AtInstruction'
  BY <1>1, <1>2 DEF ProgramInv, AtInstruction
<1>4. ~(why = "int3" /\ tstate = "stopped")
  BY <1>1 DEF ProgramInv, HitIsHandled, Handling, AfterStop
<1>5. HitIsHandled' /\ StepsOverHit'
  BY <1>4 DEF HitIsHandled, StepsOverHit
<1>. QED
  BY <1>1, <1>2, <1>3, <1>5 DEF ProgramInv, Stutter, Mapping

(* The list holds addresses that were given to "break".                    *)
LEMMA ListedTargetsStep ==
  ASSUME TypeInv, TextInv, ListedTargets, [Next]_vars
  PROVE  ListedTargets'
<1>0. ASSUME li' = li  PROVE ListedTargets'
  BY <1>0 DEF ListedTargets
<1>1. ASSUME NEW a \in Targets, Break(a)  PROVE ListedTargets'
  <2>1. CASE Attached /\ Mapped(a)
    <3> DEFINE w == ReadWord(mem, a)
    <3>1. li' = AppendElement(li, a, w) /\ a \in Addr /\ w \in Word
          /\ li \in Seq(BreakpointType(Addr, Word))
      BY <1>1, <2>1, WordTypes DEF Break, PlaceBreakpoint, Mapped, TypeInv, TypeOK, DebuggeeTypeOK
    <3>. HIDE DEF w
    <3>2. /\ Len(li) \in Nat /\ DOMAIN li = 1 .. Len(li)
          /\ li' \in Seq(BreakpointType(Addr, Word)) /\ Len(li') = Len(li) + 1
          /\ \A i \in 1 .. Len(li) : li'[i] = li[i]
          /\ li'[Len(li) + 1].address = a
      BY <3>1, AppendElementProperties, LenProperties
    <3>3. DOMAIN li' = 1 .. Len(li) + 1
      BY <3>2, LenProperties
    <3>4. ASSUME NEW i \in DOMAIN li'
          PROVE  (i \in DOMAIN li /\ li'[i] = li[i]) \/ li'[i].address = a
      BY <3>2, <3>3
    <3>. QED  BY <3>4 DEF ListedTargets
  <2>2. CASE ~(Attached /\ Mapped(a))
    BY <1>0, <1>1, <2>2 DEF Break, PlaceBreakpoint, vars
  <2>. QED  BY <2>1, <2>2
<1>2. ASSUME NEW n, Delete(n)  PROVE ListedTargets'
  <2>1. CASE li' = li
    BY <1>0, <2>1
  <2>2. CASE li' # li
    <3>1. Removable(li, n) /\ li' = RemoveElement(li, n)
      BY <1>2, <2>2 DEF Delete
    <3>2. EntriesFrom(li', li)
      BY <3>1, RemoveElementProperties DEF TypeInv, TypeOK
    <3>. QED  BY <3>2 DEF EntriesFrom, ListedTargets
  <2>. QED  BY <2>1, <2>2
<1>3. ASSUME NEW n, Disable(n)  PROVE ListedTargets'
  <2>1. CASE FoundByNumber(li, n)
    <3>1. /\ DOMAIN li' = DOMAIN li
          /\ \A i \in DOMAIN li : li'[i].address = li[i].address
      BY <1>3, <2>1, DisableElementProperties, LenProperties DEF Disable, DisableBreakpoint, TypeInv, TypeOK
    <3>. QED  BY <3>1 DEF ListedTargets
  <2>2. CASE ~FoundByNumber(li, n)
    BY <1>0, <1>3, <2>2 DEF Disable, DisableBreakpoint
  <2>. QED  BY <2>1, <2>2
<1>4. ASSUME NEW n \in 0 .. MaxSteps, Step(n)  PROVE ListedTargets'
  BY <1>0, <1>4 DEF Step
<1>5. CASE Continue \/ Restart \/ AutoCommand \/ Info \/ Set \/ InputError \/ BadArgument \/ Exit
  BY <1>0, <1>5 DEF Continue, Restart, AutoCommand, Info, Set, InputError, BadArgument, Exit
<1>6. CASE ContinueExecution \/ StepX \/ StepAuto \/ StepAutoTest
  BY <1>0, <1>6 DEF ContinueExecution, StepX, StepAuto, StepAutoTest
<1>7. CASE ContinueWait \/ StepXWait \/ StepAutoWait \/ RestoreWait
  BY <1>0, <1>7 DEF ContinueWait, StepXWait, StepAutoWait, RestoreWait, WaitForProcess
<1>8. CASE ContinueStopped \/ StepXStopped \/ StepAutoStopped
  BY <1>0, <1>8 DEF ContinueStopped, StepXStopped, StepAutoStopped, RestoreBreakpoint
<1>9. CASE Process \/ Terminating \/ UNCHANGED vars
  BY <1>0, <1>9 DEF Process, Followed, Terminating, vars
<1>. QED
  BY <1>1, <1>2, <1>3, <1>4, <1>5, <1>6, <1>7, <1>8, <1>9 DEF Next, Command, Debugger

(* Every step of the session.                                              *)
LEMMA ProgramStep ==
  ASSUME TypeInv, TextInv, ControlInv, ListedTargets, ProgramInv, [Next]_vars
  PROVE  Undisturbed
<1>1. ASSUME NEW a \in Targets, Break(a)  PROVE Undisturbed
  BY <1>1, PromptUndisturbed DEF Break, PlaceBreakpoint, vars, tracee, control
<1>2. ASSUME NEW n \in 0 .. MaxBreakpoints + 1, Delete(n) \/ Disable(n)  PROVE Undisturbed
  BY <1>2, PromptUndisturbed DEF Delete, Disable, DisableBreakpoint, tracee, control, Goto
<1>3. ASSUME NEW n \in 0 .. MaxSteps, Step(n)  PROVE Undisturbed
  BY <1>3, PromptUndisturbed DEF Step, tracee
<1>4. CASE Continue \/ Restart \/ AutoCommand \/ Info \/ InputError \/ BadArgument
  BY <1>4, PromptUndisturbed
  DEF Continue, Restart, AutoCommand, Info, InfoRegister, InputError, BadArgument, tracee, control, Goto
<1>5. CASE Set
  <2>1. CASE rip' = rip
    BY <1>5, <2>1, PromptUndisturbed DEF Set, SetRegister, control, Goto
  <2>2. CASE rip' # rip
    <3>1. hist' # {}
      BY <1>5, <2>2 DEF Set, SetRegister
    <3>. QED  BY <3>1 DEF Undisturbed, Clean
  <2>. QED  BY <2>1, <2>2
<1>6. CASE Exit
  <2>1. CASE tstate \in Alive
    BY <1>6, <2>1, KillUndisturbed DEF Exit
  <2>2. CASE tstate \notin Alive
    BY <1>6, <2>2, PromptUndisturbed DEF Exit, Goto
  <2>. QED  BY <2>1, <2>2
<1>7. CASE ContinueExecution
  BY <1>7, ResumeUndisturbed DEF ContinueExecution, Handling, AfterStop, Waits, Resumed
<1>8. CASE StepX
  <2>1. CASE ResumeOrFail("stepping", "StepXWait")
    BY <1>8, <2>1, ResumeUndisturbed DEF StepX, Handling, AfterStop, Waits, Resumed
  <2>2. CASE ~ResumeOrFail("stepping", "StepXWait")
    BY <1>8, <2>2, PromptUndisturbed DEF StepX, Goto
  <2>. QED  BY <2>1, <2>2
<1>9. CASE StepAuto
  BY <1>9, ResumeUndisturbed DEF StepAuto, Handling, AfterStop, Waits, Resumed
<1>10. CASE StepAutoTest
  BY <1>10, PromptUndisturbed DEF StepAutoTest, tracee, Goto
<1>11. CASE ContinueWait \/ StepXWait \/ StepAutoWait
  BY <1>11, WaitUndisturbed DEF ContinueWait, StepXWait, StepAutoWait, Handling, AfterStop
<1>12. CASE RestoreWait
  <2>1. after # "RestoreWait"
    BY DEF TypeInv, TypeOK, Resumption
  <2>. QED  BY <1>12, <2>1, WaitUndisturbed DEF RestoreWait
<1>13. CASE ContinueStopped \/ StepXStopped \/ StepAutoStopped
  BY <1>13, StoppedUndisturbed
<1>14. CASE Process
  <2>1. CASE Followed(Execute)
    BY <2>1, ExecuteUndisturbed
  <2>2. CASE Followed(Signal)
    BY <2>2, SignalUndisturbed
  <2>3. CASE Followed(Kill)
    BY <2>3, KillUndisturbed DEF Followed, Kill
  <2>. QED  BY <1>14, <2>1, <2>2, <2>3 DEF Process, Followed
<1>15. CASE Terminating \/ UNCHANGED vars
  <2>1. UNCHANGED <<tracee, li, hist, pc>>
    BY <1>15 DEF Terminating, vars, control
  <2>2. ASSUME Clean'  PROVE HitIsHandled' /\ StepsOverHit'
    BY <2>1, <2>2 DEF ProgramInv, Clean, HitIsHandled, StepsOverHit, tracee
  <2>. QED  BY <2>1, <2>2, ProcessAlone
<1>. QED
  BY <1>1, <1>2, <1>3, <1>4, <1>5, <1>6, <1>7, <1>8, <1>9, <1>10, <1>11, <1>12, <1>13, <1>14, <1>15
  DEF Next, Command, Debugger

LEMMA ProgramInit == Init => ProgramInv /\ ListedTargets /\ Undebugged!Init
<1>. SUFFICES ASSUME Init PROVE ProgramInv /\ ListedTargets /\ Undebugged!Init
  OBVIOUS
<1>1. At = Entry /\ At \in Insns /\ Status = "alive" /\ Clean
  BY ControlAssumption DEF Init, DebuggeeInit, At, Status, Alive, Clean
<1>2. DOMAIN li = {}
  BY DEF Init
<1>3. ProgramInv
  BY <1>1 DEF Init, DebuggeeInit, ProgramInv, AtInstruction, HitIsHandled, StepsOverHit, Resumed
<1>. QED
  BY <1>1, <1>2, <1>3 DEF ListedTargets, Undebugged!Init, Status

LEMMA TransparentStep ==
  TypeInv /\ TextInv /\ ControlInv /\ ListedTargets /\ ProgramInv /\ [Next]_vars
    => (ListedTargets /\ ProgramInv)'
       /\ [Undebugged!Next]_<<At, IF tstate \in Alive THEN "alive" ELSE tstate, ~Clean>>
<1>. SUFFICES ASSUME TypeInv, TextInv, ControlInv, ListedTargets, ProgramInv, [Next]_vars
              PROVE  (ListedTargets /\ ProgramInv)' /\ (Stutter \/ Undebugged!Next)
  BY DEF Stutter, Mapping, Status
<1>1. CASE Clean'
  BY <1>1, ProgramStep, ListedTargetsStep DEF Undisturbed
<1>2. CASE ~Clean'
  <2>1. Undebugged!Derail
    BY <1>2 DEF Undebugged!Derail
  <2>. QED  BY <1>2, <2>1, ListedTargetsStep DEF ProgramInv, HitIsHandled, Undebugged!Next
<1>. QED  BY <1>1, <1>2

LEMMA ProgramInvariant == Spec => [](ListedTargets /\ ProgramInv)
BY ProgramInit, TransparentStep, TextInvariant, ControlInvariant, PTL DEF Spec

(* A hit is handled before the next prompt or resumption, in every         *)
(* interleaving of stops, kills and commands.                              *)
THEOREM HitsAreHandled == Spec => []HitIsHandled
<1>1. ProgramInv => HitIsHandled
  BY DEF ProgramInv
<1>. QED
  BY <1>1, ProgramInvariant, PTL

(* Unless a hazard happens, placing, hitting, stepping over, disabling and *)
(* removing breakpoints, signals and kills leave the debugged program its  *)
(* own behaviour: DebugSession implements Program.                         *)
THEOREM SessionIsTransparent == Spec => Transparent
BY ProgramInit, TransparentStep, ProgramInvariant, TextInvariant, ControlInvariant, PTL
DEF Spec, Transparent, Undebugged!Spec
=============================================================================
