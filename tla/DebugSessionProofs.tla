------------------------- MODULE DebugSessionProofs -------------------------
(***************************************************************************)
(* Theorems about DebugSession for every value of the constants.           *)
(***************************************************************************)
EXTENDS DebugSession, BreakpointListProofs

----------------------------------------------------------------------------
(* Words of the text.                                                      *)

LEMMA WordTypes ==
  ASSUME NEW m \in [Addr -> Byte], NEW a, Mapped(a)
  PROVE  /\ ReadWord(m, a) \in Word
         /\ Patched(ReadWord(m, a)) \in Word
         /\ \A w \in Word : WriteWord(m, a, w) \in [Addr -> Byte]
<1>1. a \in Addr /\ a + WordSize - 1 \in Addr /\ a \in Int
  BY SizeAssumption DEF Mapped, Addr
<1>2. \A k \in Offsets : a + k \in Addr
  BY <1>1, SizeAssumption DEF Addr, Offsets
<1>3. ReadWord(m, a) \in Word
  BY <1>2 DEF ReadWord, Word
<1>4. Patched(ReadWord(m, a)) \in Word
  <2>1. \A w \in [Offsets -> Byte] : [w EXCEPT ![0] = INT3] \in [Offsets -> Byte]
    <3>1. INT3 \in Byte
      BY DEF Byte, INT3
    <3>. QED  BY <3>1
  <2>. QED  BY <1>3, <2>1 DEF Patched, Word
<1>5. \A w \in Word : WriteWord(m, a, w) \in [Addr -> Byte]
  BY DEF WriteWord, Word
<1>. QED
  BY <1>3, <1>4, <1>5

----------------------------------------------------------------------------
(* Type correctness.  The counter of StepX stays within its bound because  *)
(* the loop body runs only while i < number_of_steps.                      *)

StepCounted == pc \in {"StepXWait", "StepXStopped"} => stepI < stepN

TypeInv == TypeOK /\ StepCounted

LEMMA TypeInit == Init => TypeInv
<1>. SUFFICES ASSUME Init PROVE TypeInv
  OBVIOUS
<1>1. DebuggeeTypeOK
  BY ImageAssumption, InsnAssumption, ControlAssumption, SizeAssumption, SignalAssumption
  DEF Init, DebuggeeInit, DebuggeeTypeOK, Addr, Alive, NoSyscall
<1>2. li \in Seq(BreakpointType(Addr, Word)) /\ Len(li) = 0
  BY EmptySeq DEF Init
<1>3. stepI \in 0 .. MaxSteps /\ stepN \in 0 .. MaxSteps /\ orphans \in 0 .. MaxOrphans
  BY BoundAssumption DEF Init
<1>4. pc \in Labels /\ after \in Resumption
  BY DEF Init, Labels, Resumption
<1>5. running \in BOOLEAN /\ sysStopped \in BOOLEAN /\ systrace \in BOOLEAN
  BY Zenon DEF Init
<1>6. Len(li) <= MaxBreakpoints /\ hist \subseteq Hazards /\ StepCounted
  BY <1>2, BoundAssumption DEF Init, StepCounted
<1>. QED
  BY <1>1, <1>2, <1>3, <1>4, <1>5, <1>6 DEF TypeInv, TypeOK

(* What a step of the process keeps of the types.                          *)
LEMMA ProcessTypes ==
  ASSUME TypeInv, Process
  PROVE  TypeInv'
<1>. USE DEF TypeInv, TypeOK
<1>1. UNCHANGED <<li, flags, control, hist>>
  BY DEF Process, Followed
<1>2. ASSUME NEW i \in Insns
      PROVE  i \in Addr /\ i + InsnLen[i] \in 0 .. TextSize
  <2>1. i \in Addr /\ InsnLen[i] \in Nat \ {0} /\ i .. i + InsnLen[i] - 1 \subseteq Addr
    BY InsnAssumption DEF BytesOf
  <2>2. i + InsnLen[i] - 1 \in Addr
    BY <2>1 DEF Addr
  <2>. QED  BY <2>1, <2>2, SizeAssumption DEF Addr
<1>3. DebuggeeTypeOK'
  <2>. USE DEF DebuggeeTypeOK, Resumed, Alive, Dead
  <2>1. CASE Trap
    BY <2>1, SizeAssumption DEF Trap, AtInt3, Stop, Addr
  <2>2. CASE Advance
    <3>1. rip \in Insns /\ rip' \in Succ[rip]
      BY <2>2 DEF Advance, Intact
    <3>2. rip' \in Insns
      BY <3>1, ControlAssumption
    <3>3. rip' \in 0 .. TextSize
      BY <1>2, <3>2, SizeAssumption DEF Addr
    <3>. QED  BY <2>2, <3>3 DEF Advance, Stop
  <2>3. CASE EnterSyscall
    BY <1>2, <2>3 DEF EnterSyscall, Stop, Intact
  <2>4. CASE LeaveSyscall
    BY <2>4 DEF LeaveSyscall, Stop
  <2>5. CASE Terminate
    BY <2>5 DEF Terminate
  <2>6. CASE Fault
    BY <2>6 DEF Fault, Stop
  <2>7. CASE Garbled
    BY <2>7, SizeAssumption DEF Garbled, Stop, Addr
  <2>8. CASE Signal
    BY <2>8, SignalAssumption DEF Signal, Stop
  <2>9. CASE Kill
    BY <2>9 DEF Kill
  <2>. QED
    BY <2>1, <2>2, <2>3, <2>4, <2>5, <2>6, <2>7, <2>8, <2>9
    DEF Process, Followed, Execute
<1>. QED
  BY <1>1, <1>3 DEF flags, control, StepCounted

(* Going to a label clears the locals of the functions that are left.      *)
ControlTypes ==
  /\ pc \in Labels /\ after \in Resumption
  /\ stepI \in 0 .. MaxSteps /\ stepN \in 0 .. MaxSteps
  /\ StepCounted

LEMMA GotoTypes ==
  ASSUME TypeInv, NEW label \in Labels, Goto(label),
         label \in {"StepXWait", "StepXStopped"} => stepI < stepN
  PROVE  ControlTypes'
<1>1. stepI' \in 0 .. MaxSteps /\ stepN' \in 0 .. MaxSteps
  BY BoundAssumption DEF TypeInv, TypeOK, Goto
<1>2. pc' \in Labels /\ after' \in Resumption
  BY DEF Goto, Resumption
<1>3. StepCounted'
  BY DEF StepCounted, Goto, StepLabels
<1>. QED  BY <1>1, <1>2, <1>3 DEF ControlTypes

(* The result of waitpid.                                                  *)
LEMMA WaitTypes ==
  ASSUME TypeInv, NEW onExit \in Labels, NEW onStop \in Labels, NEW onSignal \in Labels,
         WaitForProcess(onExit, onStop, onSignal),
         \A l \in {onExit, onStop, onSignal} :
           l \in {"StepXWait", "StepXStopped"} => stepI < stepN
  PROVE  TypeInv'
<1>1. ControlTypes'
  BY GotoTypes DEF WaitForProcess
<1>2. DebuggeeTypeOK' /\ running' \in BOOLEAN
  BY DEF WaitForProcess, TypeInv, TypeOK, DebuggeeTypeOK, Dead
<1>. QED
  BY <1>1, <1>2 DEF ControlTypes, TypeInv, TypeOK, WaitForProcess

(* RestoreBreakpoint, for the two ways StepX leaves its counter.           *)
LEMMA RestoreTypes ==
  ASSUME TypeInv, NEW address \in Int, NEW next \in Resumption, IsListed(li, rip - 1),
         RestoreBreakpoint(GetElementByAddress(li, rip - 1), address, next),
         stepI' \in 0 .. MaxSteps, sysStopped' = sysStopped
  PROVE  TypeInv'
<1> DEFINE b == GetElementByAddress(li, rip - 1)
<1>. USE DEF TypeInv, TypeOK
<1>1. b \in BreakpointType(Addr, Word)
  BY GetElementByAddressProperties
<1>2. b.origdata \in Word
  BY <1>1 DEF BreakpointType
<1>. HIDE DEF b
<1>3. /\ hist' = hist \cup (IF address # b.address THEN {"misrestore"} ELSE {})
                      \cup (IF why # "int3" THEN {"falsehit"} ELSE {})
      /\ \/ /\ Mapped(address)
            /\ mem' = WriteWord(mem, address, b.origdata)
            /\ rip' = address
            /\ Resume("stepping")
            /\ pc' = "RestoreWait" /\ after' = next
         \/ /\ tstate' \in {tstate, "killed"}
            /\ pc' = next
            /\ UNCHANGED <<mem, rip, why, after>>
      /\ UNCHANGED <<syscall, signals, stepN, li, running, systrace, orphans>>
  BY DEF RestoreBreakpoint, b
<1>4. hist' \subseteq Hazards
  BY <1>3 DEF Hazards
<1>5. DebuggeeTypeOK'
  <2>1. CASE Mapped(address) /\ mem' = WriteWord(mem, address, b.origdata)
             /\ rip' = address /\ Resume("stepping")
    <3>1. mem' \in [Addr -> Byte]
      BY <1>2, <1>3, <2>1, WordTypes DEF DebuggeeTypeOK
    <3>2. rip' \in 0 .. TextSize
      BY <1>3, <2>1, SizeAssumption DEF Mapped, Addr
    <3>. QED
      BY <1>3, <2>1, <3>1, <3>2 DEF DebuggeeTypeOK, Resume, Resumed, Alive
  <2>2. CASE tstate' \in {tstate, "killed"} /\ UNCHANGED <<mem, rip, why>>
    BY <1>3, <2>2 DEF DebuggeeTypeOK, Dead
  <2>. QED  BY <1>3, <2>1, <2>2
<1>6. pc' \in Labels /\ after' \in Resumption /\ StepCounted'
  BY <1>3 DEF Labels, Waits, Resumption, StepCounted
<1>. QED
  BY <1>3, <1>4, <1>5, <1>6

(* What the debugger does between two prompts.                             *)
LEMMA DebuggerTypes ==
  ASSUME TypeInv, Debugger
  PROVE  TypeInv'
<1>. USE DEF Labels, Ended, Waits, AfterStop, Resumption
<1>0. rip - 1 \in Int /\ rip - stepI \in Int /\ stepI \in 0 .. MaxSteps
      /\ stepN \in 0 .. MaxSteps
  BY BoundAssumption, SizeAssumption DEF TypeInv, TypeOK, DebuggeeTypeOK
<1>1. CASE ContinueExecution
  <2>1. ControlTypes'
    BY <1>1, GotoTypes DEF ContinueExecution, ResumeOrFail
  <2>2. DebuggeeTypeOK'
    BY <1>1 DEF ContinueExecution, ResumeOrFail, Resume, TypeInv, TypeOK, DebuggeeTypeOK,
                Resumed, Alive
  <2>. QED
    BY <1>1, <2>1, <2>2 DEF ContinueExecution, TypeInv, TypeOK, ControlTypes
<1>2. CASE ContinueWait
  BY <1>2, WaitTypes DEF ContinueWait
<1>3. CASE ContinueStopped
  <2>1. CASE ~IsListed(li, rip - 1) \/ ~Attached
    <3>1. ControlTypes'
      BY <1>3, <2>1, GotoTypes DEF ContinueStopped
    <3>. QED
      BY <1>3, <2>1, <3>1 DEF ContinueStopped, TypeInv, TypeOK, ControlTypes, DebuggeeTypeOK,
                              tracee, flags
  <2>2. CASE IsListed(li, rip - 1) /\ Attached
    BY <1>0, <1>3, <2>2, RestoreTypes DEF ContinueStopped
  <2>. QED  BY <2>1, <2>2
<1>4. CASE StepX
  <2>1. ControlTypes'
    BY <1>4, GotoTypes DEF StepX, ResumeOrFail
  <2>2. DebuggeeTypeOK'
    BY <1>4 DEF StepX, ResumeOrFail, Resume, TypeInv, TypeOK, DebuggeeTypeOK, Resumed, Alive
  <2>. QED
    BY <1>4, <2>1, <2>2 DEF StepX, TypeInv, TypeOK, ControlTypes, flags
<1>5. CASE StepXWait
  BY <1>5, WaitTypes DEF StepXWait, TypeInv, StepCounted
<1>6. CASE StepXStopped
  <2>0. stepI < stepN /\ stepI + 1 \in 0 .. MaxSteps
    BY <1>0, <1>6, BoundAssumption DEF StepXStopped, TypeInv, StepCounted
  <2>1. CASE ~Attached
    <3>1. ControlTypes'
      BY <1>6, <2>1, GotoTypes DEF StepXStopped
    <3>. QED
      BY <1>6, <2>1, <3>1 DEF StepXStopped, TypeInv, TypeOK, ControlTypes, DebuggeeTypeOK,
                              tracee, flags
  <2>2. CASE Attached /\ ~IsListed(li, rip - 1)
    BY <1>6, <2>0, <2>2 DEF StepXStopped, TypeInv, TypeOK, StepCounted, DebuggeeTypeOK,
                            tracee, flags
  <2>3. CASE Attached /\ IsListed(li, rip - 1)
    BY <1>0, <1>6, <2>0, <2>3, RestoreTypes DEF StepXStopped
  <2>. QED  BY <2>1, <2>2, <2>3
<1>7. CASE StepAuto
  <2>1. ControlTypes'
    BY <1>7, GotoTypes DEF StepAuto, ResumeOrFail
  <2>2. DebuggeeTypeOK'
    BY <1>7 DEF StepAuto, ResumeOrFail, Resume, TypeInv, TypeOK, DebuggeeTypeOK, Resumed, Alive
  <2>. QED
    BY <1>7, <2>1, <2>2 DEF StepAuto, TypeInv, TypeOK, ControlTypes, flags
<1>8. CASE StepAutoWait
  BY <1>8, WaitTypes DEF StepAutoWait
<1>9. CASE StepAutoStopped
  <2>1. CASE ~IsListed(li, rip - 1) \/ ~Attached
    <3>1. ControlTypes'
      BY <1>9, <2>1, GotoTypes DEF StepAutoStopped
    <3>. QED
      BY <1>9, <2>1, <3>1 DEF StepAutoStopped, TypeInv, TypeOK, ControlTypes, DebuggeeTypeOK,
                              tracee, flags
  <2>2. CASE IsListed(li, rip - 1) /\ Attached
    BY <1>0, <1>9, <2>2, RestoreTypes DEF StepAutoStopped
  <2>. QED  BY <2>1, <2>2
<1>10. CASE StepAutoTest
  <2>1. ControlTypes'
    BY <1>10, GotoTypes DEF StepAutoTest
  <2>. QED
    BY <1>10, <2>1 DEF StepAutoTest, TypeInv, TypeOK, ControlTypes, DebuggeeTypeOK, tracee, flags
<1>11. CASE RestoreWait
  BY <1>11, WaitTypes DEF RestoreWait, TypeInv, TypeOK
<1>. QED
  BY <1>1, <1>2, <1>3, <1>4, <1>5, <1>6, <1>7, <1>8, <1>9, <1>10, <1>11 DEF Debugger

(* The commands of the prompt.                                             *)
LEMMA CommandTypes ==
  ASSUME TypeInv, Command
  PROVE  TypeInv'
<1>. USE DEF Labels, Ended, Waits, AfterStop, Resumption
<1>1. ASSUME NEW a \in Targets, Break(a)  PROVE TypeInv'
  <2>1. CASE ~(Attached /\ Mapped(a))
    BY <1>1, <2>1 DEF Break, PlaceBreakpoint, vars, tracee, flags, control, TypeInv, TypeOK, DebuggeeTypeOK,
                      StepCounted
  <2>2. CASE Attached /\ Mapped(a)
    <3> DEFINE w == ReadWord(mem, a)
    <3>1. a \in Addr /\ w \in Word /\ WriteWord(mem, a, Patched(w)) \in [Addr -> Byte]
      BY <2>2, WordTypes DEF Mapped, TypeInv, TypeOK, DebuggeeTypeOK
    <3>. HIDE DEF w
    <3>2. /\ Len(li) < MaxBreakpoints
          /\ mem' = WriteWord(mem, a, Patched(w))
          /\ li' = AppendElement(li, a, w)
          /\ hist' = hist \cup (IF w # ReadWord(Image, a) THEN {"overlap"} ELSE {})
          /\ UNCHANGED <<rip, tstate, why, syscall, signals, control, flags>>
      BY <1>1, <2>2 DEF Break, PlaceBreakpoint, w
    <3>3. li' \in Seq(BreakpointType(Addr, Word)) /\ Len(li') = Len(li) + 1
      BY <3>1, <3>2, AppendElementProperties DEF TypeInv, TypeOK
    <3>4. Len(li') <= MaxBreakpoints
      BY <3>2, <3>3, BoundAssumption, LenProperties DEF TypeInv, TypeOK
    <3>5. hist' \subseteq Hazards
      BY <3>2 DEF TypeInv, TypeOK, Hazards
    <3>. QED
      BY <3>1, <3>2, <3>3, <3>4, <3>5
      DEF TypeInv, TypeOK, DebuggeeTypeOK, StepCounted, flags, control
  <2>. QED  BY <2>1, <2>2
<1>2. ASSUME NEW n \in 0 .. MaxBreakpoints + 1, Delete(n)  PROVE TypeInv'
  <2>1. CASE ~Removable(li, n)
    BY <1>2, <2>1 DEF Delete, flags, control, TypeInv, TypeOK, DebuggeeTypeOK, StepCounted
  <2>2. CASE Removable(li, n)
    <3> DEFINE b == li[RemovePosition(li, n)]
    <3>1. b \in BreakpointType(Addr, Word)
      BY <2>2, RemoveElementProperties, ElementOfSeq DEF TypeInv, TypeOK
    <3>2. b.origdata \in Word
      BY <3>1 DEF BreakpointType
    <3>3. /\ RemoveElement(li, n) \in Seq(BreakpointType(Addr, Word))
          /\ Len(RemoveElement(li, n)) <= MaxBreakpoints
      BY <2>2, RemoveElementProperties, BoundAssumption, LenProperties DEF TypeInv, TypeOK
    <3>. HIDE DEF b
    <3>4. CASE Attached /\ Mapped(b.address)
      <4>1. /\ mem' = IF HasInt3Bits(mem[b.address])
                      THEN WriteWord(mem, b.address, b.origdata) ELSE mem
            /\ li' = RemoveElement(li, n)
            /\ UNCHANGED control
        BY <1>2, <2>2, <3>4 DEF Delete, b
      <4>2. mem' \in [Addr -> Byte]
        BY <3>2, <3>4, <4>1, WordTypes DEF TypeInv, TypeOK, DebuggeeTypeOK
      <4>. QED
        BY <1>2, <3>3, <4>1, <4>2
        DEF Delete, flags, control, TypeInv, TypeOK, DebuggeeTypeOK, StepCounted
    <3>5. CASE ~(Attached /\ Mapped(b.address))
      <4>1. Goto("Failed") /\ UNCHANGED <<mem, li>>
        BY <1>2, <2>2, <3>5 DEF Delete, b
      <4>2. ControlTypes'
        BY <4>1, GotoTypes
      <4>. QED
        BY <1>2, <4>1, <4>2 DEF Delete, flags, TypeInv, TypeOK, DebuggeeTypeOK, ControlTypes
    <3>. QED  BY <3>4, <3>5
  <2>. QED  BY <2>1, <2>2
<1>3. ASSUME NEW n \in 0 .. MaxBreakpoints + 1, Disable(n)  PROVE TypeInv'
  <2>1. CASE FoundByNumber(li, n)
    <3>1. li' \in Seq(BreakpointType(Addr, Word)) /\ Len(li') <= MaxBreakpoints
      BY <1>3, <2>1, DisableElementProperties DEF Disable, DisableBreakpoint, TypeInv, TypeOK
    <3>. QED
      BY <1>3, <2>1, <3>1
      DEF Disable, DisableBreakpoint, tracee, flags, control, TypeInv, TypeOK, DebuggeeTypeOK, StepCounted
  <2>2. CASE ~FoundByNumber(li, n)
    <3>1. ControlTypes'
      BY <1>3, <2>2, GotoTypes DEF Disable, DisableBreakpoint
    <3>. QED
      BY <1>3, <2>2, <3>1
      DEF Disable, DisableBreakpoint, tracee, flags, TypeInv, TypeOK, DebuggeeTypeOK, ControlTypes
  <2>. QED  BY <2>1, <2>2
<1>4. ASSUME NEW n \in 0 .. MaxSteps, Step(n)  PROVE TypeInv'
  BY <1>4, BoundAssumption
  DEF Step, tracee, flags, TypeInv, TypeOK, DebuggeeTypeOK, StepCounted
<1>5. CASE Continue \/ AutoCommand \/ InputError \/ BadArgument \/ Info
  <2>1. ControlTypes'
    BY <1>5, GotoTypes DEF Continue, AutoCommand, InputError, BadArgument, Info, InfoRegister
  <2>. QED
    BY <1>5, <2>1 DEF Continue, AutoCommand, InputError, BadArgument, Info, InfoRegister,
                      tracee, flags, TypeInv, TypeOK, DebuggeeTypeOK, ControlTypes
<1>6. CASE Restart
  <2>1. ControlTypes'
    BY <1>6, GotoTypes DEF Restart, control, TypeInv, TypeOK, ControlTypes, StepCounted
  <2>2. orphans' \in 0 .. MaxOrphans
    BY <1>6, BoundAssumption DEF Restart, TypeInv, TypeOK
  <2>. QED
    BY <1>6, <2>1, <2>2 DEF Restart, tracee, TypeInv, TypeOK, DebuggeeTypeOK, ControlTypes
<1>7. CASE Set
  <2>1. ControlTypes'
    BY <1>7, GotoTypes DEF Set, SetRegister, control, TypeInv, TypeOK, ControlTypes, StepCounted
  <2>2. rip' \in 0 .. TextSize /\ hist' \subseteq Hazards
    BY <1>7 DEF Set, SetRegister, Hazards, TypeInv, TypeOK, DebuggeeTypeOK
  <2>. QED
    BY <1>7, <2>1, <2>2 DEF Set, SetRegister, flags, TypeInv, TypeOK, DebuggeeTypeOK, ControlTypes
<1>8. CASE Exit
  <2>1. ControlTypes'
    BY <1>8, GotoTypes DEF Exit
  <2>. QED
    BY <1>8, <2>1 DEF Exit, flags, TypeInv, TypeOK, DebuggeeTypeOK, ControlTypes, Alive, Dead
<1>. QED
  BY <1>1, <1>2, <1>3, <1>4, <1>5, <1>6, <1>7, <1>8 DEF Command

LEMMA TypeStep ==
  ASSUME TypeInv, [Next]_vars
  PROVE  TypeInv'
<1>1. CASE Terminating \/ UNCHANGED vars
  BY <1>1 DEF Terminating, vars, tracee, flags, control, TypeInv, TypeOK, DebuggeeTypeOK,
              StepCounted
<1>. QED
  BY <1>1, CommandTypes, DebuggerTypes, ProcessTypes DEF Next

(* Every reachable state has the types of TypeOK: rip stays within or just *)
(* behind the text, the words saved are words, and the counter of StepX    *)
(* never passes the number of steps asked for.                             *)
THEOREM TypeCorrect == Spec => []TypeOK
<1>1. Init => TypeInv
  BY TypeInit
<1>2. TypeInv /\ [Next]_vars => TypeInv'
  BY TypeStep
<1>3. TypeInv => TypeOK
  BY DEF TypeInv
<1>. QED
  BY <1>1, <1>2, <1>3, PTL DEF Spec

----------------------------------------------------------------------------
(* The text.  MemoryFaithful is not inductive: what a restore or a removal *)
(* writes is the word saved at the entry, so the invariant must say what   *)
(* was saved, and that the entries are where words can be written.         *)

ListedMapped == \A i \in DOMAIN li : Mapped(li[i].address)

SavedImage ==
  ~Disturbs({"overlap", "misrestore"}) =>
    \A i \in DOMAIN li : li[i].origdata = ReadWord(Image, li[i].address)

TextInv == ListedMapped /\ SavedImage /\ MemoryFaithful

(* Writing a word of the image brings back the image in it, and changes    *)
(* nothing outside of it.                                                  *)
LEMMA WriteImage ==
  ASSUME NEW m \in [Addr -> Byte], NEW a, Mapped(a)
  PROVE  /\ \A x \in Addr : \/ WriteWord(m, a, ReadWord(Image, a))[x] = Image[x]
                            \/ WriteWord(m, a, ReadWord(Image, a))[x] = m[x]
         /\ WriteWord(m, a, ReadWord(Image, a))[a] = Image[a]
<1>1. a \in Addr /\ a \in Int /\ 0 \in Offsets /\ a - a = 0
  BY SizeAssumption DEF Mapped, Addr, Offsets
<1>2. ASSUME NEW x \in Addr, x - a \in Offsets
      PROVE  WriteWord(m, a, ReadWord(Image, a))[x] = Image[x]
  <2>1. a + (x - a) = x
    BY <1>1 DEF Addr
  <2>. QED  BY <1>2, <2>1 DEF WriteWord, ReadWord
<1>3. ASSUME NEW x \in Addr, x - a \notin Offsets
      PROVE  WriteWord(m, a, ReadWord(Image, a))[x] = m[x]
  BY <1>3 DEF WriteWord
<1>4. WriteWord(m, a, ReadWord(Image, a))[a] = Image[a]
  BY <1>1, <1>2
<1>. QED
  BY <1>2, <1>3, <1>4

(* Patching a word changes its first byte and no other byte of the text.   *)
LEMMA PatchWord ==
  ASSUME NEW m \in [Addr -> Byte], NEW a, Mapped(a)
  PROVE  /\ WriteWord(m, a, Patched(ReadWord(m, a)))[a] = INT3
         /\ \A x \in Addr \ {a} : WriteWord(m, a, Patched(ReadWord(m, a)))[x] = m[x]
<1>1. a \in Addr /\ a \in Int /\ 0 \in Offsets /\ a - a = 0
  BY SizeAssumption DEF Mapped, Addr, Offsets
<1>2. \A k \in Offsets : Patched(ReadWord(m, a))[k] = IF k = 0 THEN INT3 ELSE m[a + k]
  BY DEF Patched, ReadWord
<1>3. WriteWord(m, a, Patched(ReadWord(m, a)))[a] = INT3
  BY <1>1, <1>2 DEF WriteWord
<1>4. ASSUME NEW x \in Addr \ {a}
      PROVE  WriteWord(m, a, Patched(ReadWord(m, a)))[x] = m[x]
  <2>1. x - a # 0 /\ a + (x - a) = x
    BY <1>1 DEF Addr
  <2>. QED  BY <1>2, <2>1 DEF WriteWord
<1>. QED
  BY <1>3, <1>4

LEMMA TextFrame ==
  ASSUME TextInv, UNCHANGED <<mem, li>>, hist \subseteq hist'
  PROVE  TextInv'
BY DEF TextInv, ListedMapped, SavedImage, MemoryFaithful, Disturbs, IsListed, WithAddress, Mapped

LEMMA RestoreText ==
  ASSUME TypeInv, TextInv, NEW address, NEW next, IsListed(li, rip - 1),
         RestoreBreakpoint(GetElementByAddress(li, rip - 1), address, next)
  PROVE  TextInv'
<1>1. PICK i \in 1 .. Len(li) : GetElementByAddress(li, rip - 1) = li[i]
  BY GetElementByAddressProperties DEF TypeInv, TypeOK
<1>2. /\ hist' = hist \cup (IF address # li[i].address THEN {"misrestore"} ELSE {})
                      \cup (IF why # "int3" THEN {"falsehit"} ELSE {})
      /\ \/ Mapped(address) /\ mem' = WriteWord(mem, address, li[i].origdata)
         \/ mem' = mem
      /\ li' = li
  BY <1>1 DEF RestoreBreakpoint
<1>3. i \in DOMAIN li /\ hist \subseteq hist'
  BY <1>2, LenProperties DEF TypeInv, TypeOK
<1>4. ListedMapped' /\ SavedImage'
  BY <1>2, <1>3 DEF TextInv, ListedMapped, SavedImage, Disturbs, Mapped
<1>5. MemoryFaithful'
  <2>. SUFFICES ASSUME ~Disturbs({"overlap", "misrestore"})', NEW x \in Addr
                PROVE  mem'[x] = Image[x] \/ (mem'[x] = INT3 /\ IsListed(li', x))
    BY DEF MemoryFaithful
  <2>1. address = li[i].address /\ ~Disturbs({"overlap", "misrestore"})
    BY <1>2 DEF Disturbs
  <2>2. li[i].origdata = ReadWord(Image, address) /\ Mapped(address)
    BY <1>3, <2>1 DEF TextInv, SavedImage, ListedMapped
  <2>3. mem'[x] = Image[x] \/ mem'[x] = mem[x]
    BY <1>2, <2>2, WriteImage DEF TypeInv, TypeOK, DebuggeeTypeOK
  <2>4. mem[x] = Image[x] \/ (mem[x] = INT3 /\ IsListed(li, x))
    BY <2>1 DEF TextInv, MemoryFaithful
  <2>. QED  BY <1>2, <2>3, <2>4
<1>. QED
  BY <1>4, <1>5 DEF TextInv

LEMMA BreakText ==
  ASSUME TypeInv, TextInv, NEW a \in Targets, Break(a)
  PROVE  TextInv'
<1>1. CASE ~(Attached /\ Mapped(a))
  BY <1>1, TextFrame DEF Break, PlaceBreakpoint, vars, tracee
<1>2. CASE Attached /\ Mapped(a)
  <2> DEFINE w == ReadWord(mem, a)
  <2>1. /\ mem' = WriteWord(mem, a, Patched(w))
        /\ li' = AppendElement(li, a, w)
        /\ hist' = hist \cup (IF w # ReadWord(Image, a) THEN {"overlap"} ELSE {})
    BY <1>2 DEF Break, PlaceBreakpoint
  <2>2. mem'[a] = INT3 /\ \A x \in Addr \ {a} : mem'[x] = mem[x]
    BY <1>2, <2>1, PatchWord DEF TypeInv, TypeOK, DebuggeeTypeOK
  <2>3. a \in Addr /\ w \in Word
    BY <1>2, WordTypes DEF Mapped, TypeInv, TypeOK, DebuggeeTypeOK
  <2>. HIDE DEF w
  <2>4. /\ Len(li) \in Nat /\ DOMAIN li = 1 .. Len(li)
        /\ li' \in Seq(BreakpointType(Addr, Word)) /\ Len(li') = Len(li) + 1
        /\ \A i \in 1 .. Len(li) : li'[i] = li[i]
        /\ li'[Len(li) + 1].address = a /\ li'[Len(li) + 1].origdata = w
    BY <2>1, <2>3, AppendElementProperties, LenProperties DEF TypeInv, TypeOK
  <2>5. DOMAIN li' = 1 .. Len(li) + 1
    BY <2>4, LenProperties
  <2>6. ASSUME NEW i \in DOMAIN li'
        PROVE  \/ i \in DOMAIN li /\ li'[i] = li[i]
               \/ li'[i].address = a /\ li'[i].origdata = w
    BY <2>4, <2>5
  <2>7. ListedMapped'
    BY <1>2, <2>6 DEF TextInv, ListedMapped, Mapped
  <2>8. SavedImage'
    BY <2>1, <2>6 DEF TextInv, SavedImage, Disturbs
  <2>9. MemoryFaithful'
    <3>. SUFFICES ASSUME ~Disturbs({"overlap", "misrestore"})', NEW x \in Addr
                  PROVE  mem'[x] = Image[x] \/ (mem'[x] = INT3 /\ IsListed(li', x))
      BY DEF MemoryFaithful
    <3>1. mem[x] = Image[x] \/ (mem[x] = INT3 /\ IsListed(li, x))
      BY <2>1 DEF TextInv, MemoryFaithful, Disturbs
    <3>2. IsListed(li', a) /\ (IsListed(li, x) => IsListed(li', x))
      BY <2>4, <2>5 DEF IsListed, WithAddress
    <3>. QED  BY <2>2, <3>1, <3>2
  <2>. QED  BY <2>7, <2>8, <2>9 DEF TextInv
<1>. QED  BY <1>1, <1>2

LEMMA DeleteText ==
  ASSUME TypeInv, TextInv, NEW n, Delete(n)
  PROVE  TextInv'
<1>1. CASE UNCHANGED <<mem, li>>
  BY <1>1, TextFrame DEF Delete
<1>2. CASE ~UNCHANGED <<mem, li>>
  <2> DEFINE p == RemovePosition(li, n)
             a == li[p].address
  <2>1. /\ Removable(li, n)
        /\ mem' = IF HasInt3Bits(mem[a]) THEN WriteWord(mem, a, li[p].origdata) ELSE mem
        /\ li' = RemoveElement(li, n)
        /\ hist' = hist
    BY <1>2 DEF Delete
  <2>2. li \in Seq(BreakpointType(Addr, Word))
    BY DEF TypeInv, TypeOK
  <2>3. p \in 1 .. Len(li) /\ EntriesFrom(li', li) /\ EntriesKept(li, li', p)
    <3>1. Removable(li, n) /\ li' = RemoveElement(li, n)
      BY <2>1
    <3>. QED  BY <2>2, <3>1, RemoveElementProperties
  <2>. HIDE DEF p
  <2>4. DOMAIN li = 1 .. Len(li)
    BY <2>2, LenProperties
  <2>5. /\ p \in DOMAIN li
        /\ \A j \in DOMAIN li' : \E i \in DOMAIN li : li'[j] = li[i]
        /\ \A i \in DOMAIN li \ {p} : \E j \in DOMAIN li' : li'[j] = li[i]
    BY <2>3, <2>4 DEF EntriesFrom, EntriesKept
  <2>6. Mapped(a) /\ a \in Addr
    BY <2>5 DEF TextInv, ListedMapped, Mapped
  <2>7. ListedMapped'
    BY <2>5 DEF TextInv, ListedMapped, Mapped
  <2>8. SavedImage'
    <3>. SUFFICES ASSUME ~Disturbs({"overlap", "misrestore"})', NEW j \in DOMAIN li'
                  PROVE  li'[j].origdata = ReadWord(Image, li'[j].address)
      BY DEF SavedImage
    <3>1. PICK i \in DOMAIN li : li'[j] = li[i]
      BY <2>5
    <3>2. li[i].origdata = ReadWord(Image, li[i].address)
      BY <2>1 DEF TextInv, SavedImage, Disturbs
    <3>. QED  BY <3>1, <3>2
  <2>9. MemoryFaithful'
    <3>. SUFFICES ASSUME ~Disturbs({"overlap", "misrestore"})', NEW x \in Addr
                  PROVE  mem'[x] = Image[x] \/ (mem'[x] = INT3 /\ IsListed(li', x))
      BY DEF MemoryFaithful
    <3>1. mem[x] = Image[x] \/ (mem[x] = INT3 /\ IsListed(li, x))
      BY <2>1 DEF TextInv, MemoryFaithful, Disturbs
    <3>2. li[p].origdata = ReadWord(Image, a)
      BY <2>1, <2>5 DEF TextInv, SavedImage, Disturbs
    <3>3. mem'[x] = Image[x] \/ mem'[x] = mem[x]
      BY <2>1, <2>6, <3>2, WriteImage DEF TypeInv, TypeOK, DebuggeeTypeOK
    <3>4. CASE x # a
      <4>1. IsListed(li, x) => IsListed(li', x)
        <5>. SUFFICES ASSUME NEW i \in DOMAIN li, li[i].address = x
                      PROVE  \E j \in DOMAIN li' : li'[j].address = x
          BY DEF IsListed, WithAddress
        <5>1. i # p
          BY <3>4
        <5>. QED  BY <2>5, <5>1
      <4>. QED  BY <3>1, <3>3, <4>1
    <3>5. CASE x = a
      <4>1. HasInt3Bits(INT3)
        BY DEF HasInt3Bits, INT3
      <4>2. mem[a] = INT3 => mem'[a] = Image[a]
        BY <2>1, <2>6, <3>2, <4>1, WriteImage DEF TypeInv, TypeOK, DebuggeeTypeOK
      <4>. QED  BY <3>1, <3>3, <3>5, <4>2
    <3>. QED  BY <3>4, <3>5
  <2>. QED  BY <2>7, <2>8, <2>9 DEF TextInv
<1>. QED  BY <1>1, <1>2

LEMMA DisableText ==
  ASSUME TypeInv, TextInv, NEW n, Disable(n)
  PROVE  TextInv'
<1>1. mem' = mem /\ hist' = hist
  BY DEF Disable, DisableBreakpoint, tracee
<1>2. CASE FoundByNumber(li, n)
  <2>1. /\ DOMAIN li' = DOMAIN li
        /\ \A i \in DOMAIN li : li'[i].address = li[i].address /\ li'[i].origdata = li[i].origdata
    BY <1>2, DisableElementProperties, LenProperties DEF Disable, DisableBreakpoint, TypeInv, TypeOK
  <2>2. \A x : IsListed(li, x) => IsListed(li', x)
    BY <2>1 DEF IsListed, WithAddress
  <2>3. ListedMapped' /\ SavedImage'
    BY <1>1, <2>1 DEF TextInv, ListedMapped, SavedImage, Disturbs, Mapped
  <2>4. MemoryFaithful'
    BY <1>1, <2>2 DEF TextInv, MemoryFaithful, Disturbs
  <2>. QED  BY <2>3, <2>4 DEF TextInv
<1>3. CASE ~FoundByNumber(li, n)
  BY <1>1, <1>3, TextFrame DEF Disable, DisableBreakpoint
<1>. QED  BY <1>2, <1>3

LEMMA TextStep ==
  ASSUME TypeInv, TextInv, [Next]_vars
  PROVE  TextInv'
<1>1. ASSUME NEW a \in Targets, Break(a)  PROVE TextInv'
  BY <1>1, BreakText
<1>2. ASSUME NEW n \in 0 .. MaxBreakpoints + 1, Delete(n) \/ Disable(n)  PROVE TextInv'
  BY <1>2, DeleteText, DisableText
<1>3. ASSUME NEW n \in 0 .. MaxSteps, Step(n)  PROVE TextInv'
  BY <1>3, TextFrame DEF Step, tracee
<1>4. CASE Continue \/ Restart \/ AutoCommand \/ Info \/ Set \/ InputError \/ BadArgument \/ Exit
  BY <1>4, TextFrame
  DEF Continue, Restart, AutoCommand, Info, InfoRegister, Set, SetRegister, InputError, BadArgument, Exit, tracee
<1>5. CASE ContinueExecution \/ StepX \/ StepAuto \/ StepAutoTest
  BY <1>5, TextFrame DEF ContinueExecution, StepX, StepAuto, StepAutoTest, tracee
<1>6. CASE ContinueWait \/ StepXWait \/ StepAutoWait \/ RestoreWait
  BY <1>6, TextFrame DEF ContinueWait, StepXWait, StepAutoWait, RestoreWait, WaitForProcess
<1>7. CASE ContinueStopped
  <2>1. CASE Attached /\ IsListed(li, rip - 1)
    BY <1>7, <2>1, RestoreText DEF ContinueStopped
  <2>. QED  BY <1>7, <2>1, TextFrame DEF ContinueStopped, tracee
<1>8. CASE StepXStopped
  <2>1. CASE Attached /\ IsListed(li, rip - 1)
    BY <1>8, <2>1, RestoreText DEF StepXStopped
  <2>. QED  BY <1>8, <2>1, TextFrame DEF StepXStopped, tracee
<1>9. CASE StepAutoStopped
  <2>1. CASE Attached /\ IsListed(li, rip - 1)
    BY <1>9, <2>1, RestoreText DEF StepAutoStopped
  <2>. QED  BY <1>9, <2>1, TextFrame DEF StepAutoStopped, tracee
<1>10. CASE Process
  BY <1>10, TextFrame DEF Process, Followed, Execute, Trap, Advance, EnterSyscall, LeaveSyscall,
                          Terminate, Fault, Garbled, Signal, Kill
<1>11. CASE Terminating \/ UNCHANGED vars
  BY <1>11, TextFrame DEF Terminating, vars, tracee
<1>. QED
  BY <1>1, <1>2, <1>3, <1>4, <1>5, <1>6, <1>7, <1>8, <1>9, <1>10, <1>11
  DEF Next, Command, Debugger

(* The types and the text together are inductive.                          *)
LEMMA TextInvariant == Spec => [](TypeInv /\ TextInv)
<1>1. Init => TypeInv /\ TextInv
  <2>. SUFFICES ASSUME Init PROVE TypeInv /\ TextInv
    OBVIOUS
  <2>1. DOMAIN li = {} /\ mem = Image
    BY DEF Init, DebuggeeInit
  <2>. QED
    BY <2>1, TypeInit DEF TextInv, ListedMapped, SavedImage, MemoryFaithful
<1>2. TypeInv /\ TextInv /\ [Next]_vars => (TypeInv /\ TextInv)'
  <2>. SUFFICES ASSUME TypeInv, TextInv, [Next]_vars PROVE TypeInv' /\ TextInv'
    OBVIOUS
  <2>1. TypeInv'
    BY TypeStep
  <2>. QED  BY <2>1, TextStep
<1>. QED
  BY <1>1, <1>2, PTL DEF Spec

(* Unless a saved word holds a foreign int3 or a restore goes astray, the  *)
(* text is the image but for int3 bytes at listed addresses, whatever the  *)
(* order of placing, hits, removals, signals and kills.                    *)
THEOREM TextIsFaithful == Spec => []MemoryFaithful
<1>1. TypeInv /\ TextInv => MemoryFaithful
  BY DEF TextInv
<1>. QED
  BY <1>1, TextInvariant, PTL

----------------------------------------------------------------------------
(* Control.  Between two waits the process is not executing and is not an  *)
(* unreaped exit, which is why a failed request means a process that is    *)
(* gone.  That b_is_running is false only behind a reaped process is for   *)
(* Restart, whose fork may fail.                                           *)

ControlInv ==
  /\ pc \notin Waits => tstate \notin Resumed \cup {"exited"}
  /\ running \/ tstate = "reaped"
  /\ FailedHasNoProcess

LEMMA WaitControl ==
  ASSUME TypeInv, ControlInv, NEW onExit, NEW onStop, NEW onSignal, pc # "Failed",
         WaitForProcess(onExit, onStop, onSignal), onExit # "Failed", onStop # "Failed"
  PROVE  ControlInv'
BY DEF WaitForProcess, Goto, ControlInv, FailedHasNoProcess, Resumed, Dead,
       TypeInv, TypeOK

LEMMA RestoreControl ==
  ASSUME ControlInv, Attached, NEW b, NEW address, NEW next \in Resumption,
         RestoreBreakpoint(b, address, next)
  PROVE  ControlInv'
BY DEF RestoreBreakpoint, Resume, ControlInv, FailedHasNoProcess, Attached,
       Waits, Resumed, Dead, Resumption

LEMMA ControlStep ==
  ASSUME TypeInv, TextInv, ControlInv, [Next]_vars
  PROVE  ControlInv'
<1>. USE DEF ControlInv, FailedHasNoProcess, Goto
<1>0. Attached \/ tstate \in Resumed \/ tstate \in Dead
  BY DEF TypeInv, TypeOK, DebuggeeTypeOK, Attached, Alive
<1>1. ASSUME NEW a \in Targets, Break(a)  PROVE ControlInv'
  BY <1>1 DEF Break, PlaceBreakpoint, vars, tracee, control, flags
<1>2. ASSUME NEW n \in 0 .. MaxBreakpoints + 1, Delete(n)  PROVE ControlInv'
  <2>1. CASE UNCHANGED control
    BY <1>2, <2>1 DEF Delete, control, flags
  <2>2. CASE ~UNCHANGED control
    <3>1. Removable(li, n) /\ ~(Attached /\ Mapped(li[RemovePosition(li, n)].address))
          /\ Goto("Failed")
      BY <1>2, <2>2 DEF Delete
    <3>2. RemovePosition(li, n) \in DOMAIN li
      BY <3>1, RemoveElementProperties, LenProperties DEF TypeInv, TypeOK
    <3>3. ~Attached
      BY <3>1, <3>2 DEF TextInv, ListedMapped
    <3>. QED
      BY <1>0, <1>2, <3>1, <3>3 DEF Delete, flags, Waits
  <2>. QED  BY <2>1, <2>2
<1>3. ASSUME NEW n \in 0 .. MaxBreakpoints + 1, Disable(n)  PROVE ControlInv'
  BY <1>3 DEF Disable, DisableBreakpoint, tracee, flags, control, Waits
<1>4. ASSUME NEW n \in 0 .. MaxSteps, Step(n)  PROVE ControlInv'
  BY <1>4 DEF Step, tracee, flags, Waits
<1>5. CASE Continue \/ AutoCommand \/ InputError \/ BadArgument
  BY <1>5 DEF Continue, AutoCommand, InputError, BadArgument, tracee, flags, Waits
<1>6. CASE Info
  BY <1>0, <1>6 DEF Info, InfoRegister, tracee, flags, Waits
<1>7. CASE Restart
  BY <1>7 DEF Restart, tracee, control, Waits, Dead
<1>8. CASE Set
  BY <1>8 DEF Set, SetRegister, control, flags, Waits
<1>9. CASE Exit
  BY <1>9 DEF Exit, flags, Waits, Alive, Resumed, Dead
<1>10. CASE ContinueExecution
  BY <1>0, <1>10 DEF ContinueExecution, ResumeOrFail, Resume, Attached, Waits, Resumed
<1>11. CASE StepX
  BY <1>0, <1>11 DEF StepX, ResumeOrFail, Resume, Attached, Waits, Resumed, flags
<1>12. CASE StepAuto
  BY <1>0, <1>12 DEF StepAuto, ResumeOrFail, Resume, Attached, Waits, Resumed, flags
<1>13. CASE StepAutoTest
  BY <1>13 DEF StepAutoTest, tracee, flags, Waits
<1>14. CASE ContinueWait
  BY <1>14 DEF ContinueWait, WaitForProcess, Resumed, Dead
<1>15. CASE StepXWait \/ StepAutoWait
  BY <1>15, WaitControl DEF StepXWait, StepAutoWait
<1>16. CASE RestoreWait
  <2>1. after # "Failed"
    BY DEF TypeInv, TypeOK, Resumption
  <2>. QED  BY <1>16, <2>1, WaitControl DEF RestoreWait
<1>17. CASE ContinueStopped
  <2>1. CASE Attached /\ IsListed(li, rip - 1)
    BY <1>17, <2>1, RestoreControl DEF ContinueStopped, Resumption
  <2>2. CASE ~(Attached /\ IsListed(li, rip - 1))
    BY <1>0, <1>17, <2>2 DEF ContinueStopped, tracee, flags, Waits
  <2>. QED  BY <2>1, <2>2
<1>18. CASE StepXStopped
  <2>1. CASE Attached /\ IsListed(li, rip - 1)
    BY <1>18, <2>1, RestoreControl DEF StepXStopped, Resumption
  <2>2. CASE ~(Attached /\ IsListed(li, rip - 1))
    BY <1>0, <1>18, <2>2 DEF StepXStopped, tracee, flags, Waits
  <2>. QED  BY <2>1, <2>2
<1>19. CASE StepAutoStopped
  <2>1. CASE Attached /\ IsListed(li, rip - 1)
    BY <1>19, <2>1, RestoreControl DEF StepAutoStopped, Resumption
  <2>2. CASE ~(Attached /\ IsListed(li, rip - 1))
    BY <1>0, <1>19, <2>2 DEF StepAutoStopped, tracee, flags, Waits
  <2>. QED  BY <2>1, <2>2
<1>20. CASE Process
  <2>1. UNCHANGED <<flags, control>> /\ pc # "Failed"
    BY <1>20 DEF Process, Followed, Ended
  <2>2. CASE Execute
    BY <2>1, <2>2 DEF Execute, Trap, Advance, EnterSyscall, LeaveSyscall, Terminate, Fault,
                      Garbled, Fetching, Stop, Resumed, flags, control
  <2>3. CASE Signal
    BY <2>1, <2>3 DEF Signal, Fetching, Stop, Resumed, flags, control
  <2>4. CASE Kill
    BY <2>1, <2>4 DEF Kill, Alive, Resumed, flags, control
  <2>. QED  BY <1>20, <2>2, <2>3, <2>4 DEF Process, Followed
<1>21. CASE Terminating \/ UNCHANGED vars
  BY <1>21 DEF Terminating, vars, tracee, flags, control
<1>. QED
  BY <1>1, <1>2, <1>3, <1>4, <1>5, <1>6, <1>7, <1>8, <1>9, <1>10, <1>11, <1>12, <1>13, <1>14,
     <1>15, <1>16, <1>17, <1>18, <1>19, <1>20, <1>21
  DEF Next, Command, Debugger

LEMMA ControlInvariant == Spec => []ControlInv
<1>1. Init => ControlInv
  BY DEF Init, DebuggeeInit, ControlInv, FailedHasNoProcess, Resumed
<1>2. TypeInv /\ TextInv /\ ControlInv /\ [Next]_vars => ControlInv'
  BY ControlStep
<1>. QED
  BY <1>1, <1>2, TextInvariant, PTL DEF Spec

(* A failed request ends the debugger only when the process is gone: no    *)
(* listed breakpoint, and no interleaving of a kill, makes it abandon a    *)
(* process that still lives.                                               *)
THEOREM FailureMeansNoProcess == Spec => []FailedHasNoProcess
<1>1. ControlInv => FailedHasNoProcess
  BY DEF ControlInv
<1>. QED
  BY <1>1, ControlInvariant, PTL

(* At the prompt, and when the debugger ends, the process does not execute.*)
THEOREM PromptIsQuiescent == Spec => []PromptQuiescent
<1>1. ControlInv => PromptQuiescent
  BY DEF ControlInv, PromptQuiescent, Ended, Waits
<1>. QED
  BY <1>1, ControlInvariant, PTL
=============================================================================
