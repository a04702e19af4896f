---------------------------- MODULE HazardProofs ----------------------------
(***************************************************************************)
(* Where the hazards of DebugSession come from, for every value of the     *)
(* constants, that a user who keeps clear of the causes has a session      *)
(* without hazards, and when the number of a breakpoint is its position.   *)
(***************************************************************************)
EXTENDS TransparencyProofs

----------------------------------------------------------------------------
(* A stop that is mistaken for a hit.                                      *)

LEMMA ListedInsn ==
  ASSUME TextInv, ListedTargets, NEW a, IsListed(li, a)
  PROVE  a \in Insns
<1>1. a \in Targets /\ a \in Addr
  BY DEF IsListed, WithAddress, ListedTargets, TextInv, ListedMapped, Mapped
<1>. QED
  BY <1>1, TargetAssumption

(* A process that no int3 has stopped is at an instruction or, in a system *)
(* call, behind the last byte of one.                                      *)
LEMMA BehindOneByte ==
  ASSUME TypeInv, TextInv, ListedTargets, ProgramInv, Clean, why # "int3",
         IsListed(li, rip - 1)
  PROVE  InsnLen[rip - 1] = 1
<1>1. /\ rip - 1 \in Insns /\ rip \in Int
      /\ InsnLen[rip - 1] \in Nat \ {0}
  BY ListedInsn, InsnAssumption DEF TypeInv, TypeOK, DebuggeeTypeOK
<1>2. AtInstruction
  BY DEF ProgramInv
<1>3. CASE syscall = NoSyscall
  <2>1. rip \in Insns
    BY <1>2, <1>3 DEF AtInstruction, At
  <2>2. rip \notin BytesOf(rip - 1)
    BY <1>1, <2>1, DisjointAssumption
  <2>3. ~(rip <= rip - 1 + InsnLen[rip - 1] - 1)
    BY <1>1, <2>2 DEF BytesOf
  <2>. QED  BY <1>1, <2>3
<1>4. CASE syscall # NoSyscall
  <2>1. syscall \in Insns /\ rip = syscall + InsnLen[syscall]
    BY <1>2, <1>4, ControlAssumption DEF AtInstruction
  <2>2. syscall \in Int /\ InsnLen[syscall] \in Nat \ {0}
    BY <2>1, InsnAssumption, InsnFacts
  <2>3. rip - 1 \in BytesOf(syscall)
    BY <2>1, <2>2 DEF BytesOf
  <2>4. rip - 1 = syscall
    BY <1>1, <2>1, <2>3, DisjointAssumption
  <2>. QED  BY <2>1, <2>2, <2>4
<1>. QED
  BY <1>3, <1>4

----------------------------------------------------------------------------
(* What the first hazard of a session needs.                               *)
Caused ==
  /\ "overlap" \in hist' => ~Separated'
  /\ "misrestore" \in hist' => \E i \in DOMAIN li : li[i].address = rip - 1 /\ ~li[i].enabled
  /\ "falsehit" \in hist' => IsListed(li, rip - 1) /\ InsnLen[rip - 1] = 1

LEMMA OverlapCaused ==
  ASSUME TypeInv, TextInv, Clean, NEW a \in Targets, Break(a)
  PROVE  Caused
<1>1. ASSUME hist' # hist  PROVE ~Separated'
  <2> DEFINE w == ReadWord(mem, a)
  <2>1. Mapped(a) /\ li' = AppendElement(li, a, w) /\ w # ReadWord(Image, a)
    BY <1>1 DEF Break, PlaceBreakpoint, vars
  <2>2. PICK k \in Offsets : mem[a + k] # Image[a + k]
    BY <2>1 DEF ReadWord
  <2>3. a \in Int /\ k \in Int /\ 0 <= k /\ k < WordSize /\ a + k \in Addr
    BY <2>1, SizeAssumption DEF Mapped, Addr, Offsets
  <2>4. IsListed(li, a + k)
    BY <2>2, <2>3 DEF TextInv, MemoryFaithful, Disturbs, Clean
  <2>5. PICK j \in DOMAIN li : li[j].address = a + k
    BY <2>4 DEF IsListed, WithAddress
  <2>6. li \in Seq(BreakpointType(Addr, Word)) /\ a \in Addr /\ w \in Word
    BY <2>1, WordTypes DEF TypeInv, TypeOK, DebuggeeTypeOK, Mapped
  <2>. HIDE DEF w
  <2>7. /\ li' \in Seq(BreakpointType(Addr, Word)) /\ Len(li') = Len(li) + 1
        /\ li'[Len(li) + 1].address = a
        /\ \A i \in 1 .. Len(li) : li'[i] = li[i]
    BY <2>1, <2>6, AppendElementProperties
  <2>8. Len(li) \in Nat /\ DOMAIN li = 1 .. Len(li) /\ DOMAIN li' = 1 .. Len(li) + 1
    BY <2>6, <2>7, LenProperties
  <2>9. /\ j \in DOMAIN li' /\ Len(li) + 1 \in DOMAIN li' /\ j # Len(li) + 1
        /\ li'[j].address = a + k
    BY <2>5, <2>7, <2>8
  <2>10. PICK n \in DOMAIN li' : j # n /\ li'[n].address = a
    BY <2>7, <2>9
  <2>11. ~(li'[j].address - li'[n].address >= WordSize) /\ ~(li'[n].address - li'[j].address >= WordSize)
    BY <2>3, <2>9, <2>10, SizeAssumption
  <2>. QED  BY <2>9, <2>10, <2>11 DEF Separated
<1>2. hist' \subseteq hist \cup {"overlap"}
  BY DEF Break, PlaceBreakpoint, vars
<1>. QED
  BY <1>1, <1>2 DEF Caused, Clean

LEMMA RestoreCaused ==
  ASSUME TypeInv, TextInv, ListedTargets, ProgramInv, Clean, IsListed(li, rip - 1),
         NEW address, NEW next,
         RestoreBreakpoint(GetElementByAddress(li, rip - 1), address, next),
         GetElementByAddress(li, rip - 1).enabled => address = rip - 1
  PROVE  Caused
<1>1. PICK k \in 1 .. Len(li) : GetElementByAddress(li, rip - 1) = li[k] /\ li[k].address = rip - 1
  BY GetElementByAddressProperties DEF TypeInv, TypeOK
<1>2. k \in DOMAIN li
  BY <1>1, LenProperties DEF TypeInv, TypeOK
<1>3. /\ "overlap" \notin hist'
      /\ "misrestore" \in hist' => address # rip - 1
      /\ "falsehit" \in hist' => why # "int3"
  BY <1>1 DEF RestoreBreakpoint, Clean
<1>. QED
  BY <1>1, <1>2, <1>3, BehindOneByte DEF Caused

LEMMA CausedStep ==
  ASSUME TypeInv, TextInv, ListedTargets, ProgramInv, Clean, [Next]_vars
  PROVE  Caused
<1>0. ASSUME hist' \subseteq {"setregs"}  PROVE Caused
  BY <1>0 DEF Caused
<1>1. ASSUME NEW a \in Targets, Break(a)  PROVE Caused
  BY <1>1, OverlapCaused
<1>2. CASE ContinueStopped
  <2>1. CASE Attached /\ IsListed(li, rip - 1)
    BY <1>2, <2>1, RestoreCaused DEF ContinueStopped
  <2>2. CASE ~(Attached /\ IsListed(li, rip - 1))
    BY <1>0, <1>2, <2>2 DEF ContinueStopped, Clean
  <2>. QED  BY <2>1, <2>2
<1>3. CASE StepXStopped
  <2>1. CASE Attached /\ IsListed(li, rip - 1)
    BY <1>3, <2>1, RestoreCaused DEF StepXStopped
  <2>2. CASE ~(Attached /\ IsListed(li, rip - 1))
    BY <1>0, <1>3, <2>2 DEF StepXStopped, Clean
  <2>. QED  BY <2>1, <2>2
<1>4. CASE StepAutoStopped
  <2>1. CASE Attached /\ IsListed(li, rip - 1)
    BY <1>4, <2>1, RestoreCaused DEF StepAutoStopped
  <2>2. CASE ~(Attached /\ IsListed(li, rip - 1))
    BY <1>0, <1>4, <2>2 DEF StepAutoStopped, Clean
  <2>. QED  BY <2>1, <2>2
<1>5. CASE Set
  BY <1>0, <1>5 DEF Set, SetRegister, Clean
<1>6. ASSUME NEW n \in 0 .. MaxBreakpoints + 1, Delete(n) \/ Disable(n)  PROVE Caused
  BY <1>0, <1>6 DEF Delete, Disable, Clean
<1>7. ASSUME NEW n \in 0 .. MaxSteps, Step(n)  PROVE Caused
  BY <1>0, <1>7 DEF Step, Clean
<1>8. CASE Continue \/ Restart \/ AutoCommand \/ Info \/ InputError \/ BadArgument \/ Exit
  BY <1>0, <1>8 DEF Continue, Restart, AutoCommand, Info, InputError, BadArgument, Exit, Clean
<1>9. CASE ContinueExecution \/ StepX \/ StepAuto \/ StepAutoTest
  BY <1>0, <1>9 DEF ContinueExecution, StepX, StepAuto, StepAutoTest, Clean
<1>10. CASE ContinueWait \/ StepXWait \/ StepAutoWait \/ RestoreWait
  BY <1>0, <1>10 DEF ContinueWait, StepXWait, StepAutoWait, RestoreWait, WaitForProcess, Clean
<1>11. CASE Process \/ Terminating \/ UNCHANGED vars
  BY <1>0, <1>11 DEF Process, Followed, Terminating, vars, Clean
<1>. QED
  BY <1>1, <1>2, <1>3, <1>4, <1>5, <1>6, <1>7, <1>8, <1>9, <1>10, <1>11 DEF Next, Command, Debugger

(* A foreign word is saved only beside another breakpoint, a breakpoint is *)
(* restored at a foreign address only when it is disabled, and a stop is   *)
(* mistaken for a hit only behind a listed instruction of one byte.        *)
THEOREM HazardsAreCaused == Spec => HazardsHaveCause
<1>1. TypeInv /\ TextInv /\ ListedTargets /\ ProgramInv /\ [Next]_vars =>
        [Clean =>
           /\ "overlap" \in hist' => ~Separated'
           /\ "misrestore" \in hist' => \E i \in DOMAIN li : li[i].address = rip - 1 /\ ~li[i].enabled
           /\ "falsehit" \in hist' => IsListed(li, rip - 1) /\ InsnLen[rip - 1] = 1]_vars
  BY CausedStep DEF Caused
<1>. QED
  BY <1>1, TextInvariant, ProgramInvariant, PTL DEF Spec, HazardsHaveCause

----------------------------------------------------------------------------
(* The careful user.                                                       *)

LEMMA CarefulStep ==
  ASSUME TypeInv, TextInv, ListedTargets, ProgramInv, Clean, [Next]_vars,
         Careful, Careful', [~Set]_vars
  PROVE  Clean'
<1>1. Caused
  BY CausedStep
<1>2. "overlap" \notin hist' /\ "misrestore" \notin hist' /\ "falsehit" \notin hist'
  BY <1>1 DEF Caused, Careful, IsListed, WithAddress
<1>3. hist' \subseteq {"overlap", "misrestore", "falsehit"}
  <2>1. CASE UNCHANGED vars
    BY <2>1 DEF vars, Clean
  <2>2. CASE Next /\ ~Set
    <3>. USE DEF Clean
    <3>1. ASSUME NEW a \in Targets, Break(a)  PROVE hist' \subseteq {"overlap"}
      BY <3>1 DEF Break, PlaceBreakpoint, vars
    <3>2. ASSUME NEW n \in 0 .. MaxBreakpoints + 1, Delete(n) \/ Disable(n)  PROVE hist' = {}
      BY <3>2 DEF Delete, Disable
    <3>3. ASSUME NEW n \in 0 .. MaxSteps, Step(n)  PROVE hist' = {}
      BY <3>3 DEF Step
    <3>4. CASE Continue \/ Restart \/ AutoCommand \/ Info \/ InputError \/ BadArgument \/ Exit
      BY <3>4 DEF Continue, Restart, AutoCommand, Info, InputError, BadArgument, Exit
    <3>5. CASE ContinueExecution \/ StepX \/ StepAuto \/ StepAutoTest
      BY <3>5 DEF ContinueExecution, StepX, StepAuto, StepAutoTest
    <3>6. CASE ContinueWait \/ StepXWait \/ StepAutoWait \/ RestoreWait
      BY <3>6 DEF ContinueWait, StepXWait, StepAutoWait, RestoreWait, WaitForProcess
    <3>7. CASE ContinueStopped \/ StepXStopped \/ StepAutoStopped
      BY <3>7 DEF ContinueStopped, StepXStopped, StepAutoStopped, RestoreBreakpoint
    <3>8. CASE Process \/ Terminating
      BY <3>8 DEF Process, Followed, Terminating, vars
    <3>. QED
      BY <2>2, <3>1, <3>2, <3>3, <3>4, <3>5, <3>6, <3>7, <3>8 DEF Next, Command, Debugger
  <2>. QED  BY <2>1, <2>2
<1>. QED
  BY <1>2, <1>3 DEF Clean

(* As long as the breakpoints share no word, lie on no instruction of one  *)
(* byte and are not disabled, and "set" is not used, no hazard happens:    *)
(* the program is undisturbed, every entry holds the original word, and    *)
(* every restore is at its own breakpoint.                                 *)
THEOREM CarefulSessionsAreSafe ==
  Spec => ([]Careful /\ [][~Set]_vars =>
             [](Clean /\ SavedIsOriginal /\ RestoresItsOwn) /\ Transparent)
<1>1. Init => Clean
  BY DEF Init, Clean
<1>2. TypeInv /\ TextInv /\ ListedTargets /\ ProgramInv /\ Clean /\ Careful /\ Careful'
        /\ [Next]_vars /\ [~Set]_vars => Clean'
  BY CarefulStep
<1>3. TextInv /\ Clean => SavedIsOriginal /\ RestoresItsOwn
  BY DEF TextInv, SavedImage, SavedIsOriginal, RestoresItsOwn, Disturbs, Clean
<1>. QED
  BY <1>1, <1>2, <1>3, TextInvariant, ProgramInvariant, SessionIsTransparent, PTL DEF Spec

----------------------------------------------------------------------------
(* Numbers are positions until an entry in the middle is removed.          *)
Numbered == \A i \in DOMAIN li : li[i].number = i

OnlyLastRemoved == [][Len(li') < Len(li) => li' = SubSeq(li, 1, Len(li) - 1)]_vars

LEMMA NumberedSelects ==
  ASSUME TypeInv, Numbered
  PROVE  SelectedByItsNumber
<1>. SUFFICES ASSUME NEW i \in DOMAIN li
              PROVE  /\ Removable(li, li[i].number) /\ FoundByNumber(li, li[i].number)
                     /\ RemovePosition(li, li[i].number) = i
  BY DEF SelectedByItsNumber
<1>1. Len(li) \in Nat /\ DOMAIN li = 1 .. Len(li)
  BY LenProperties DEF TypeInv, TypeOK
<1>2. li[i].number = i /\ WithNumber(li, i) = {i}
  BY DEF Numbered, WithNumber
<1>3. {i} \in SUBSET Nat /\ {i} # {}
  BY <1>1
<1>4. Min({i}) = i
  BY <1>3, MinIsSmallest
<1>. QED
  BY <1>1, <1>2, <1>4 DEF Removable, FoundByNumber, RemovePosition

LEMMA NumberedStep ==
  ASSUME TypeInv, Numbered, [Next]_vars,
         Len(li') < Len(li) => li' = SubSeq(li, 1, Len(li) - 1)
  PROVE  Numbered'
<1>0. /\ li' = li => Numbered'
      /\ Len(li) \in Nat /\ DOMAIN li = 1 .. Len(li) /\ li \in Seq(BreakpointType(Addr, Word))
  BY LenProperties DEF Numbered, TypeInv, TypeOK
<1>1. ASSUME NEW a \in Targets, Break(a), li' # li  PROVE Numbered'
  <2> DEFINE w == ReadWord(mem, a)
  <2>1. Mapped(a) /\ li' = AppendElement(li, a, w) /\ w \in Word /\ a \in Addr
    BY <1>1, WordTypes DEF Break, PlaceBreakpoint, vars, Mapped, TypeInv, TypeOK, DebuggeeTypeOK
  <2>. HIDE DEF w
  <2>2. /\ li' \in Seq(BreakpointType(Addr, Word)) /\ Len(li') = Len(li) + 1
        /\ li'[Len(li) + 1].number = Len(li) + 1
        /\ \A i \in 1 .. Len(li) : li'[i] = li[i]
    BY <1>0, <2>1, AppendElementProperties
  <2>3. DOMAIN li' = 1 .. Len(li) + 1
    BY <2>2, LenProperties
  <2>4. ASSUME NEW i \in DOMAIN li'  PROVE li'[i].number = i
    <3>1. CASE i \in 1 .. Len(li)
      BY <1>0, <2>2, <3>1 DEF Numbered
    <3>2. CASE i = Len(li) + 1
      BY <2>2, <3>2
    <3>3. \A m \in Nat : \A k \in 1 .. m + 1 : k \in 1 .. m \/ k = m + 1
      OBVIOUS
    <3>4. i \in 1 .. Len(li) + 1
      BY <2>3
    <3>5. i \in 1 .. Len(li) \/ i = Len(li) + 1
      BY <1>0, <3>3, <3>4
    <3>. QED  BY <3>1, <3>2, <3>5
  <2>. QED  BY <2>4 DEF Numbered
<1>2. ASSUME NEW n, Delete(n), li' # li  PROVE Numbered'
  <2>1. Removable(li, n) /\ li' = RemoveElement(li, n)
    BY <1>2 DEF Delete
  <2>2. /\ RemovePosition(li, n) \in 1 .. Len(li)
        /\ Len(RemoveElement(li, n)) = Len(li) - 1
    BY <1>0, <2>1, RemoveElementProperties
  <2>3. li' = SubSeq(li, 1, Len(li) - 1)
    BY <1>0, <2>1, <2>2
  <2>4. \A i \in 1 .. Len(li) - 1 : SubSeq(li, 1, Len(li) - 1)[i] = li[i]
    BY <1>0
  <2>5. DOMAIN SubSeq(li, 1, Len(li) - 1) = 1 .. Len(li) - 1
    BY <1>0, <2>2
  <2>6. \A i \in 1 .. Len(li) - 1 : SubSeq(li, 1, Len(li) - 1)[i].number = i
    BY <1>0, <2>4 DEF Numbered
  <2>7. \A i \in DOMAIN SubSeq(li, 1, Len(li) - 1) : SubSeq(li, 1, Len(li) - 1)[i].number = i
    BY <2>5, <2>6
  <2>. QED  BY <2>3, <2>7 DEF Numbered
<1>3. ASSUME NEW n, Disable(n), li' # li  PROVE Numbered'
  <2>1. FoundByNumber(li, n) /\ li' = DisableElement(li, n)
    BY <1>3 DEF Disable, DisableBreakpoint
  <2>2. /\ li' \in Seq(BreakpointType(Addr, Word)) /\ Len(li') = Len(li)
        /\ \A i \in 1 .. Len(li) : li'[i].number = li[i].number
    BY <1>0, <2>1, DisableElementProperties
  <2>3. DOMAIN li' = DOMAIN li
    BY <1>0, <2>2, LenProperties
  <2>. QED  BY <1>0, <2>2, <2>3 DEF Numbered
<1>4. ASSUME NEW n \in 0 .. MaxSteps, Step(n)  PROVE li' = li
  BY <1>4 DEF Step
<1>5. Continue \/ Restart \/ AutoCommand \/ Info \/ Set \/ InputError \/ BadArgument \/ Exit => li' = li
  BY DEF Continue, Restart, AutoCommand, Info, Set, InputError, BadArgument, Exit
<1>6. Debugger => li' = li
  BY DEF Debugger, ContinueExecution, ContinueWait, ContinueStopped, StepX, StepXWait, StepXStopped,
         StepAuto, StepAutoWait, StepAutoStopped, StepAutoTest, RestoreWait, WaitForProcess, RestoreBreakpoint
<1>7. Process \/ Terminating \/ UNCHANGED vars => li' = li
  BY DEF Process, Followed, Terminating, vars
<1>. QED
  BY <1>0, <1>1, <1>2, <1>3, <1>4, <1>5, <1>6, <1>7 DEF Next, Command

(* As long as only the last entry of the list is removed, "delete" and     *)
(* "disable" with the number that is shown for an entry select that entry. *)
THEOREM NumbersArePositions ==
  Spec => (OnlyLastRemoved => []SelectedByItsNumber)
<1>1. Init => Numbered
  BY DEF Init, Numbered
<1>2. TypeInv /\ Numbered /\ [Next]_vars
        /\ [Len(li') < Len(li) => li' = SubSeq(li, 1, Len(li) - 1)]_vars => Numbered'
  <2>1. UNCHANGED vars => (Len(li') < Len(li) => li' = SubSeq(li, 1, Len(li) - 1)) \/ li' = li
    BY DEF vars
  <2>2. Numbered /\ li' = li => Numbered'
    BY DEF Numbered
  <2>. QED  BY <2>1, <2>2, NumberedStep
<1>3. TypeInv /\ Numbered => SelectedByItsNumber
  BY NumberedSelects
<1>. QED
  BY <1>1, <1>2, <1>3, TextInvariant, PTL DEF Spec, OnlyLastRemoved
=============================================================================
