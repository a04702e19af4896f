---------------------------- MODULE LaunchProofs ----------------------------
(***************************************************************************)
(* Theorems about Launch for every value of the constants: the program     *)
(* implements the session of DebugSession and the loader of SymbolLoader,  *)
(* and so has every invariant proved of them.                              *)
(***************************************************************************)
EXTENDS Launch, LineSessionProofs, SymbolLoaderProofs

(* The actions of the launch.                                              *)
LEMMA LaunchCases ==
  LaunchNext <=>
    \/ ParseArguments \/ Debugger_ \/ StartProcess \/ CreateLines \/ CreateSymbols
    \/ GetRegs \/ JoinSymbols \/ JoinLines
    \/ Exec \/ Interrupt \/ KillChild \/ ProcessBeside \/ OpenLines \/ ParseUnit \/ UnitThrows
    \/ LoadStep \/ Session \/ (\E n \in Listings : ListSyms(n)) \/ Over
BY Zenon DEF LaunchNext, MainThread

----------------------------------------------------------------------------
(* The thread worker_elfsyms.                                              *)

LEMMA LoaderWithin == LaunchNext => LoaderNext \/ UNCHANGED loader
<1>. SUFFICES ASSUME LaunchNext PROVE LoaderNext \/ UNCHANGED loader
  OBVIOUS
<1>1. CASE CreateSymbols
  BY <1>1 DEF CreateSymbols, LoaderNext
<1>2. CASE LoadStep
  BY <1>2 DEF LoadStep
<1>3. CASE ~CreateSymbols /\ ~LoadStep
  BY <1>3, LaunchCases DEF ParseArguments, Debugger_, StartProcess, CreateLines, GetRegs,
     JoinSymbols, JoinLines, Exec, Interrupt, KillChild, ProcessBeside, OpenLines, ParseUnit,
     UnitThrows, Session, ListSyms, Over, allVars
<1>. QED
  BY <1>1, <1>2, <1>3

(* The rest of the program leaves the loader to its thread.                *)
THEOREM LaunchLoads == LaunchSpec => LoaderSpec
<1>1. LaunchInit => LoaderInit
  BY DEF LaunchInit
<1>2. [LaunchNext]_allVars => [LoaderNext]_loader
  BY LoaderWithin DEF allVars
<1>. QED
  BY <1>1, <1>2, PTL DEF LaunchSpec, LoaderSpec

(* What is proved of the loader holds of the program.                      *)
THEOREM LaunchLoaderIsSafe ==
  LaunchSpec => [](/\ EveryLibraryLoaded /\ FailureIsReported /\ CrashNeedsCause
                   /\ DepthSuffices => OverflowNeedsCycle)
BY LaunchLoads, LoaderLoadsAll, LoaderReports, LoaderCrashes, LoaderOverflows, PTL

----------------------------------------------------------------------------
(* Where the threads are.                                                  *)

(* The joins keep MainLoop from starting before both threads are done, the *)
(* flag that failed loading leaves is asked for between the two, and a     *)
(* child exists that is not waited for only within StartProcess.           *)
LaunchControl ==
  /\ main \in MainLabels /\ child \in ChildStates /\ lineThread \in LineThreadLabels
  /\ nextUnit \in 1 .. Len(Units) + 1 /\ symState \in BOOLEAN
  /\ main # "MainLoop" => pc \in {"MainLoop", "Abandoned"}
  /\ main = "MainLoop" => lineThread = "done" /\ worker = "done"
  /\ main = "JoinLines" => worker = "done"
  /\ main \in {"ParseArguments", "Debugger"} => child = "none"
  /\ main \in {"ParseArguments", "Debugger", "StartProcess", "CreateLines"} => lineThread = "none"
  /\ child \in {"forked", "stopped"} => main = "StartProcess"
  /\ main = "MainLoop" /\ symState => ~b_load_failed

LEMMA LaunchControlInit == LaunchInit => LaunchControl
<1>. SUFFICES ASSUME LaunchInit PROVE LaunchControl
  OBVIOUS
<1>1. 1 \in 1 .. Len(Units) + 1
  BY UnitsCounted
<1>2. pc = "MainLoop"
  BY DEF LaunchInit, Init
<1>. QED
  BY <1>1, <1>2 DEF LaunchInit, LaunchControl, MainLabels, ChildStates, LineThreadLabels

(* A thread that is done stays so, and leaves the flag as it is.           *)
LEMMA DoneStays ==
  ASSUME worker = "done", LoaderNext
  PROVE  FALSE
BY DEF LoaderNext, StartLoader, OpenElf, OpenFileFails, LoadSymbols, LoadSymbolsFails,
   StackOverflow, ScanFails, ParseDynamic, ParseDynamicReturns, ParseDynamicFails,
   PathOverruns

LEMMA AbandonEnds == Abandon => pc' = "Abandoned" /\ UNCHANGED <<tracee, li, flags, hist>>
BY DEF Abandon, Goto

LEMMA LaunchControlStep ==
  ASSUME LaunchControl, LaunchNext
  PROVE  LaunchControl'
<1>. USE DEF MainLabels, ChildStates, LineThreadLabels
<1>1. CASE ParseArguments
  <2>1. /\ main = "ParseArguments" /\ main' \in {"ParseArguments", "Debugger"}
        /\ pc' \in {"MainLoop", "Abandoned"} /\ UNCHANGED <<child, lineThread, nextUnit, symState>>
    BY <1>1, AbandonEnds DEF ParseArguments, Launching, vars, control
  <2>. QED  BY <2>1 DEF LaunchControl
<1>2. CASE Debugger_
  <2>1. /\ main = "Debugger" /\ pc' \in {"MainLoop", "Abandoned"}
        /\ \/ main' = main /\ child' = child
           \/ main' = "StartProcess" /\ child' = "forked"
        /\ UNCHANGED <<lineThread, nextUnit, symState>>
    BY <1>2, AbandonEnds DEF Debugger_, Launching, vars, control
  <2>. QED  BY <2>1 DEF LaunchControl
<1>3. CASE StartProcess
  <2>1. /\ main = "StartProcess" /\ pc' \in {"MainLoop", "Abandoned"}
        /\ main' \in {"StartProcess", "CreateLines"} /\ child' \in {"traced", "reaped", "interrupted"}
        /\ UNCHANGED <<lineThread, nextUnit, symState>>
    BY <1>3, AbandonEnds DEF StartProcess, Launching, vars, control
  <2>. QED  BY <2>1 DEF LaunchControl
<1>4. CASE CreateLines
  <2>1. /\ main = "CreateLines" /\ main' = "CreateSymbols" /\ lineThread' = "InitDebugLines"
        /\ pc' = "MainLoop" /\ UNCHANGED <<child, nextUnit, symState>>
    BY <1>4 DEF CreateLines, Launching, session, vars, control
  <2>. QED  BY <2>1 DEF LaunchControl
<1>5. CASE CreateSymbols
  <2>1. /\ main = "CreateSymbols" /\ main' = "GetRegs"
        /\ pc' = "MainLoop" /\ UNCHANGED <<child, lineThread, nextUnit, symState>>
    BY <1>5 DEF CreateSymbols, Launching, session, vars, control
  <2>. QED  BY <2>1 DEF LaunchControl
<1>6. CASE GetRegs
  <2>1. /\ main = "GetRegs" /\ main' \in {"GetRegs", "JoinSymbols"}
        /\ pc' \in {"MainLoop", "Abandoned"} /\ UNCHANGED <<child, lineThread, nextUnit, symState>>
    BY <1>6, AbandonEnds DEF GetRegs, Launching, vars, control
  <2>. QED  BY <2>1 DEF LaunchControl
<1>7. CASE JoinSymbols
  <2>1. /\ main = "JoinSymbols" /\ main' = "JoinLines" /\ worker' = "done"
        /\ pc' = "MainLoop" /\ UNCHANGED <<child, lineThread, nextUnit, symState>>
    BY <1>7 DEF JoinSymbols, Launching, session, vars, control, loader
  <2>. QED  BY <2>1 DEF LaunchControl
<1>8. CASE JoinLines
  <2>1. /\ main = "JoinLines" /\ main' = "MainLoop" /\ lineThread = "done"
        /\ symState' = ~b_load_failed /\ UNCHANGED <<worker, b_load_failed>>
        /\ UNCHANGED <<child, lineThread, nextUnit>>
    BY <1>8 DEF JoinLines, Launching, loader
  <2>2. worker' = "done"
    BY <2>1 DEF LaunchControl
  <2>. QED  BY <2>1, <2>2 DEF LaunchControl
<1>9. CASE Exec \/ Interrupt \/ KillChild
  <2>1. /\ child \in {"forked", "stopped", "interrupted"}
        /\ child' \in {"stopped", "interrupted", "exited", "killed"}
        /\ child' = "stopped" => child = "forked"
        /\ UNCHANGED <<pc, main, worker, b_load_failed, lineThread, nextUnit, symState>>
    BY <1>9 DEF Exec, Interrupt, KillChild, session, vars, control, loader
  <2>. QED  BY <2>1 DEF LaunchControl
<1>10. CASE ProcessBeside
  <2>1. pc' = pc /\ UNCHANGED <<main, child, worker, b_load_failed, lineThread, nextUnit, symState>>
    BY <1>10 DEF ProcessBeside, Process, Followed, control, loader, launch
  <2>. QED  BY <2>1 DEF LaunchControl
<1>11. CASE OpenLines
  <2>1. /\ lineThread = "InitDebugLines" /\ lineThread' \in {"done", "ParseLines"}
        /\ UNCHANGED <<pc, main, child, worker, b_load_failed, nextUnit, symState>>
    BY <1>11 DEF OpenLines, vars, control, loader
  <2>. QED  BY <2>1 DEF LaunchControl
<1>12. CASE ParseUnit
  <2>1. /\ lineThread = "ParseLines" /\ lineThread' \in {"done", "ParseLines"}
        /\ nextUnit' = nextUnit \/ (nextUnit <= Len(Units) /\ nextUnit' = nextUnit + 1)
        /\ UNCHANGED <<pc, main, child, worker, b_load_failed, symState>>
    BY <1>12 DEF ParseUnit, vars, control, loader
  <2>2. nextUnit' \in 1 .. Len(Units) + 1
    BY <2>1, UnitsCounted DEF LaunchControl
  <2>. QED  BY <2>1, <2>2 DEF LaunchControl
<1>13. CASE UnitThrows
  <2>1. /\ lineThread = "ParseLines" /\ lineThread' = "threw" /\ pc' = "Abandoned"
        /\ UNCHANGED <<main, child, worker, b_load_failed, nextUnit, symState>>
    BY <1>13, AbandonEnds DEF UnitThrows, loader
  <2>. QED  BY <2>1 DEF LaunchControl
<1>14. CASE LoadStep
  <2>1. /\ LoaderNext /\ pc' \in {pc, "Abandoned"}
        /\ UNCHANGED <<main, child, lineThread, nextUnit, symState>>
    BY <1>14, AbandonEnds DEF LoadStep, vars, control, launch
  <2>2. main \notin {"MainLoop", "JoinLines"}
    BY <2>1, DoneStays DEF LaunchControl
  <2>. QED  BY <2>1, <2>2 DEF LaunchControl
<1>15. CASE Session \/ \E n \in Listings : ListSyms(n)
  <2>1. main = "MainLoop" /\ UNCHANGED <<loader, launch>>
    BY <1>15 DEF Session, ListSyms
  <2>. QED  BY <2>1 DEF LaunchControl, loader, launch
<1>16. CASE Over
  <2>1. UNCHANGED <<pc, loader, launch>>
    BY <1>16 DEF Over, allVars, session, vars, control
  <2>. QED  BY <2>1 DEF LaunchControl, loader, launch
<1>. QED
  BY <1>1, <1>2, <1>3, <1>4, <1>5, <1>6, <1>7, <1>8, <1>9, <1>10, <1>11, <1>12, <1>13,
     <1>14, <1>15, <1>16, LaunchCases

LEMMA LaunchControlInvariant == LaunchSpec => []LaunchControl
<1>1. LaunchControl /\ UNCHANGED allVars => LaunchControl'
  BY DEF LaunchControl, allVars, session, vars, control, loader, launch
<1>. QED
  BY <1>1, LaunchControlInit, LaunchControlStep, PTL DEF LaunchSpec

(* A function whose memory was freed is never listed.                      *)
THEOREM FreedStaysHidden == LaunchSpec => []FreedIsHidden
<1>1. LaunchControl /\ (freed # {} => b_load_failed) => FreedIsHidden
  BY DEF LaunchControl, FreedIsHidden
<1>. QED
  BY <1>1, LaunchControlInvariant, LaunchLoads, LoaderFreesFlagged, PTL

----------------------------------------------------------------------------
(* The thread worker_debuglines.  The table is one that LineSession could  *)
(* have, at every moment and not only when it is complete.                 *)

LEMMA LaunchLinesInit == LaunchInit => LineInv
<1>. SUFFICES ASSUME LaunchInit PROVE LineInv
  OBVIOUS
<1>1. table \in Seq(LineinfoType) /\ Len(table) = 0
  BY EmptySeq DEF LaunchInit
<1>2. DOMAIN table = {}
  BY <1>1, LenProperties
<1>. QED
  BY <1>1, <1>2 DEF LaunchInit, LineInv, LineTypeOK

LEMMA LaunchLinesStep ==
  ASSUME LineInv, LaunchControl, LaunchNext
  PROVE  LineInv'
<1>1. CASE UNCHANGED lines
  BY <1>1 DEF LineInv, LineTypeOK, lines
<1>2. CASE OpenLines
  <2>1. UNCHANGED <<table, unit>> /\ dwarf' \in {dwarf, FALSE}
    BY <1>2 DEF OpenLines
  <2>. QED  BY <2>1 DEF LineInv, LineTypeOK
<1>3. CASE ParseUnit
  <2>1. CASE UNCHANGED table
    BY <1>3, <2>1 DEF ParseUnit, LineInv, LineTypeOK
  <2>2. CASE /\ nextUnit <= Len(Units)
             /\ table' = table \o ParseLines(Units[nextUnit], BaseAddress, nextUnit - 1)
    <3> DEFINE rows == ParseLines(Units[nextUnit], BaseAddress, nextUnit - 1)
    <3>1. nextUnit \in DOMAIN Units
      BY <2>2, UnitsCounted DEF LaunchControl
    <3>2. rows \in Seq(LineinfoType) /\ \A i \in DOMAIN rows : rows[i] \in UnitRow
      BY <3>1, UnitRows, RowsTyped
    <3>3. UNCHANGED <<dwarf, unit>> /\ table' = table \o rows
      BY <1>3, <2>2 DEF ParseUnit
    <3>. HIDE DEF rows
    <3>4. table \in Seq(LineinfoType)
      BY DEF LineInv, LineTypeOK
    <3>5. table' \in Seq(LineinfoType) /\ Elements(table') = Elements(table) \cup Elements(rows)
      BY <3>2, <3>3, <3>4, ConcatElements
    <3>6. \A r \in Elements(table) \cup Elements(rows) : r \in UnitRow
      BY <3>2 DEF Elements, LineInv
    <3>7. \A i \in DOMAIN table' : table'[i] \in UnitRow
      BY <3>5, <3>6 DEF Elements
    <3>. QED  BY <3>3, <3>5, <3>7 DEF LineInv, LineTypeOK
  <2>. QED  BY <1>3, <2>1, <2>2 DEF ParseUnit
<1>4. CASE Session
  BY <1>4, LineInvStep DEF Session
<1>. QED
  BY <1>1, <1>2, <1>3, <1>4, LaunchCases
     DEF ParseArguments, Debugger_, StartProcess, CreateLines, CreateSymbols, GetRegs,
         JoinSymbols, JoinLines, Exec, Interrupt, KillChild, ProcessBeside, UnitThrows, LoadStep,
         ListSyms, Over, allVars, session

LEMMA LaunchLinesInvariant == LaunchSpec => []LineInv
<1>1. LineInv /\ UNCHANGED allVars => LineInv'
  BY DEF allVars, session, lines, LineInv, LineTypeOK
<1>. QED
  BY <1>1, LaunchLinesInit, LaunchLinesStep, LaunchControlInvariant, PTL DEF LaunchSpec

(* The records of the first n units.                                       *)
FirstUnits(n) ==
  FlattenSeq([u \in 1 .. n |-> ParseLines(Units[u], BaseAddress, u - 1)])

LEMMA FirstUnitsMore ==
  ASSUME NEW n \in 1 .. Len(Units)
  PROVE  FirstUnits(n) = FirstUnits(n - 1) \o ParseLines(Units[n], BaseAddress, n - 1)
<1> DEFINE parsed(k) == [u \in 1 .. k |-> ParseLines(Units[u], BaseAddress, u - 1)]
<1>1. n \in Nat /\ n - 1 \in Nat /\ n = n - 1 + 1
  BY UnitsCounted
<1>2. ASSUME NEW k \in Nat, k <= Len(Units)
      PROVE  parsed(k) \in Seq(Seq(UnitRow)) /\ Len(parsed(k)) = k
  <2>1. \A u \in 1 .. k : ParseLines(Units[u], BaseAddress, u - 1) \in Seq(UnitRow)
    BY <1>2, UnitsCounted, UnitRows
  <2>. QED  BY <2>1, IsASeq
<1>3. \A i \in 1 .. n - 1 : parsed(n - 1)[i] = parsed(n)[i]
  BY <1>1
<1>4. parsed(n)[n] = ParseLines(Units[n], BaseAddress, n - 1)
  BY <1>1
<1>5. n <= Len(Units) /\ n - 1 <= Len(Units)
  BY UnitsCounted
<1>6. /\ parsed(n) \in Seq(Seq(UnitRow)) /\ Len(parsed(n)) = n
      /\ parsed(n - 1) \in Seq(Seq(UnitRow)) /\ Len(parsed(n - 1)) = n - 1
  BY <1>1, <1>2, <1>5
<1>. HIDE DEF parsed
<1>7. FlattenSeq(parsed(n)) = FlattenSeq(parsed(n - 1)) \o parsed(n)[Len(parsed(n))]
  BY <1>1, <1>3, <1>6, FlattenMore
<1>. QED
  BY <1>4, <1>6, <1>7 DEF FirstUnits, parsed

LEMMA FirstUnitsNone == FirstUnits(0) = <<>>
<1>1. [u \in 1 .. 0 |-> ParseLines(Units[u], BaseAddress, u - 1)] = <<>>
  OBVIOUS
<1>. QED
  BY <1>1, FlattenEmpty DEF FirstUnits

(* The table has the records of the units before the next one, unless the  *)
(* file could not be opened.                                               *)
TableSoFar ==
  /\ table = IF dwarf THEN FirstUnits(nextUnit - 1) ELSE <<>>
  /\ lineThread \in {"none", "InitDebugLines"} => nextUnit = 1
  /\ lineThread = "done" /\ dwarf => nextUnit = Len(Units) + 1
  /\ ~dwarf => lineThread = "done"

LEMMA TableSoFarInit == LaunchInit => TableSoFar
<1>1. FirstUnits(1 - 1) = <<>>
  BY FirstUnitsNone
<1>. QED
  BY <1>1 DEF LaunchInit, TableSoFar

LEMMA TableSoFarStep ==
  ASSUME TableSoFar, LaunchControl, LaunchNext
  PROVE  TableSoFar'
<1>1. CASE OpenLines
  <2>1. /\ lineThread = "InitDebugLines" /\ UNCHANGED <<table, nextUnit>>
        /\ \/ dwarf' = FALSE /\ lineThread' = "done"
           \/ lineThread' = "ParseLines" /\ dwarf' = dwarf
    BY <1>1 DEF OpenLines
  <2>2. dwarf /\ table = FirstUnits(1 - 1) /\ nextUnit = 1
    BY <2>1 DEF TableSoFar
  <2>3. table = <<>>
    BY <2>2, FirstUnitsNone
  <2>. QED  BY <2>1, <2>2, <2>3 DEF TableSoFar
<1>2. CASE ParseUnit
  <2>1. lineThread = "ParseLines" /\ dwarf /\ dwarf' = dwarf /\ table = FirstUnits(nextUnit - 1)
    BY <1>2 DEF ParseUnit, TableSoFar
  <2>2. nextUnit \in 1 .. Len(Units) + 1
    BY DEF LaunchControl
  <2>3. CASE /\ nextUnit <= Len(Units)
             /\ table' = table \o ParseLines(Units[nextUnit], BaseAddress, nextUnit - 1)
             /\ nextUnit' = nextUnit + 1
             /\ UNCHANGED lineThread
    <3>1. nextUnit \in 1 .. Len(Units)
      BY <2>2, <2>3, UnitsCounted
    <3>2. table' = FirstUnits(nextUnit)
      BY <2>1, <2>3, <3>1, FirstUnitsMore
    <3>3. nextUnit = nextUnit' - 1
      BY <2>3, <3>1, UnitsCounted
    <3>. QED  BY <2>1, <2>3, <3>2, <3>3 DEF TableSoFar
  <2>4. CASE nextUnit > Len(Units) /\ lineThread' = "done" /\ UNCHANGED <<table, nextUnit>>
    <3>1. nextUnit = Len(Units) + 1
      BY <2>2, <2>4, UnitsCounted
    <3>. QED  BY <2>1, <2>4, <3>1 DEF TableSoFar
  <2>. QED  BY <1>2, <2>3, <2>4 DEF ParseUnit
<1>3. CASE CreateLines
  <2>1. /\ main = "CreateLines" /\ lineThread' = "InitDebugLines"
        /\ UNCHANGED <<table, dwarf, nextUnit>>
    BY <1>3 DEF CreateLines, session, lines
  <2>2. lineThread = "none"
    BY <2>1 DEF LaunchControl
  <2>. QED  BY <2>1, <2>2 DEF TableSoFar
<1>4. CASE UnitThrows
  <2>1. /\ lineThread = "ParseLines" /\ lineThread' = "threw"
        /\ UNCHANGED <<table, dwarf, nextUnit>>
    BY <1>4 DEF UnitThrows, lines
  <2>. QED  BY <2>1 DEF TableSoFar
<1>5. CASE UNCHANGED <<table, dwarf, nextUnit, lineThread>>
  BY <1>5 DEF TableSoFar
<1>6. CASE Session
  <2>1. UNCHANGED <<table, dwarf>>
    BY <1>6 DEF Session, LineNext, lines, Select, BreakLine
  <2>. QED  BY <1>5, <1>6, <2>1 DEF Session, launch
<1>. QED
  BY <1>1, <1>2, <1>3, <1>4, <1>5, <1>6, LaunchCases
     DEF ParseArguments, Debugger_, StartProcess, CreateSymbols, GetRegs,
         JoinSymbols, JoinLines, Exec, Interrupt, KillChild, ProcessBeside, LoadStep,
         ListSyms, Over, allVars, session, lines, launch

(* MainLoop starts when both threads are done, with every unit of the file *)
(* in the table, or with none and the flag that says so.                   *)
THEOREM LaunchLoadsLines == LaunchSpec => []MainLoopIsAlone
<1>1. TableSoFar /\ LaunchControl => MainLoopIsAlone
  <2>. SUFFICES ASSUME TableSoFar, LaunchControl, main = "MainLoop"
                PROVE  /\ lineThread = "done" /\ worker = "done"
                       /\ table = IF dwarf THEN Loaded ELSE <<>>
    BY DEF MainLoopIsAlone
  <2>1. lineThread = "done" /\ worker = "done"
    BY DEF LaunchControl
  <2>2. dwarf => table = FirstUnits(Len(Units))
    BY <2>1, UnitsCounted DEF TableSoFar
  <2>3. FirstUnits(Len(Units)) = Loaded
    BY UnitsCounted DEF FirstUnits, Loaded, InitDebugLines
  <2>. QED  BY <2>1, <2>2, <2>3 DEF TableSoFar
<1>2. TableSoFar /\ UNCHANGED allVars => TableSoFar'
  BY DEF TableSoFar, allVars, session, lines, launch
<1>. QED
  BY <1>1, <1>2, TableSoFarInit, TableSoFarStep, LaunchControlInvariant, PTL DEF LaunchSpec

(* The prompt comes up with a table that finds every line of the file.     *)
THEOREM LaunchFindsFileLines == LaunchSpec => [](main = "MainLoop" => FileLinesFound)
<1>1. MainLoopIsAlone /\ LineInv => (main = "MainLoop" => FileLinesFound)
  BY LoadedFindsLines DEF MainLoopIsAlone
<1>. QED
  BY <1>1, LaunchLoadsLines, LaunchLinesInvariant, PTL

(* From MainLoop on the program is LineSession: the commands and the       *)
(* process make its steps, and nothing else makes any.                     *)
LEMMA RunsLinesStep ==
  ASSUME LaunchControl, LaunchNext, main = "MainLoop"
  PROVE  [LineNext]_session
<1>1. ~LoadStep
  BY DoneStays DEF LoadStep, LaunchControl
<1>2. ~OpenLines /\ ~ParseUnit /\ ~UnitThrows
  BY DEF OpenLines, ParseUnit, UnitThrows, LaunchControl
<1>3. ASSUME NEW n \in Listings, ListSyms(n)  PROVE LineNext
  <2>1. BadArgument /\ UNCHANGED lines
    BY <1>3 DEF ListSyms, Abandon, BadArgument
  <2>2. Next
    BY <2>1 DEF Next, Command
  <2>. QED  BY <2>1, <2>2 DEF LineNext
<1>. QED
  BY <1>1, <1>2, <1>3, LaunchCases
     DEF ParseArguments, Debugger_, StartProcess, CreateLines, CreateSymbols, GetRegs,
         JoinSymbols, JoinLines, Exec, Interrupt, KillChild, ProcessBeside, Session, Over, allVars,
         Launching, session

THEOREM LaunchRunsLines == LaunchSpec => RunsLines
<1>1. UNCHANGED allVars => UNCHANGED session
  BY DEF allVars
<1>. QED
  BY <1>1, RunsLinesStep, LaunchControlInvariant, PTL DEF LaunchSpec, RunsLines

(* The searches of breakl are right for the table the threads have built.  *)
THEOREM LaunchFindsLines == LaunchSpec => []LinesFound
BY LaunchLinesInvariant, LineInvFindsLines, PTL

----------------------------------------------------------------------------
(* The session.                                                            *)

LEMMA LaunchSteps == LineInv /\ LaunchControl /\ LaunchNext => [Next]_vars
<1>. SUFFICES ASSUME LineInv, LaunchControl, LaunchNext PROVE [Next]_vars
  OBVIOUS
<1>1. ASSUME Abandon, pc = "MainLoop"  PROVE Next
  <2>1. BadArgument
    BY <1>1 DEF Abandon, BadArgument
  <2>. QED  BY <2>1 DEF Next, Command
<1>2. CASE ParseArguments \/ Debugger_ \/ StartProcess \/ GetRegs
  BY <1>1, <1>2 DEF ParseArguments, Debugger_, StartProcess, GetRegs, Launching
<1>3. CASE UnitThrows \/ LoadStep
  <2>1. pc \notin Ended /\ (Abandon \/ UNCHANGED vars)
    BY <1>3 DEF UnitThrows, LoadStep
  <2>2. main # "MainLoop"
    BY <1>3, DoneStays DEF UnitThrows, LoadStep, LaunchControl
  <2>3. pc = "MainLoop"
    BY <2>1, <2>2 DEF LaunchControl, Ended
  <2>. QED  BY <1>1, <2>1, <2>3
<1>4. CASE ProcessBeside
  BY <1>4 DEF ProcessBeside, Next
<1>5. CASE Session
  BY <1>5, LineStep DEF Session
<1>6. CASE \E n \in Listings : ListSyms(n)
  BY <1>1, <1>6 DEF ListSyms
<1>7. CASE UNCHANGED vars
  BY <1>7
<1>. QED
  BY <1>2, <1>3, <1>4, <1>5, <1>6, <1>7, LaunchCases
     DEF CreateLines, CreateSymbols, JoinSymbols, JoinLines, Exec, Interrupt, KillChild, OpenLines,
         ParseUnit, Over, allVars, session

(* The whole program implements the session: the launch and its threads    *)
(* move neither the process nor the breakpoints.                           *)
THEOREM LaunchImplements == LaunchSpec => SessionFollows
<1>1. LaunchInit => Init
  BY DEF LaunchInit
<1>2. UNCHANGED allVars => UNCHANGED vars
  BY DEF allVars, session
<1>. QED
  BY <1>1, <1>2, LaunchSteps, LaunchLinesInvariant, LaunchControlInvariant, PTL
     DEF LaunchSpec, SessionFollows, Spec

(* What is proved of the session holds from the first line of main on: the *)
(* debugged program is its own, whatever the threads of the launch do.     *)
THEOREM LaunchIsSafe ==
  LaunchSpec => /\ [](MemoryFaithful /\ FailedHasNoProcess /\ HitIsHandled /\ PromptQuiescent)
                /\ DisarmedByOwner /\ Transparent /\ HazardsHaveCause
                /\ ([]Careful /\ [][~Set]_vars => [](Clean /\ SavedIsOriginal /\ RestoresItsOwn))
                /\ (OnlyLastRemoved => []SelectedByItsNumber)
BY LaunchImplements, TextIsFaithful, FailureMeansNoProcess, HitsAreHandled,
   PromptIsQuiescent, DisarmedOnlyByOwner, SessionIsTransparent, HazardsAreCaused,
   CarefulSessionsAreSafe, NumbersArePositions, PTL DEF SessionFollows

(* breakl places a breakpoint at its line in the table that the thread has *)
(* built, or none.                                                         *)
THEOREM LaunchPlacesLines == LaunchSpec => LinePlacesLine
BY PlacedStep, LaunchLinesInvariant, LaunchImplements, TypeCorrect, PTL
   DEF SessionFollows, LinePlacesLine

(* The launch keeps its types, and those of the session and the loader.    *)
THEOREM LaunchTypeCorrect == LaunchSpec => []LaunchTypeOK
<1>1. LaunchControl /\ LineInv /\ LoaderTypeOK => LaunchTypeOK
  BY DEF LaunchControl, LineInv, LaunchTypeOK
<1>. QED
  BY <1>1, LaunchControlInvariant, LaunchLinesInvariant, LaunchLoads, LoaderTypeCorrect, PTL

----------------------------------------------------------------------------
(* Ends of the launch.                                                     *)

LEMMA CauseStep ==
  ASSUME LaunchControl, TypeOK, PromptQuiescent, LaunchFailsForCause, LaunchNext
  PROVE  LaunchFailsForCause'
<1>. SUFFICES ASSUME pc' \in Ended, main' # "MainLoop", ChildLives'
              PROVE  lineThread' = "threw" \/ worker' \in Crashed
  BY DEF LaunchFailsForCause
<1>1. CASE ParseArguments \/ Debugger_
  <2>1. child' = "none"
    BY <1>1 DEF ParseArguments, Debugger_, LaunchControl, Launching, Ended, vars, control
  <2>. QED  BY <2>1 DEF ChildLives
<1>2. CASE StartProcess
  <2>1. child' = "reaped"
    BY <1>2 DEF StartProcess, Launching, Ended, vars, control
  <2>. QED  BY <2>1 DEF ChildLives
<1>3. CASE GetRegs
  <2>1. /\ main = "GetRegs" /\ pc = "MainLoop" /\ child' = child /\ tstate' = tstate
        /\ ~ChildAttached
    BY <1>3, AbandonEnds DEF GetRegs, Launching, Ended, vars, control, tracee
  <2>2. child \notin {"forked", "stopped"}
    BY <2>1 DEF LaunchControl
  <2>3. child = "traced" /\ tstate \notin Dead /\ ~Attached
    BY <2>1, <2>2 DEF ChildLives, ChildAttached
  <2>4. tstate \notin Resumed
    BY <2>1 DEF PromptQuiescent
  <2>. QED  BY <2>3, <2>4 DEF TypeOK, DebuggeeTypeOK, Attached, Alive, Resumed, Dead
<1>4. CASE UnitThrows
  BY <1>4 DEF UnitThrows
<1>5. CASE LoadStep
  <2>1. pc \notin Ended /\ (worker' \notin Crashed => UNCHANGED vars)
    BY <1>5, Zenon DEF LoadStep
  <2>2. UNCHANGED vars => pc' = pc
    BY DEF vars, control
  <2>. QED  BY <2>1, <2>2
<1>6. CASE ProcessBeside
  BY <1>6 DEF ProcessBeside, Launching, Process, Followed, control, Ended
<1>7. CASE Session \/ (\E n \in Listings : ListSyms(n))
  BY <1>7 DEF Session, ListSyms, launch
<1>8. CASE CreateLines \/ CreateSymbols \/ JoinSymbols \/ JoinLines
  BY <1>8 DEF CreateLines, CreateSymbols, JoinSymbols, JoinLines, Launching, session,
              vars, control, Ended
<1>9. CASE Exec \/ Interrupt \/ KillChild \/ OpenLines \/ ParseUnit
  BY <1>9 DEF Exec, Interrupt, KillChild, OpenLines, ParseUnit, session, vars, control
<1>10. CASE Over
  BY <1>10 DEF Over, allVars, session, vars, control, tracee, loader, launch,
               LaunchFailsForCause, ChildLives
<1>. QED
  BY <1>1, <1>2, <1>3, <1>4, <1>5, <1>6, <1>7, <1>8, <1>9, <1>10, LaunchCases

(* The launch gives up a process that lives only when one of its threads   *)
(* crashes.                                                                *)
THEOREM LaunchFailsOnlyForCause == LaunchSpec => []LaunchFailsForCause
<1>1. LaunchInit => LaunchFailsForCause
  BY DEF LaunchInit, LaunchFailsForCause, ChildLives
<1>2. LaunchFailsForCause /\ UNCHANGED allVars => LaunchFailsForCause'
  BY DEF LaunchFailsForCause, ChildLives, allVars, session, vars, control, tracee, loader, launch
<1>. QED
  BY <1>1, <1>2, CauseStep, LaunchControlInvariant, LaunchImplements, TypeCorrect,
     PromptIsQuiescent, PTL DEF LaunchSpec, SessionFollows
=============================================================================
