---------------------------- MODULE SymbolLoader ----------------------------
(***************************************************************************)
(* The symbol loader (src/src/parsesymbols.cpp, class Symbol): the worker  *)
(* thread that reads the functions of the executable and, through          *)
(* OpenFile, LoadSymbols and ParseDynamic calling one another, those of    *)
(* the libraries it needs.  The recursion is the stack frames; a frame is  *)
(* what the locals of LoadSymbols and ParseDynamic keep over the nested    *)
(* call.  One file is mapped at a time, and a nested call replaces the     *)
(* mapping of its caller.                                                  *)
(*                                                                         *)
(* A file is its function symbols and its dynamic section, both in the     *)
(* order of the file.  Symbol addresses are left out.                      *)
(***************************************************************************)
EXTENDS Integers, Sequences, SequencesExt

CONSTANTS FileSystems,       \* each maps the paths that open as dynamic ELF files
          Executable,        \* the first word of the command line
          MaxDepth,          \* bound: calls the stack of the thread has room for
          MaxAllocFailures   \* bound: allocations that fail

NoFile == ""

----------------------------------------------------------------------------
(* What a file says.                                                       *)

Tagged(f, tag) == SelectSeq(f.dynamic, LAMBDA d : d.tag = tag)

(* A DT_RUNPATH wins over a DT_RPATH on either side of it, and a later     *)
(* entry over an earlier one.                                              *)
LibPath(f) ==
  CASE Tagged(f, "RUNPATH") # <<>> -> Last(Tagged(f, "RUNPATH")).value
    [] Tagged(f, "RUNPATH") = <<>> /\ Tagged(f, "RPATH") # <<>> -> Last(Tagged(f, "RPATH")).value
    [] OTHER -> "/lib/"

HasLibPath(f) == Tagged(f, "RUNPATH") # <<>> \/ Tagged(f, "RPATH") # <<>>

SharedLibs(f) ==
  [i \in DOMAIN Tagged(f, "NEEDED") |-> Tagged(f, "NEEDED")[i].value]

(* The names pushed for the first n function symbols: those with an        *)
(* address.                                                                *)
Named(f, n) ==
  LET defined == SelectSeq(SubSeq(f.functions, 1, n), LAMBDA s : s.defined)
  IN [i \in DOMAIN defined |-> defined[i].name]

LastIsNamed(f) == f.functions # <<>> /\ Last(f.functions).defined

(* The path of the i-th library: strings concatenated as they are, with no *)
(* separator.                                                              *)
Pathname(f, i) == LibPath(f) \o SharedLibs(f)[i]

(* The stack has room for every library once.                              *)
DepthSuffices ==
  \A fs \in FileSystems : IsFiniteSet(DOMAIN fs) /\ Cardinality(DOMAIN fs) <= MaxDepth

ASSUME LoaderBoundAssumption == MaxDepth \in Nat /\ MaxAllocFailures \in Nat
ASSUME FileAssumption ==
  /\ Executable \in STRING /\ NoFile \notin UNION {DOMAIN fs : fs \in FileSystems}
  /\ \A fs \in FileSystems : \A p \in DOMAIN fs :
       /\ p \in STRING
       /\ fs[p].functions \in Seq([name : STRING, defined : BOOLEAN])
       /\ \A n \in 0 .. Len(fs[p].functions) : Named(fs[p], n) \in Seq(STRING)
       /\ LastIsNamed(fs[p]) => Named(fs[p], Len(fs[p].functions)) # <<>>
       /\ SharedLibs(fs[p]) \in Seq(STRING)
       /\ \A i \in DOMAIN SharedLibs(fs[p]) : Pathname(fs[p], i) \in STRING

----------------------------------------------------------------------------
VARIABLES files,        \* the file system
          P_list,       \* paths listed so far, with the buffers that hold them
          S_list,       \* names of functions
          freed,        \* positions of S_list whose memory has been freed
          b_load_failed,
          m_mapping,    \* the path whose file is mapped
          frames,       \* the active calls of ParseDynamic, outermost first
          worker,       \* where the thread is
          allocFailures

loader == <<files, P_list, S_list, freed, b_load_failed, m_mapping, frames,
            worker, allocFailures>>

NullPtr    == 0     \* syminfo of LoadSymbols before the first function
GarbagePtr == -1    \* its m_symbol was never assigned

(* "crashed" and "overflow" end the debugger with the thread.              *)
Crashed == {"crashed", "overflow"}
WorkerLabels == {"none", "OpenFile", "LoadSymbols", "ParseDynamic", "done"} \cup Crashed

Frame == [path : DOMAIN files, next : Nat \ {0}, syminfo : Int]

LoaderTypeOK ==
  /\ files \in FileSystems
  /\ P_list \in Seq([buffer : Nat \ {0}, path : STRING]) /\ P_list # <<>>
  /\ S_list \in Seq(STRING)
  /\ freed \in SUBSET (DOMAIN S_list)
  /\ b_load_failed \in BOOLEAN
  /\ m_mapping \in DOMAIN files \cup {NoFile}
  /\ frames \in Seq(Frame) /\ Len(frames) <= MaxDepth
  /\ worker \in WorkerLabels
  /\ allocFailures \in 0 .. MaxAllocFailures

LoaderInit ==
  /\ files \in FileSystems
  /\ P_list = <<[buffer |-> 1, path |-> Executable]>>
  /\ S_list = <<>> /\ freed = {}
  /\ b_load_failed = FALSE
  /\ m_mapping = NoFile
  /\ frames = <<>>
  /\ worker = "none"
  /\ allocFailures = 0

(* The thread is created with OpenFile(0).                                 *)
StartLoader ==
  /\ worker = "none"
  /\ worker' = "OpenFile"
  /\ UNCHANGED <<files, P_list, S_list, freed, b_load_failed, m_mapping, frames,
                 allocFailures>>

----------------------------------------------------------------------------
(* Every call opens the path that was listed last.                         *)
Path == P_list[Len(P_list)].path

(* OpenFile returns to the loop of ParseDynamic that called it, which      *)
(* drops the result, or to the thread.                                     *)
ReturnTo(stack) == worker' = IF stack = <<>> THEN "done" ELSE "ParseDynamic"

Allocate == allocFailures < MaxAllocFailures /\ allocFailures' = allocFailures + 1

(* Elf::OpenElf and LoadFile.                                              *)
OpenElf ==
  /\ worker = "OpenFile" /\ Path \in DOMAIN files
  /\ m_mapping' = Path
  /\ worker' = "LoadSymbols"
  /\ UNCHANGED <<files, P_list, S_list, freed, b_load_failed, frames, allocFailures>>

(* Mutants: the flag is left alone, for a file that is missing; and the    *)
(* thread tries again.                                                     *)
OpenFileFailsSilently ==
  /\ worker = "OpenFile" /\ Path \notin DOMAIN files
  /\ ReturnTo(frames)
  /\ UNCHANGED <<files, P_list, S_list, freed, b_load_failed, m_mapping, frames,
                 allocFailures>>

OpenFileRetries ==
  /\ worker = "OpenFile" /\ Path \notin DOMAIN files
  /\ b_load_failed' = TRUE
  /\ UNCHANGED <<files, P_list, S_list, freed, m_mapping, frames, worker, allocFailures>>

(* The file is not there, is no ELF file, or is not of type ET_DYN.        *)
OpenFileFails ==
  /\ worker = "OpenFile" /\ Path \notin DOMAIN files
  /\ b_load_failed' = TRUE
  /\ ReturnTo(frames)
  /\ UNCHANGED <<files, P_list, S_list, freed, m_mapping, frames, allocFailures>>

(* syminfo behind the loop of LoadSymbols: the last function symbol.       *)
LastSyminfo(f, size) ==
  CASE LastIsNamed(f) -> size
    [] f.functions = <<>> -> NullPtr
    [] OTHER -> GarbagePtr

(* Mutant: the loop index starts before the first library.                 *)
LoadSymbolsFromZero ==
  /\ worker = "LoadSymbols" /\ Len(frames) < MaxDepth
  /\ LET f == files[m_mapping]
     IN /\ S_list' = S_list \o Named(f, Len(f.functions))
        /\ frames' = Append(frames, [path |-> m_mapping, next |-> 0,
                                     syminfo |-> LastSyminfo(f, Len(S_list'))])
  /\ worker' = "ParseDynamic"
  /\ UNCHANGED <<files, P_list, freed, b_load_failed, m_mapping, allocFailures>>

(* LoadSymbols up to its call of ParseDynamic, and the scan of the dynamic *)
(* section in ParseDynamic, which copies what its loop needs.              *)
LoadSymbols ==
  /\ worker = "LoadSymbols" /\ Len(frames) < MaxDepth
  /\ LET f == files[m_mapping]
     IN /\ S_list' = S_list \o Named(f, Len(f.functions))
        /\ frames' = Append(frames, [path |-> m_mapping, next |-> 1,
                                     syminfo |-> LastSyminfo(f, Len(S_list'))])
  /\ worker' = "ParseDynamic"
  /\ UNCHANGED <<files, P_list, freed, b_load_failed, m_mapping, allocFailures>>

StackOverflow ==
  /\ worker = "LoadSymbols" /\ Len(frames) = MaxDepth
  /\ worker' = "overflow"
  /\ UNCHANGED <<files, P_list, S_list, freed, b_load_failed, m_mapping, frames,
                 allocFailures>>

(* The memory of the entry for the n+1st function is not there.            *)
LoadSymbolsFails ==
  /\ worker = "LoadSymbols"
  /\ \E n \in 0 .. Len(files[m_mapping].functions) - 1 :
       S_list' = S_list \o Named(files[m_mapping], n)
  /\ Allocate
  /\ m_mapping' = NoFile /\ b_load_failed' = TRUE
  /\ ReturnTo(frames)
  /\ UNCHANGED <<files, P_list, freed, frames>>

(* dyn_failed of LoadSymbols: what syminfo points to is freed, although    *)
(* S_list holds it too.                                                    *)
DynFailed(syminfo, stack) ==
  \/ syminfo = NullPtr /\ worker' = "crashed" /\ UNCHANGED freed
  \/ syminfo = GarbagePtr /\ UNCHANGED freed /\ (worker' = "crashed" \/ ReturnTo(stack))
  \/ syminfo > 0 /\ freed' = freed \cup {syminfo} /\ ReturnTo(stack)

(* ParseDynamic runs out of memory in its scan.                            *)
ScanFails ==
  /\ worker = "LoadSymbols" /\ Len(frames) < MaxDepth
  /\ HasLibPath(files[m_mapping]) \/ SharedLibs(files[m_mapping]) # <<>>
  /\ LET f == files[m_mapping]
     IN /\ S_list' = S_list \o Named(f, Len(f.functions))
        /\ DynFailed(LastSyminfo(f, Len(S_list')), frames)
  /\ Allocate
  /\ m_mapping' = NoFile /\ b_load_failed' = TRUE
  /\ UNCHANGED <<files, P_list, frames>>

----------------------------------------------------------------------------
(* The loop of ParseDynamic over shared_libs.                              *)

Top  == frames[Len(frames)]
More == Top.next <= Len(SharedLibs(files[Top.path]))

(* The pointers are compared, not the strings.                             *)
SearchForPath(p) == \E i \in DOMAIN P_list : P_list[i].buffer = p.buffer

(* calloc returns a block that none of the listed paths is in.             *)
NextPath == [buffer |-> Len(P_list) + 1, path |-> Pathname(files[Top.path], Top.next)]

(* Mutants: the sections are read again behind the nested call; the nested *)
(* call opens the first path of the list.                                  *)
ParseDynamicThroughMapping ==
  /\ worker = "ParseDynamic" /\ More
  /\ frames' = [frames EXCEPT ![Len(frames)].next = @ + 1]
  /\ IF m_mapping # NoFile /\ Top.next <= Len(SharedLibs(files[m_mapping]))
     THEN /\ P_list' = Append(P_list, [buffer |-> Len(P_list) + 1,
                                       path |-> Pathname(files[m_mapping], Top.next)])
          /\ m_mapping' = NoFile
          /\ worker' = "OpenFile"
     ELSE UNCHANGED <<P_list, m_mapping, worker>>
  /\ UNCHANGED <<files, S_list, freed, b_load_failed, allocFailures>>

ParseDynamicOpensFirst ==
  /\ worker = "ParseDynamic" /\ More
  /\ frames' = [frames EXCEPT ![Len(frames)].next = @ + 1]
  /\ P_list' = Append(P_list, P_list[1])
  /\ m_mapping' = NoFile
  /\ worker' = "OpenFile"
  /\ UNCHANGED <<files, S_list, freed, b_load_failed, allocFailures>>

ParseDynamic ==
  /\ worker = "ParseDynamic" /\ More
  /\ frames' = [frames EXCEPT ![Len(frames)].next = @ + 1]
  /\ IF SearchForPath(NextPath)
     THEN UNCHANGED <<P_list, m_mapping, worker>>
     ELSE /\ P_list' = Append(P_list, NextPath)
          /\ m_mapping' = NoFile
          /\ worker' = "OpenFile"
  /\ UNCHANGED <<files, S_list, freed, b_load_failed, allocFailures>>

ParseDynamicReturns ==
  /\ worker = "ParseDynamic" /\ ~More
  /\ frames' = Front(frames)
  /\ ReturnTo(frames')
  /\ UNCHANGED <<files, P_list, S_list, freed, b_load_failed, m_mapping, allocFailures>>

(* No memory for the next path.                                            *)
ParseDynamicFails ==
  /\ worker = "ParseDynamic" /\ More
  /\ Allocate
  /\ frames' = Front(frames)
  /\ DynFailed(Top.syminfo, frames')
  /\ m_mapping' = NoFile /\ b_load_failed' = TRUE
  /\ UNCHANGED <<files, P_list, S_list>>

(* Mutant: no path has room for the byte that ends it.                     *)
PathOverrunsAnywhere ==
  /\ worker = "ParseDynamic" /\ More
  /\ worker' = "crashed"
  /\ UNCHANGED <<files, P_list, S_list, freed, b_load_failed, m_mapping, frames,
                 allocFailures>>

(* The buffer for a path below a DT_RUNPATH or DT_RPATH has no room for    *)
(* the byte that ends it, and the heap may not survive that byte.          *)
PathOverruns ==
  /\ worker = "ParseDynamic" /\ More
  /\ HasLibPath(files[Top.path])
  /\ worker' = "crashed"
  /\ UNCHANGED <<files, P_list, S_list, freed, b_load_failed, m_mapping, frames,
                 allocFailures>>

LoaderNext ==
  \/ StartLoader
  \/ OpenElf \/ OpenFileFails
  \/ LoadSymbols \/ LoadSymbolsFails \/ StackOverflow \/ ScanFails
  \/ ParseDynamic \/ ParseDynamicReturns \/ ParseDynamicFails \/ PathOverruns

LoaderSpec == LoaderInit /\ [][LoaderNext]_loader

----------------------------------------------------------------------------
(* What the loader is for.                                                 *)

Dependencies(p) ==
  IF p \in DOMAIN files
  THEN {Pathname(files[p], i) : i \in DOMAIN SharedLibs(files[p])}
  ELSE {}

Universe == {Executable} \cup UNION {Dependencies(p) : p \in DOMAIN files}

(* The least set that holds R and, with a file, what the file needs.       *)
Closed(S)  == \A p \in S : Dependencies(p) \subseteq S
Closure(R) ==
  LET closed == {S \in SUBSET Universe : R \subseteq S /\ Closed(S)}
  IN {p \in Universe : \A S \in closed : p \in S}

(* What a sequence lists: the names of a file with an address.             *)
Elements(s)  == {s[i] : i \in DOMAIN s}
Functions(p) == Elements(Named(files[p], Len(files[p].functions)))

Required == Closure({Executable})
Listed   == {P_list[i].path : i \in DOMAIN P_list}

(* Nothing is opened that the executable does not need, directly or not,   *)
(* and unless memory ran out the thread ends with every library visited    *)
(* and every function of every one that opened: the nested calls of        *)
(* OpenFile, which unmap the file of their caller, lose none.              *)
EveryLibraryLoaded ==
  /\ Listed \subseteq Required
  /\ worker = "done" /\ allocFailures = 0 =>
       /\ Listed = Required
       /\ Elements(S_list) = UNION {Functions(p) : p \in Required \cap DOMAIN files}

(* A failure anywhere in the recursion is seen at its end, although        *)
(* ParseDynamic drops what OpenFile returns, and a library that fails does *)
(* not keep the next ones from being visited.                              *)
FailureIsReported ==
  worker = "done" =>
    (b_load_failed <=> allocFailures > 0 \/ \E p \in Listed : p \notin DOMAIN files)

(* The recursion ends within the stack unless the libraries form a cycle,  *)
(* where DepthSuffices.                                                    *)
OverflowNeedsCycle ==
  worker = "overflow" => \E p \in Required : p \in Closure(Dependencies(p))

(* The thread crashes behind a file that was opened, at any depth, and     *)
(* only for one of two reasons: the file gives a path for its libraries,   *)
(* or memory ran out and its last function was not named.  Whatever fails, *)
(* files of the other kind never take the debugger down.                   *)
CrashNeedsCause ==
  worker = "crashed" =>
    \E p \in Listed \cap DOMAIN files :
      \/ HasLibPath(files[p]) /\ SharedLibs(files[p]) # <<>>
      \/ allocFailures > 0 /\ ~LastIsNamed(files[p])

(* parsesymbols.h:11 "vector of pathnames already searched": none of them  *)
(* is searched again.                                                      *)
SearchedOnce ==
  \A i, j \in DOMAIN P_list : P_list[i].path = P_list[j].path => i = j
=============================================================================
