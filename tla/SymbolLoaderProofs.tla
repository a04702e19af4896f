------------------------- MODULE SymbolLoaderProofs -------------------------
(***************************************************************************)
(* Theorems about SymbolLoader for every file system and every bound.      *)
(***************************************************************************)
EXTENDS SymbolLoader, BreakpointListProofs, FiniteSetTheorems

----------------------------------------------------------------------------
(* Sequences.                                                              *)

LEMMA AppendElements ==
  ASSUME NEW S, NEW s \in Seq(S), NEW e \in S
  PROVE  /\ Append(s, e) \in Seq(S)
         /\ Len(Append(s, e)) = Len(s) + 1
         /\ \A i \in 1 .. Len(s) : Append(s, e)[i] = s[i]
         /\ Append(s, e)[Len(s) + 1] = e
BY AppendProperties

LEMMA FrontElements ==
  ASSUME NEW S, NEW s \in Seq(S), s # <<>>
  PROVE  /\ Front(s) \in Seq(S)
         /\ Len(Front(s)) = Len(s) - 1
         /\ \A i \in 1 .. Len(s) - 1 : Front(s)[i] = s[i]
<1>1. Len(s) \in Nat \ {0}
  BY EmptySeq
<1>2. \A i \in 1 .. Len(s) - 1 : s[i] \in S
  BY <1>1, ElementOfSeq
<1>3. /\ SubSeq(s, 1, Len(s) - 1) \in Seq(S)
      /\ Len(SubSeq(s, 1, Len(s) - 1)) = IF 1 <= Len(s) - 1 THEN Len(s) - 1 - 1 + 1 ELSE 0
      /\ \A i \in 1 .. Len(s) - 1 - 1 + 1 : SubSeq(s, 1, Len(s) - 1)[i] = s[1 + i - 1]
  <2>1. 1 \in Int /\ Len(s) - 1 \in Int
    BY <1>1
  <2>. QED  BY <1>2, <2>1, SubSeqProperties
<1>4. Len(s) - 1 - 1 + 1 = Len(s) - 1 /\ \A i \in 1 .. Len(s) - 1 : 1 + i - 1 = i
  BY <1>1
<1>. QED
  BY <1>1, <1>3, <1>4 DEF Front

LEMMA ConcatElements ==
  ASSUME NEW S, NEW s \in Seq(S), NEW t \in Seq(S)
  PROVE  /\ s \o t \in Seq(S)
         /\ DOMAIN s \subseteq DOMAIN (s \o t)
         /\ Elements(s \o t) = Elements(s) \cup Elements(t)
<1>1. /\ s \o t \in Seq(S) /\ Len(s \o t) = Len(s) + Len(t)
      /\ \A i \in 1 .. Len(s) + Len(t) :
           (s \o t)[i] = IF i <= Len(s) THEN s[i] ELSE t[i - Len(s)]
  BY ConcatProperties
<1>2. /\ Len(s) \in Nat /\ DOMAIN s = 1 .. Len(s)
      /\ Len(t) \in Nat /\ DOMAIN t = 1 .. Len(t)
      /\ DOMAIN (s \o t) = 1 .. Len(s) + Len(t)
  BY <1>1, LenProperties
<1>3. Elements(s \o t) \subseteq Elements(s) \cup Elements(t)
  <2>. SUFFICES ASSUME NEW i \in 1 .. Len(s) + Len(t)
                PROVE  (s \o t)[i] \in Elements(s) \cup Elements(t)
    BY <1>2 DEF Elements
  <2>1. CASE i <= Len(s)
    BY <1>1, <1>2, <2>1 DEF Elements
  <2>2. CASE ~(i <= Len(s))
    <3>1. i - Len(s) \in DOMAIN t /\ (s \o t)[i] = t[i - Len(s)]
      BY <1>1, <1>2, <2>2
    <3>. QED  BY <3>1 DEF Elements
  <2>. QED  BY <2>1, <2>2
<1>4. Elements(s) \subseteq Elements(s \o t)
  <2>. SUFFICES ASSUME NEW i \in 1 .. Len(s)  PROVE s[i] \in Elements(s \o t)
    BY <1>2 DEF Elements
  <2>1. i \in DOMAIN (s \o t) /\ (s \o t)[i] = s[i]
    BY <1>1, <1>2
  <2>. QED  BY <2>1 DEF Elements
<1>5. Elements(t) \subseteq Elements(s \o t)
  <2>. SUFFICES ASSUME NEW i \in 1 .. Len(t)  PROVE t[i] \in Elements(s \o t)
    BY <1>2 DEF Elements
  <2>1. Len(s) + i \in DOMAIN (s \o t) /\ (s \o t)[Len(s) + i] = t[i]
    BY <1>1, <1>2
  <2>. QED  BY <2>1 DEF Elements
<1>. QED
  BY <1>1, <1>2, <1>3, <1>4, <1>5

----------------------------------------------------------------------------
(* What FileAssumption says of an open file.                               *)
LEMMA FileFacts ==
  ASSUME files \in FileSystems, NEW p \in DOMAIN files
  PROVE  /\ p \in STRING /\ p # NoFile
         /\ Len(files[p].functions) \in Nat
         /\ LastIsNamed(files[p]) => Named(files[p], Len(files[p].functions)) # <<>>
         /\ \A n \in 0 .. Len(files[p].functions) : Named(files[p], n) \in Seq(STRING)
         /\ SharedLibs(files[p]) \in Seq(STRING)
         /\ \A i \in DOMAIN SharedLibs(files[p]) : Pathname(files[p], i) \in STRING
<1>1. /\ p \in STRING /\ NoFile \notin DOMAIN files
      /\ files[p].functions \in Seq([name : STRING, defined : BOOLEAN])
      /\ LastIsNamed(files[p]) => Named(files[p], Len(files[p].functions)) # <<>>
      /\ \A n \in 0 .. Len(files[p].functions) : Named(files[p], n) \in Seq(STRING)
      /\ SharedLibs(files[p]) \in Seq(STRING)
      /\ \A i \in DOMAIN SharedLibs(files[p]) : Pathname(files[p], i) \in STRING
  BY FileAssumption
<1>. QED
  BY <1>1, LenProperties

(* The control of the recursion: labels and stack agree, a file is loaded  *)
(* while it is mapped, no two listed paths share a buffer, and a syminfo   *)
(* points into S_list if it points anywhere.                               *)
LoaderControl ==
  /\ worker \in {"none", "done"} => frames = <<>>
  /\ worker = "ParseDynamic" => frames # <<>>
  /\ worker = "LoadSymbols" => m_mapping = Path /\ Path \in DOMAIN files
  /\ \A i \in DOMAIN P_list : P_list[i].buffer = i
  /\ \A k \in DOMAIN frames : frames[k].syminfo <= Len(S_list)

LoaderInv == LoaderTypeOK /\ LoaderControl

PathEntry == [buffer : Nat \ {0}, path : STRING]

(* What holds of the stack and the lists in every state.                   *)
LEMMA StackFacts ==
  ASSUME LoaderInv
  PROVE  /\ P_list \in Seq(PathEntry) /\ DOMAIN P_list = 1 .. Len(P_list)
         /\ Len(P_list) \in Nat \ {0} /\ Path \in STRING /\ Path \in Listed
         /\ S_list \in Seq(STRING) /\ DOMAIN S_list = 1 .. Len(S_list) /\ Len(S_list) \in Nat
         /\ frames \in Seq(Frame) /\ DOMAIN frames = 1 .. Len(frames) /\ Len(frames) \in Nat
         /\ \A k \in DOMAIN frames : frames[k] \in Frame
<1>1. P_list \in Seq(PathEntry) /\ P_list # <<>>
  BY DEF LoaderInv, LoaderTypeOK, PathEntry
<1>2. DOMAIN P_list = 1 .. Len(P_list) /\ Len(P_list) \in Nat \ {0}
  BY <1>1, LenProperties, EmptySeq
<1>3. Len(P_list) \in 1 .. Len(P_list)
  BY <1>2
<1>4. P_list[Len(P_list)] \in PathEntry
  BY <1>1, <1>3, ElementOfSeq
<1>5. Path \in STRING /\ Path \in Listed
  BY <1>2, <1>3, <1>4 DEF Path, Listed, PathEntry
<1>6. S_list \in Seq(STRING) /\ DOMAIN S_list = 1 .. Len(S_list) /\ Len(S_list) \in Nat
  BY LenProperties DEF LoaderInv, LoaderTypeOK
<1>7. frames \in Seq(Frame) /\ DOMAIN frames = 1 .. Len(frames) /\ Len(frames) \in Nat
  BY LenProperties DEF LoaderInv, LoaderTypeOK
<1>8. \A k \in DOMAIN frames : frames[k] \in Frame
  BY <1>7, ElementOfSeq
<1>. QED
  BY <1>1, <1>2, <1>5, <1>6, <1>7, <1>8

LEMMA LoaderInvInit == LoaderInit => LoaderInv
<1>. SUFFICES ASSUME LoaderInit PROVE LoaderInv
  OBVIOUS
<1>1. /\ P_list \in Seq([buffer : Nat \ {0}, path : STRING]) /\ P_list # <<>>
      /\ \A i \in DOMAIN P_list : P_list[i].buffer = i
  BY FileAssumption DEF LoaderInit
<1>2. S_list \in Seq(STRING) /\ frames \in Seq(Frame) /\ Len(frames) = 0 /\ DOMAIN frames = {}
  <2>1. frames \in Seq(Frame) /\ Len(frames) = 0 /\ S_list \in Seq(STRING)
    BY EmptySeq DEF LoaderInit
  <2>. QED  BY <2>1, LenProperties
<1>3. allocFailures \in 0 .. MaxAllocFailures /\ Len(frames) <= MaxDepth
  BY <1>2, LoaderBoundAssumption DEF LoaderInit
<1>4. LoaderTypeOK
  BY <1>1, <1>2, <1>3 DEF LoaderInit, LoaderTypeOK, WorkerLabels
<1>5. LoaderControl
  BY <1>1, <1>2 DEF LoaderInit, LoaderControl
<1>. QED
  BY <1>4, <1>5 DEF LoaderInv

----------------------------------------------------------------------------
(* The steps.                                                              *)

LEMMA SyminfoBound ==
  ASSUME NEW f, NEW n \in Nat
  PROVE  LastSyminfo(f, n) \in Int /\ LastSyminfo(f, n) <= n
<1>1. LastSyminfo(f, n) \in {NullPtr, GarbagePtr, n}
  BY DEF LastSyminfo
<1>. QED
  BY <1>1 DEF NullPtr, GarbagePtr

LEMMA DynFailedEffect ==
  ASSUME NEW syminfo \in Int, NEW stack, NEW n \in Nat, syminfo <= n,
         freed \subseteq 1 .. n, DynFailed(syminfo, stack)
  PROVE  /\ freed' \subseteq 1 .. n
         /\ worker' = "crashed" \/ ReturnTo(stack)
<1>1. worker' = "crashed" \/ ReturnTo(stack)
  BY Zenon DEF DynFailed
<1>2. freed' = freed \/ (syminfo > 0 /\ freed' = freed \cup {syminfo})
  BY Zenon DEF DynFailed
<1>3. freed' \subseteq 1 .. n
  <2>1. CASE freed' = freed
    BY <2>1
  <2>2. CASE syminfo > 0 /\ freed' = freed \cup {syminfo}
    <3>1. syminfo \in 1 .. n
      BY <2>2
    <3>. QED  BY <2>2, <3>1
  <2>. QED  BY <1>2, <2>1, <2>2
<1>. QED
  BY <1>1, <1>3, Zenon

(* Both parts of the invariant, from what an action does to each variable. *)
LEMMA LoaderInvFrom ==
  ASSUME LoaderInv, UNCHANGED files,
         P_list' \in Seq(PathEntry), P_list' # <<>>,
         \A i \in 1 .. Len(P_list') : P_list'[i].buffer = i,
         S_list' \in Seq(STRING), freed' \subseteq 1 .. Len(S_list'),
         b_load_failed' \in BOOLEAN, m_mapping' \in DOMAIN files \cup {NoFile},
         frames' \in Seq(Frame), Len(frames') <= MaxDepth,
         \A k \in 1 .. Len(frames') : frames'[k].syminfo <= Len(S_list'),
         worker' \in WorkerLabels, allocFailures' \in 0 .. MaxAllocFailures,
         worker' \in {"none", "done"} => frames' = <<>>,
         worker' = "ParseDynamic" => frames' # <<>>,
         worker' = "LoadSymbols" => m_mapping' = Path' /\ Path' \in DOMAIN files
  PROVE  LoaderInv'
<1>1. Frame' = Frame
  BY DEF Frame
<1>2. /\ DOMAIN P_list' = 1 .. Len(P_list') /\ DOMAIN S_list' = 1 .. Len(S_list')
      /\ DOMAIN frames' = 1 .. Len(frames')
  BY LenProperties
<1>3. LoaderTypeOK'
  BY <1>1, <1>2 DEF LoaderInv, LoaderTypeOK, PathEntry
<1>4. LoaderControl'
  BY <1>2 DEF LoaderControl
<1>. QED
  BY <1>3, <1>4 DEF LoaderInv

(* The facts that LoaderInvFrom asks for, of the state before the step.    *)
LEMMA LoaderFacts ==
  ASSUME LoaderInv
  PROVE  /\ P_list \in Seq(PathEntry) /\ P_list # <<>>
         /\ \A i \in 1 .. Len(P_list) : P_list[i].buffer = i
         /\ S_list \in Seq(STRING) /\ freed \subseteq 1 .. Len(S_list) /\ Len(S_list) \in Nat
         /\ b_load_failed \in BOOLEAN /\ m_mapping \in DOMAIN files \cup {NoFile}
         /\ frames \in Seq(Frame) /\ Len(frames) <= MaxDepth
         /\ \A k \in 1 .. Len(frames) : frames[k].syminfo <= Len(S_list)
         /\ worker \in WorkerLabels /\ allocFailures \in 0 .. MaxAllocFailures
         /\ files \in FileSystems
BY StackFacts DEF LoaderInv, LoaderTypeOK, LoaderControl, PathEntry

(* A longer list of names keeps the frames in bounds.                      *)
LEMMA NamesGrow ==
  ASSUME LoaderInv, NEW names \in Seq(STRING), S_list' = S_list \o names
  PROVE  /\ S_list' \in Seq(STRING) /\ Len(S_list') \in Nat /\ Len(S_list) <= Len(S_list')
         /\ freed \subseteq 1 .. Len(S_list')
         /\ \A k \in 1 .. Len(frames) : frames[k] \in Frame /\ frames[k].syminfo <= Len(S_list')
         /\ Elements(S_list') = Elements(S_list) \cup Elements(names)
<1>1. /\ S_list \in Seq(STRING) /\ freed \subseteq 1 .. Len(S_list) /\ Len(S_list) \in Nat
      /\ \A k \in 1 .. Len(frames) : frames[k].syminfo <= Len(S_list)
  BY LoaderFacts
<1>2. S_list' \in Seq(STRING) /\ Len(S_list') = Len(S_list) + Len(names) /\ Len(names) \in Nat
  BY <1>1, ConcatProperties, LenProperties
<1>3. Elements(S_list') = Elements(S_list) \cup Elements(names)
  BY <1>1, ConcatElements
<1>4. \A k \in 1 .. Len(frames) : frames[k] \in Frame /\ frames[k].syminfo \in Int
  BY StackFacts DEF Frame
<1>. QED
  BY <1>1, <1>2, <1>3, <1>4

(* Where a call returns to.                                                *)
LEMMA ReturnLabels ==
  ASSUME NEW stack, ReturnTo(stack)
  PROVE  /\ worker' \in {"done", "ParseDynamic"}
         /\ worker' = "done" <=> stack = <<>>
BY DEF ReturnTo

(* The frames with the next library of the innermost one counted.          *)
LEMMA NextLibrary ==
  ASSUME LoaderInv, worker = "ParseDynamic"
  PROVE  /\ Len(frames) \in Nat \ {0} /\ Top \in Frame /\ Top.path \in DOMAIN files
         /\ Top.syminfo \in Int /\ Top.syminfo <= Len(S_list)
         /\ LET stack == [frames EXCEPT ![Len(frames)].next = @ + 1]
            IN /\ stack \in Seq(Frame) /\ Len(stack) = Len(frames) /\ stack # <<>>
               /\ \A k \in 1 .. Len(frames) :
                    /\ stack[k].syminfo = frames[k].syminfo
                    /\ stack[k].path = frames[k].path
                    /\ stack[k].next = IF k = Len(frames) THEN Top.next + 1 ELSE frames[k].next
<1>1. Len(frames) \in Nat \ {0} /\ frames \in Seq(Frame)
  BY StackFacts, EmptySeq DEF LoaderInv, LoaderControl
<1>2. Len(frames) \in 1 .. Len(frames)
  BY <1>1
<1>3. Top \in Frame /\ Top.syminfo <= Len(S_list)
  BY <1>2, StackFacts, LoaderFacts DEF Top
<1>4. [Top EXCEPT !.next = @ + 1] \in Frame
  BY <1>3 DEF Frame
<1> DEFINE stack == [frames EXCEPT ![Len(frames)].next = @ + 1]
<1>5. stack = [frames EXCEPT ![Len(frames)] = [Top EXCEPT !.next = @ + 1]]
  BY DEF Top
<1>6. /\ stack \in Seq(Frame) /\ Len(stack) = Len(frames)
      /\ \A k \in 1 .. Len(frames) :
           stack[k] = IF k = Len(frames) THEN [Top EXCEPT !.next = @ + 1] ELSE frames[k]
  BY <1>1, <1>2, <1>4, <1>5, ExceptSeq
<1>7. \A k \in 1 .. Len(frames) :
        /\ stack[k].syminfo = frames[k].syminfo
        /\ stack[k].path = frames[k].path
        /\ stack[k].next = IF k = Len(frames) THEN Top.next + 1 ELSE frames[k].next
  <2>. TAKE k \in 1 .. Len(frames)
  <2>. HIDE DEF stack
  <2>1. CASE k = Len(frames)
    BY <1>3, <1>6, <2>1 DEF Top, Frame
  <2>2. CASE k # Len(frames)
    BY <1>6, <2>2
  <2>. QED  BY <2>1, <2>2
<1>8. stack # <<>>
  BY <1>1, <1>6, EmptySeq
<1>. QED
  BY <1>1, <1>3, <1>6, <1>7, <1>8 DEF Frame

(* The path that is searched for is not found: its buffer is a new one.    *)
LEMMA SearchFails ==
  ASSUME LoaderInv, worker = "ParseDynamic", More
  PROVE  /\ ~SearchForPath(NextPath)
         /\ NextPath \in PathEntry /\ NextPath.buffer = Len(P_list) + 1
         /\ Top.next \in DOMAIN SharedLibs(files[Top.path])
         /\ NextPath.path = Pathname(files[Top.path], Top.next)
         /\ NextPath.path \in Dependencies(Top.path)
<1>1. Top \in Frame /\ Top.path \in DOMAIN files
  BY NextLibrary
<1>2. files \in FileSystems
  BY LoaderFacts
<1>3. SharedLibs(files[Top.path]) \in Seq(STRING)
  BY <1>1, <1>2, FileFacts
<1>4. Top.next \in DOMAIN SharedLibs(files[Top.path])
  <2>1. Top.next \in Nat \ {0}
    BY <1>1 DEF Frame
  <2>2. DOMAIN SharedLibs(files[Top.path]) = 1 .. Len(SharedLibs(files[Top.path]))
    BY <1>3, LenProperties
  <2>. QED  BY <2>1, <2>2, <1>3, LenProperties DEF More
<1>5. Pathname(files[Top.path], Top.next) \in STRING
  BY <1>1, <1>2, <1>4, FileFacts
<1>6. Len(P_list) \in Nat
  BY StackFacts
<1>7. NextPath \in PathEntry /\ NextPath.buffer = Len(P_list) + 1
      /\ NextPath.path = Pathname(files[Top.path], Top.next)
  BY <1>5, <1>6 DEF NextPath, PathEntry
<1>8. ~SearchForPath(NextPath)
  <2>1. \A i \in DOMAIN P_list : P_list[i].buffer = i /\ i <= Len(P_list)
    BY <1>6, StackFacts DEF LoaderInv, LoaderControl
  <2>. QED  BY <1>6, <1>7, <2>1, StackFacts DEF SearchForPath
<1>9. NextPath.path \in Dependencies(Top.path)
  BY <1>1, <1>4, <1>7 DEF Dependencies
<1>. QED
  BY <1>4, <1>7, <1>8, <1>9

(* The call of LoadSymbols: the frame that it pushes.                      *)
LEMMA PushFrame ==
  ASSUME LoaderInv, LoadSymbols
  PROVE  LET f   == files[m_mapping]
             top == [path |-> m_mapping, next |-> 1,
                     syminfo |-> LastSyminfo(f, Len(S_list'))]
         IN /\ m_mapping = Path /\ m_mapping \in DOMAIN files
            /\ S_list' \in Seq(STRING) /\ freed \subseteq 1 .. Len(S_list')
            /\ Elements(S_list') = Elements(S_list) \cup Functions(m_mapping)
            /\ top \in Frame
            /\ frames' \in Seq(Frame) /\ Len(frames') = Len(frames) + 1
            /\ Len(frames) \in Nat
            /\ \A k \in 1 .. Len(frames) : frames'[k] = frames[k]
            /\ frames'[Len(frames')] = top
            /\ \A k \in 1 .. Len(frames') : frames'[k].syminfo <= Len(S_list')
<1> DEFINE f     == files[m_mapping]
           names == Named(f, Len(f.functions))
           top   == [path |-> m_mapping, next |-> 1,
                     syminfo |-> LastSyminfo(f, Len(S_list'))]
<1>1. m_mapping = Path /\ m_mapping \in DOMAIN files
  BY DEF LoadSymbols, LoaderInv, LoaderControl
<1>2. names \in Seq(STRING)
  <2>1. files \in FileSystems
    BY LoaderFacts
  <2>2. Len(f.functions) \in Nat /\ \A n \in 0 .. Len(f.functions) : Named(f, n) \in Seq(STRING)
    BY <1>1, <2>1, FileFacts
  <2>3. Len(f.functions) \in 0 .. Len(f.functions)
    BY <2>2
  <2>. QED  BY <2>2, <2>3
<1>3. S_list' = S_list \o names /\ frames' = Append(frames, top)
  BY DEF LoadSymbols
<1>. HIDE DEF names
<1>4. /\ S_list' \in Seq(STRING) /\ Len(S_list') \in Nat
      /\ freed \subseteq 1 .. Len(S_list')
      /\ \A k \in 1 .. Len(frames) : frames[k] \in Frame /\ frames[k].syminfo <= Len(S_list')
      /\ Elements(S_list') = Elements(S_list) \cup Elements(names)
  BY <1>2, <1>3, NamesGrow
<1>5. LastSyminfo(f, Len(S_list')) \in Int /\ LastSyminfo(f, Len(S_list')) <= Len(S_list')
  BY <1>4, SyminfoBound
<1>6. top \in Frame /\ top.syminfo <= Len(S_list')
  BY <1>1, <1>5 DEF Frame
<1>7. frames \in Seq(Frame) /\ Len(frames) \in Nat
  BY StackFacts
<1>. HIDE DEF top, f
<1>8. /\ frames' \in Seq(Frame) /\ Len(frames') = Len(frames) + 1
      /\ \A k \in 1 .. Len(frames) : frames'[k] = frames[k]
      /\ frames'[Len(frames) + 1] = top
  BY <1>3, <1>6, <1>7, AppendElements
<1>9. \A k \in 1 .. Len(frames') : frames'[k].syminfo <= Len(S_list')
  <2>. TAKE k \in 1 .. Len(frames')
  <2>1. CASE k = Len(frames) + 1
    BY <1>6, <1>8, <2>1
  <2>2. CASE k # Len(frames) + 1
    <3>1. k \in 1 .. Len(frames)
      BY <1>7, <1>8, <2>2
    <3>. QED  BY <1>4, <1>8, <3>1
  <2>. QED  BY <2>1, <2>2
<1>10. Elements(S_list') = Elements(S_list) \cup Functions(m_mapping)
  BY <1>4 DEF Functions, names, f
<1>. QED
  BY <1>1, <1>4, <1>6, <1>7, <1>8, <1>9, <1>10 DEF top, f

(* The names of the first functions of the mapped file.                    *)
LEMMA NamedOfMapping ==
  ASSUME LoaderInv, worker = "LoadSymbols",
         NEW n \in 0 .. Len(files[m_mapping].functions)
  PROVE  Named(files[m_mapping], n) \in Seq(STRING)
<1>1. m_mapping \in DOMAIN files /\ files \in FileSystems
  BY LoaderFacts DEF LoaderInv, LoaderControl
<1>. QED
  BY <1>1, FileFacts

LEMMA LoaderInvStep ==
  ASSUME LoaderInv, LoaderNext
  PROVE  LoaderInv' /\ UNCHANGED files
<1>. USE LoaderFacts, StackFacts, LoaderBoundAssumption
<1>1. CASE StartLoader
  <2>1. worker' = "OpenFile" /\ UNCHANGED <<files, P_list, S_list, freed, b_load_failed,
                                           m_mapping, frames, allocFailures>>
    BY <1>1 DEF StartLoader
  <2>. QED  BY <2>1, LoaderInvFrom DEF WorkerLabels
<1>2. CASE OpenElf
  <2>1. /\ worker' = "LoadSymbols" /\ m_mapping' = Path /\ Path \in DOMAIN files
        /\ UNCHANGED <<files, P_list, S_list, freed, b_load_failed, frames, allocFailures>>
    BY <1>2 DEF OpenElf
  <2>2. Path' = Path
    BY <2>1 DEF Path
  <2>. QED  BY <2>1, <2>2, LoaderInvFrom DEF WorkerLabels
<1>3. CASE OpenFileFails
  <2>1. /\ ReturnTo(frames) /\ b_load_failed' = TRUE
        /\ UNCHANGED <<files, P_list, S_list, freed, m_mapping, frames, allocFailures>>
    BY <1>3 DEF OpenFileFails
  <2>2. worker' \in {"done", "ParseDynamic"} /\ (worker' = "done" <=> frames = <<>>)
    BY <2>1, ReturnLabels
  <2>. QED  BY <2>1, <2>2, LoaderInvFrom DEF WorkerLabels
<1>4. CASE LoadSymbols
  <2>1. /\ S_list' \in Seq(STRING) /\ freed \subseteq 1 .. Len(S_list')
        /\ frames' \in Seq(Frame) /\ Len(frames') = Len(frames) + 1
        /\ \A k \in 1 .. Len(frames') : frames'[k].syminfo <= Len(S_list')
    BY <1>4, PushFrame
  <2>2. /\ worker' = "ParseDynamic" /\ Len(frames) < MaxDepth
        /\ UNCHANGED <<files, P_list, freed, b_load_failed, m_mapping, allocFailures>>
    BY <1>4 DEF LoadSymbols
  <2>3. frames' # <<>> /\ Len(frames') <= MaxDepth
    BY <2>1, <2>2, EmptySeq
  <2>. QED  BY <2>1, <2>2, <2>3, LoaderInvFrom DEF WorkerLabels
<1>5. CASE LoadSymbolsFails
  <2>1. PICK n \in 0 .. Len(files[m_mapping].functions) - 1 :
          S_list' = S_list \o Named(files[m_mapping], n)
    BY <1>5 DEF LoadSymbolsFails
  <2>2. n \in 0 .. Len(files[m_mapping].functions)
    <3>1. m_mapping \in DOMAIN files
      BY <1>5 DEF LoadSymbolsFails, LoaderInv, LoaderControl
    <3>2. Len(files[m_mapping].functions) \in Nat
      BY <3>1, FileFacts
    <3>. QED  BY <3>2
  <2>3. /\ S_list' \in Seq(STRING) /\ freed \subseteq 1 .. Len(S_list')
        /\ \A k \in 1 .. Len(frames) : frames[k].syminfo <= Len(S_list')
    BY <1>5, <2>1, <2>2, NamedOfMapping, NamesGrow DEF LoadSymbolsFails
  <2>4. /\ m_mapping' = NoFile /\ b_load_failed' = TRUE /\ ReturnTo(frames)
        /\ allocFailures < MaxAllocFailures /\ allocFailures' = allocFailures + 1
        /\ UNCHANGED <<files, P_list, freed, frames>>
    BY <1>5 DEF LoadSymbolsFails, Allocate
  <2>5. worker' \in {"done", "ParseDynamic"} /\ (worker' = "done" <=> frames = <<>>)
    BY <2>4, ReturnLabels
  <2>. QED  BY <2>3, <2>4, <2>5, LoaderInvFrom DEF WorkerLabels
<1>6. CASE StackOverflow
  <2>1. worker' = "overflow" /\ UNCHANGED <<files, P_list, S_list, freed, b_load_failed,
                                           m_mapping, frames, allocFailures>>
    BY <1>6 DEF StackOverflow
  <2>. QED  BY <2>1, LoaderInvFrom DEF WorkerLabels, Crashed
<1>7. CASE ScanFails
  <2> DEFINE f == files[m_mapping]
  <2>1. /\ S_list' = S_list \o Named(f, Len(f.functions))
        /\ DynFailed(LastSyminfo(f, Len(S_list')), frames)
        /\ allocFailures < MaxAllocFailures /\ allocFailures' = allocFailures + 1
        /\ m_mapping' = NoFile /\ b_load_failed' = TRUE
        /\ UNCHANGED <<files, P_list, frames>>
    BY <1>7 DEF ScanFails, Allocate
  <2>2. Len(f.functions) \in 0 .. Len(f.functions)
    <3>1. m_mapping \in DOMAIN files
      BY <1>7 DEF ScanFails, LoaderInv, LoaderControl
    <3>2. Len(f.functions) \in Nat
      BY <3>1, FileFacts
    <3>. QED  BY <3>2
  <2>3. /\ S_list' \in Seq(STRING) /\ Len(S_list') \in Nat /\ freed \subseteq 1 .. Len(S_list')
        /\ \A k \in 1 .. Len(frames) : frames[k].syminfo <= Len(S_list')
    BY <1>7, <2>1, <2>2, NamedOfMapping, NamesGrow DEF ScanFails
  <2>. HIDE DEF f
  <2>4. LastSyminfo(f, Len(S_list')) \in Int /\ LastSyminfo(f, Len(S_list')) <= Len(S_list')
    BY <2>3, SyminfoBound
  <2>5. freed' \subseteq 1 .. Len(S_list') /\ (worker' = "crashed" \/ ReturnTo(frames))
    BY <2>1, <2>3, <2>4, DynFailedEffect
  <2>6. /\ worker' \in {"done", "ParseDynamic", "crashed"}
        /\ worker' = "done" => frames = <<>>
        /\ worker' = "ParseDynamic" => frames # <<>>
    BY <2>5, ReturnLabels
  <2>. QED  BY <2>1, <2>3, <2>5, <2>6, LoaderInvFrom DEF WorkerLabels, Crashed
<1>8. CASE ParseDynamic
  <2>1. worker = "ParseDynamic" /\ More
    BY <1>8 DEF ParseDynamic
  <2>2. ~SearchForPath(NextPath) /\ NextPath \in PathEntry /\ NextPath.buffer = Len(P_list) + 1
    BY <2>1, SearchFails
  <2>3. /\ P_list' = Append(P_list, NextPath) /\ m_mapping' = NoFile /\ worker' = "OpenFile"
        /\ frames' = [frames EXCEPT ![Len(frames)].next = @ + 1]
        /\ UNCHANGED <<files, S_list, freed, b_load_failed, allocFailures>>
    BY <1>8, <2>2 DEF ParseDynamic
  <2>4. /\ frames' \in Seq(Frame) /\ Len(frames') = Len(frames)
        /\ \A k \in 1 .. Len(frames) : frames'[k].syminfo = frames[k].syminfo
    BY <2>1, <2>3, NextLibrary
  <2>5. /\ P_list' \in Seq(PathEntry) /\ Len(P_list') = Len(P_list) + 1
        /\ \A i \in 1 .. Len(P_list) : P_list'[i] = P_list[i]
        /\ P_list'[Len(P_list) + 1] = NextPath
    BY <2>2, <2>3, AppendElements
  <2>6. P_list' # <<>> /\ \A i \in 1 .. Len(P_list') : P_list'[i].buffer = i
    <3>1. P_list' # <<>>
      BY <2>5, EmptySeq
    <3>2. ASSUME NEW i \in 1 .. Len(P_list')  PROVE P_list'[i].buffer = i
      <4>1. CASE i = Len(P_list) + 1
        BY <2>2, <2>5, <4>1
      <4>2. CASE i # Len(P_list) + 1
        BY <2>5, <4>2
      <4>. QED  BY <4>1, <4>2
    <3>. QED  BY <3>1, <3>2
  <2>. QED  BY <2>3, <2>4, <2>5, <2>6, LoaderInvFrom DEF WorkerLabels
<1>9. ASSUME worker = "ParseDynamic"
      PROVE  /\ Front(frames) \in Seq(Frame) /\ Len(Front(frames)) = Len(frames) - 1
             /\ \A k \in 1 .. Len(frames) - 1 : Front(frames)[k] = frames[k]
  BY <1>9, FrontElements DEF LoaderInv, LoaderControl
<1>10. CASE ParseDynamicReturns
  <2>1. /\ worker = "ParseDynamic" /\ frames' = Front(frames) /\ ReturnTo(frames')
        /\ UNCHANGED <<files, P_list, S_list, freed, b_load_failed, m_mapping, allocFailures>>
    BY <1>10 DEF ParseDynamicReturns
  <2>2. worker' \in {"done", "ParseDynamic"} /\ (worker' = "done" <=> frames' = <<>>)
    BY <2>1, ReturnLabels
  <2>3. /\ frames' \in Seq(Frame) /\ Len(frames') <= MaxDepth
        /\ \A k \in 1 .. Len(frames') : frames'[k].syminfo <= Len(S_list')
    BY <1>9, <2>1
  <2>. QED  BY <2>1, <2>2, <2>3, LoaderInvFrom DEF WorkerLabels
<1>11. CASE ParseDynamicFails
  <2>1. /\ worker = "ParseDynamic" /\ frames' = Front(frames) /\ DynFailed(Top.syminfo, frames')
        /\ allocFailures < MaxAllocFailures /\ allocFailures' = allocFailures + 1
        /\ m_mapping' = NoFile /\ b_load_failed' = TRUE
        /\ UNCHANGED <<files, P_list, S_list>>
    BY <1>11 DEF ParseDynamicFails, Allocate
  <2>2. Top.syminfo \in Int /\ Top.syminfo <= Len(S_list)
    BY <2>1, NextLibrary
  <2>3. freed' \subseteq 1 .. Len(S_list) /\ (worker' = "crashed" \/ ReturnTo(frames'))
    BY <2>1, <2>2, DynFailedEffect
  <2>4. /\ worker' \in {"done", "ParseDynamic", "crashed"}
        /\ worker' = "done" => frames' = <<>>
        /\ worker' = "ParseDynamic" => frames' # <<>>
    BY <2>3, ReturnLabels
  <2>5. /\ frames' \in Seq(Frame) /\ Len(frames') <= MaxDepth
        /\ \A k \in 1 .. Len(frames') : frames'[k].syminfo <= Len(S_list')
    BY <1>9, <2>1
  <2>. QED  BY <2>1, <2>3, <2>4, <2>5, LoaderInvFrom DEF WorkerLabels, Crashed
<1>12. CASE PathOverruns
  <2>1. worker' = "crashed" /\ UNCHANGED <<files, P_list, S_list, freed, b_load_failed,
                                          m_mapping, frames, allocFailures>>
    BY <1>12 DEF PathOverruns
  <2>. QED  BY <2>1, LoaderInvFrom DEF WorkerLabels, Crashed
<1>13. UNCHANGED files
  BY DEF LoaderNext, StartLoader, OpenElf, OpenFileFails, LoadSymbols, LoadSymbolsFails,
         StackOverflow, ScanFails, ParseDynamic, ParseDynamicReturns, ParseDynamicFails,
         PathOverruns
<1>. QED
  BY <1>1, <1>2, <1>3, <1>4, <1>5, <1>6, <1>7, <1>8, <1>10, <1>11, <1>12, <1>13 DEF LoaderNext

LEMMA LoaderInvStutter ==
  ASSUME LoaderInv, UNCHANGED loader
  PROVE  LoaderInv'
BY DEF LoaderInv, LoaderTypeOK, LoaderControl, loader, Frame, Path, WorkerLabels, Crashed

LEMMA LoaderInvariant == LoaderSpec => []LoaderInv
<1>1. LoaderInv /\ [LoaderNext]_loader => LoaderInv'
  BY LoaderInvStep, LoaderInvStutter
<1>. QED
  BY <1>1, LoaderInvInit, PTL DEF LoaderSpec

(* The variables of the loader keep their types: the recursion never       *)
(* indexes a list out of its range, and what LoadSymbols frees is an entry *)
(* of S_list.                                                              *)
THEOREM LoaderTypeCorrect == LoaderSpec => []LoaderTypeOK
<1>1. LoaderInv => LoaderTypeOK
  BY DEF LoaderInv
<1>. QED
  BY <1>1, LoaderInvariant, PTL

----------------------------------------------------------------------------
(* What the executable requires.                                           *)

(* The closure is closed: Required holds the executable and, with a file,  *)
(* what the file needs; and it is the least such set.                      *)
LEMMA RequiredIsLeast ==
  /\ Executable \in Required /\ Required \subseteq Universe
  /\ \A p \in Required : Dependencies(p) \subseteq Required
  /\ \A S \in SUBSET Universe : Executable \in S /\ Closed(S) => Required \subseteq S
<1>1. Executable \in Required /\ Required \subseteq Universe
  BY DEF Required, Closure, Universe
<1>2. ASSUME NEW p \in Required, NEW q \in Dependencies(p)  PROVE q \in Required
  <2>1. q \in Universe
    BY <1>2 DEF Universe, Dependencies
  <2>2. ASSUME NEW S \in SUBSET Universe, {Executable} \subseteq S, Closed(S)  PROVE q \in S
    <3>1. p \in S
      BY <2>2 DEF Required, Closure
    <3>. QED  BY <2>2, <3>1 DEF Closed
  <2>. QED  BY <2>1, <2>2 DEF Required, Closure
<1>3. ASSUME NEW S \in SUBSET Universe, Executable \in S, Closed(S)
      PROVE  Required \subseteq S
  BY <1>3 DEF Required, Closure
<1>. QED
  BY <1>1, <1>2, <1>3

(* None of this changes while the files do not.                            *)
LEMMA RequiredFixed ==
  ASSUME UNCHANGED files
  PROVE  /\ Required' = Required
         /\ \A p : Dependencies(p)' = Dependencies(p) /\ Functions(p)' = Functions(p)
<1>1. \A p : Dependencies(p)' = Dependencies(p) /\ Functions(p)' = Functions(p)
  BY DEF Dependencies, Functions
<1>2. Universe' = Universe
  BY <1>1 DEF Universe
<1>3. \A S : Closed(S)' = Closed(S)
  BY <1>1 DEF Closed
<1>4. Required' = Required
  BY <1>2, <1>3 DEF Required, Closure
<1>. QED
  BY <1>1, <1>4

(* Only ParseDynamic lists a path: one that the innermost file needs.      *)
LEMMA ListedGrows ==
  ASSUME LoaderInv, LoaderNext
  PROVE  \/ Listed' = Listed
         \/ ParseDynamic /\ Listed' = Listed \cup {NextPath.path} /\ Path' = NextPath.path
<1>1. CASE UNCHANGED P_list
  BY <1>1 DEF Listed
<1>2. CASE ParseDynamic
  <2>1. ~SearchForPath(NextPath) /\ NextPath \in PathEntry
    BY <1>2, SearchFails DEF ParseDynamic
  <2>2. P_list' = Append(P_list, NextPath)
    BY <1>2, <2>1 DEF ParseDynamic
  <2>3. P_list \in Seq(PathEntry) /\ Len(P_list) \in Nat /\ DOMAIN P_list = 1 .. Len(P_list)
    BY StackFacts
  <2>4. /\ P_list' \in Seq(PathEntry) /\ Len(P_list') = Len(P_list) + 1
        /\ \A i \in 1 .. Len(P_list) : P_list'[i] = P_list[i]
        /\ P_list'[Len(P_list) + 1] = NextPath
    BY <2>1, <2>2, <2>3, AppendElements
  <2>5. DOMAIN P_list' = (DOMAIN P_list) \cup {Len(P_list) + 1}
    <3>1. DOMAIN P_list' = 1 .. Len(P_list')
      BY <2>4, LenProperties
    <3>. QED  BY <2>3, <2>4, <3>1
  <2>6. Listed' = Listed \cup {NextPath.path}
    BY <2>3, <2>4, <2>5 DEF Listed
  <2>7. Path' = NextPath.path
    BY <2>4 DEF Path
  <2>. QED  BY <1>2, <2>6, <2>7
<1>. QED
  BY <1>1, <1>2 DEF LoaderNext, StartLoader, OpenElf, OpenFileFails, LoadSymbols,
     LoadSymbolsFails, StackOverflow, ScanFails, ParseDynamicReturns, ParseDynamicFails,
     PathOverruns

(* A frame is that of a listed file, and none is listed without need.      *)
LoaderReach ==
  /\ Executable \in Listed /\ Listed \subseteq Required
  /\ \A k \in 1 .. Len(frames) : frames[k].path \in Listed

LEMMA LoaderReachInit == LoaderInit => LoaderReach
<1>. SUFFICES ASSUME LoaderInit PROVE LoaderReach
  OBVIOUS
<1>1. Listed = {Executable} /\ Len(frames) = 0
  BY EmptySeq DEF LoaderInit, Listed
<1>. QED
  BY <1>1, RequiredIsLeast DEF LoaderReach

LEMMA LoaderReachStep ==
  ASSUME LoaderInv, LoaderReach, LoaderNext
  PROVE  LoaderReach'
<1>1. UNCHANGED files
  BY LoaderInvStep
<1>2. Required' = Required
  BY <1>1, RequiredFixed
<1>3. Listed \subseteq Listed'
  BY ListedGrows
<1>4. Listed' \subseteq Required
  <2>1. CASE Listed' = Listed
    BY <2>1 DEF LoaderReach
  <2>2. CASE ParseDynamic /\ Listed' = Listed \cup {NextPath.path}
    <3>1. worker = "ParseDynamic" /\ More
      BY <2>2 DEF ParseDynamic
    <3>2. NextPath.path \in Dependencies(Top.path)
      BY <3>1, SearchFails
    <3>3. Len(frames) \in 1 .. Len(frames)
      BY <3>1, NextLibrary
    <3>4. Top.path \in Required
      BY <3>3 DEF LoaderReach, Top
    <3>. QED  BY <2>2, <3>2, <3>4, RequiredIsLeast DEF LoaderReach
  <2>. QED  BY <2>1, <2>2, ListedGrows
<1>5. \A k \in 1 .. Len(frames') : frames'[k].path \in Listed
  <2>. USE StackFacts DEF LoaderReach
  <2>1. CASE UNCHANGED frames
    BY <2>1
  <2>2. CASE LoadSymbols
    <3>1. /\ m_mapping \in Listed /\ Len(frames') = Len(frames) + 1
          /\ \A k \in 1 .. Len(frames) : frames'[k] = frames[k]
          /\ frames'[Len(frames')].path = m_mapping
      BY <2>2, PushFrame
    <3>2. ASSUME NEW k \in 1 .. Len(frames')  PROVE frames'[k].path \in Listed
      <4>1. CASE k = Len(frames')
        BY <3>1, <4>1
      <4>2. CASE k # Len(frames')
        <5>1. k \in 1 .. Len(frames)
          BY <3>1, <4>2
        <5>. QED  BY <3>1, <5>1
      <4>. QED  BY <4>1, <4>2
    <3>. QED  BY <3>2
  <2>3. CASE ParseDynamic
    <3>1. worker = "ParseDynamic" /\ frames' = [frames EXCEPT ![Len(frames)].next = @ + 1]
      BY <2>3 DEF ParseDynamic
    <3>2. /\ Len(frames') = Len(frames)
          /\ \A k \in 1 .. Len(frames) : frames'[k].path = frames[k].path
      BY <3>1, NextLibrary
    <3>. QED  BY <3>2
  <2>4. CASE ParseDynamicReturns \/ ParseDynamicFails
    <3>1. worker = "ParseDynamic" /\ frames' = Front(frames)
      BY <2>4 DEF ParseDynamicReturns, ParseDynamicFails
    <3>2. /\ Len(frames') = Len(frames) - 1
          /\ \A k \in 1 .. Len(frames) - 1 : frames'[k] = frames[k]
      BY <3>1, FrontElements DEF LoaderInv, LoaderControl
    <3>. QED  BY <3>2
  <2>. QED
    BY <2>1, <2>2, <2>3, <2>4 DEF LoaderNext, StartLoader, OpenElf, OpenFileFails,
       LoadSymbolsFails, StackOverflow, ScanFails, PathOverruns
<1>. QED
  BY <1>2, <1>3, <1>4, <1>5 DEF LoaderReach

----------------------------------------------------------------------------
(* Nothing is lost.  While no allocation fails, a listed file is the one   *)
(* that is about to be loaded, or its functions are listed and it is on    *)
(* the stack or done with: the nested calls come back to every frame, and  *)
(* a frame has listed what its file needs up to its loop index.            *)

Pending(p) == worker \in {"none", "OpenFile", "LoadSymbols"} /\ p = Path
Active(p)  == \E k \in 1 .. Len(frames) : frames[k].path = p

LoaderLosesNothing ==
  allocFailures = 0 /\ worker \notin Crashed =>
    /\ \A k \in 1 .. Len(frames) : \A i \in DOMAIN SharedLibs(files[frames[k].path]) :
         i < frames[k].next => Pathname(files[frames[k].path], i) \in Listed
    /\ \A p \in Listed \cap DOMAIN files :
         \/ Pending(p)
         \/ /\ Functions(p) \subseteq Elements(S_list)
            /\ Active(p) \/ Dependencies(p) \subseteq Listed
    /\ Elements(S_list) \subseteq UNION {Functions(p) : p \in Listed \cap DOMAIN files}

LEMMA LoaderLosesNothingInit == LoaderInit => LoaderLosesNothing
<1>. SUFFICES ASSUME LoaderInit PROVE LoaderLosesNothing
  OBVIOUS
<1>1. Listed = {Executable} /\ Path = Executable
  BY DEF LoaderInit, Listed, Path
<1>2. Len(frames) = 0 /\ Elements(S_list) = {}
  <2>1. S_list \in Seq(STRING) /\ Len(S_list) = 0 /\ Len(frames) = 0
    BY EmptySeq DEF LoaderInit
  <2>2. DOMAIN S_list = {}
    BY <2>1, LenProperties
  <2>. QED  BY <2>1, <2>2 DEF Elements
<1>3. \A p \in Listed : Pending(p)
  BY <1>1 DEF LoaderInit, Pending
<1>. QED
  BY <1>2, <1>3 DEF LoaderLosesNothing

LEMMA LoaderLosesNothingStep ==
  ASSUME LoaderInv, LoaderReach, LoaderLosesNothing, LoaderNext,
         allocFailures' = 0, worker' \notin Crashed
  PROVE  LoaderLosesNothing'
<1>1. UNCHANGED files /\ Len(frames) \in Nat
  BY LoaderInvStep, StackFacts
<1>2. \A p : Dependencies(p)' = Dependencies(p) /\ Functions(p)' = Functions(p)
  BY <1>1, RequiredFixed
<1>3. allocFailures = 0 /\ ~LoadSymbolsFails /\ ~ScanFails /\ ~ParseDynamicFails
  <2>1. allocFailures \in Nat
    BY LoaderBoundAssumption DEF LoaderInv, LoaderTypeOK
  <2>2. LoadSymbolsFails \/ ScanFails \/ ParseDynamicFails => allocFailures' = allocFailures + 1
    BY DEF LoadSymbolsFails, ScanFails, ParseDynamicFails, Allocate
  <2>3. UNCHANGED allocFailures \/ allocFailures' = allocFailures + 1
    BY <2>2 DEF LoaderNext, StartLoader, OpenElf, OpenFileFails, LoadSymbols, StackOverflow,
       ParseDynamic, ParseDynamicReturns, PathOverruns
  <2>. QED  BY <2>1, <2>2, <2>3
<1>4. worker \notin Crashed /\ ~StackOverflow /\ ~PathOverruns
  BY DEF LoaderNext, StartLoader, OpenElf, OpenFileFails, LoadSymbols, LoadSymbolsFails,
     StackOverflow, ScanFails, ParseDynamic, ParseDynamicReturns, ParseDynamicFails,
     PathOverruns, Crashed
<1>5. /\ \A k \in 1 .. Len(frames) : \A i \in DOMAIN SharedLibs(files[frames[k].path]) :
           i < frames[k].next => Pathname(files[frames[k].path], i) \in Listed
      /\ \A p \in Listed \cap DOMAIN files :
           \/ Pending(p)
           \/ /\ Functions(p) \subseteq Elements(S_list)
              /\ Active(p) \/ Dependencies(p) \subseteq Listed
      /\ Elements(S_list) \subseteq UNION {Functions(p) : p \in Listed \cap DOMAIN files}
  BY <1>3, <1>4 DEF LoaderLosesNothing
<1>6. CASE StartLoader \/ OpenElf \/ OpenFileFails
  <2>1. UNCHANGED <<P_list, S_list, frames>>
    BY <1>6 DEF StartLoader, OpenElf, OpenFileFails
  <2>2. UNCHANGED <<Listed, Path>> /\ Elements(S_list)' = Elements(S_list)
    BY <2>1 DEF Listed, Path, Elements
  <2>3. \A p : Active(p)' <=> Active(p)
    BY <2>1 DEF Active
  <2>4. \A p \in DOMAIN files : Pending(p) => Pending(p)'
    BY <1>6, <2>2 DEF StartLoader, OpenElf, OpenFileFails, Pending
  <2>. QED  BY <1>1, <1>2, <1>5, <2>1, <2>2, <2>3, <2>4 DEF LoaderLosesNothing
<1>7. CASE LoadSymbols
  <2>1. /\ m_mapping = Path /\ m_mapping \in DOMAIN files
        /\ Elements(S_list') = Elements(S_list) \cup Functions(m_mapping)
        /\ Len(frames') = Len(frames) + 1
        /\ \A k \in 1 .. Len(frames) : frames'[k] = frames[k]
        /\ frames'[Len(frames')].path = m_mapping /\ frames'[Len(frames')].next = 1
    BY <1>7, PushFrame
  <2>2. UNCHANGED <<P_list, Listed, Path>> /\ Path \in Listed
    BY <1>7, StackFacts DEF LoadSymbols, Listed, Path
  <2>3. Elements(S_list)' = Elements(S_list')
    BY DEF Elements
  <2>4. ASSUME NEW k \in 1 .. Len(frames'), NEW i \in DOMAIN SharedLibs(files[frames'[k].path]),
               i < frames'[k].next
        PROVE  Pathname(files[frames'[k].path], i) \in Listed
    <3>1. CASE k = Len(frames')
      <4>1. files[m_mapping] = files[frames'[k].path] /\ i < 1
        BY <2>1, <2>4, <3>1
      <4>2. SharedLibs(files[m_mapping]) \in Seq(STRING)
        BY <2>1, LoaderFacts, FileFacts
      <4>3. i \in 1 .. Len(SharedLibs(files[m_mapping]))
        BY <4>1, <4>2, LenProperties
      <4>. QED  BY <4>1, <4>3
    <3>2. CASE k # Len(frames')
      <4>1. k \in 1 .. Len(frames) /\ frames'[k] = frames[k]
        BY <1>1, <2>1, <3>2
      <4>. QED  BY <1>5, <2>4, <4>1
    <3>. QED  BY <3>1, <3>2
  <2>5. ASSUME NEW p \in Listed \cap DOMAIN files
        PROVE  /\ Functions(p) \subseteq Elements(S_list')
               /\ Active(p)' \/ Dependencies(p) \subseteq Listed
    <3>1. CASE p = m_mapping
      <4>1. Len(frames') \in 1 .. Len(frames')
        BY <1>1, <2>1
      <4>2. Active(p)'
        BY <2>1, <3>1, <4>1 DEF Active
      <4>. QED  BY <2>1, <3>1, <4>2
    <3>2. CASE p # m_mapping
      <4>1. ~Pending(p)
        BY <2>1, <3>2 DEF Pending
      <4>2. Active(p) => Active(p)'
        BY <1>1, <2>1 DEF Active
      <4>. QED  BY <1>5, <2>1, <4>1, <4>2
    <3>. QED  BY <3>1, <3>2
  <2>6. Elements(S_list') \subseteq UNION {Functions(p) : p \in Listed \cap DOMAIN files}
    BY <1>5, <2>1, <2>2
  <2>. QED  BY <1>1, <1>2, <2>2, <2>3, <2>4, <2>5, <2>6 DEF LoaderLosesNothing
<1>8. CASE ParseDynamic
  <2>2. worker = "ParseDynamic" /\ More
    BY <1>8 DEF ParseDynamic
  <2>3. /\ ~SearchForPath(NextPath)
        /\ Top.next \in DOMAIN SharedLibs(files[Top.path])
        /\ NextPath.path = Pathname(files[Top.path], Top.next)
    BY <2>2, SearchFails
  <2>4. /\ worker' = "OpenFile" /\ UNCHANGED S_list
        /\ frames' = [frames EXCEPT ![Len(frames)].next = @ + 1]
    BY <1>8, <2>3 DEF ParseDynamic
  <2>5. /\ Top \in Frame /\ Len(frames) \in 1 .. Len(frames) /\ Len(frames') = Len(frames)
        /\ \A k \in 1 .. Len(frames) :
             /\ frames'[k].path = frames[k].path
             /\ frames'[k].next = IF k = Len(frames) THEN Top.next + 1 ELSE frames[k].next
    BY <2>2, <2>4, NextLibrary
  <2>6. Listed' = Listed \cup {NextPath.path} /\ Path' = NextPath.path
    <3>2. P_list' = Append(P_list, NextPath) /\ NextPath \in PathEntry
      BY <1>8, <2>2, <2>3, SearchFails DEF ParseDynamic
    <3>3. /\ P_list' \in Seq(PathEntry) /\ Len(P_list') = Len(P_list) + 1
          /\ P_list'[Len(P_list) + 1] = NextPath /\ Len(P_list) \in Nat
      BY <3>2, StackFacts, AppendElements
    <3>4. Path' = NextPath.path
      BY <3>3 DEF Path
    <3>5. NextPath.path \in Listed'
      <4>1. Len(P_list) + 1 \in DOMAIN P_list'
        BY <3>3, LenProperties
      <4>. QED  BY <3>3, <4>1 DEF Listed
    <3>. QED  BY <3>4, <3>5, ListedGrows
  <2>7. UNCHANGED Elements(S_list)
    BY <2>4 DEF Elements
  <2>8. ASSUME NEW k \in 1 .. Len(frames'), NEW i \in DOMAIN SharedLibs(files[frames'[k].path]),
               i < frames'[k].next
        PROVE  Pathname(files[frames'[k].path], i) \in Listed'
    <3>1. k \in 1 .. Len(frames) /\ frames'[k].path = frames[k].path
      BY <2>5
    <3>2. CASE i < frames[k].next
      BY <1>5, <2>6, <3>1, <3>2
    <3>3. CASE ~(i < frames[k].next)
      <4>1. k = Len(frames) /\ i < Top.next + 1
        BY <2>5, <2>8, <3>1, <3>3
      <4>2. frames[k] = Top
        BY <4>1 DEF Top
      <4>3. i \in Nat
        <5>1. Top.path \in DOMAIN files
          BY <2>2, NextLibrary
        <5>2. SharedLibs(files[Top.path]) \in Seq(STRING)
          BY <5>1, LoaderFacts, FileFacts
        <5>. QED  BY <3>1, <4>2, <5>2, LenProperties
      <4>4. i = Top.next
        BY <2>5, <3>3, <4>1, <4>2, <4>3 DEF Frame
      <4>. QED  BY <2>3, <2>6, <3>1, <4>2, <4>4
    <3>. QED  BY <3>2, <3>3
  <2>9. ASSUME NEW p \in Listed' \cap DOMAIN files
        PROVE  \/ Pending(p)'
               \/ /\ Functions(p) \subseteq Elements(S_list)
                  /\ Active(p)' \/ Dependencies(p) \subseteq Listed'
    <3>1. CASE p = NextPath.path
      BY <2>4, <2>6, <3>1 DEF Pending
    <3>2. CASE p # NextPath.path
      <4>1. p \in Listed /\ ~Pending(p)
        BY <2>2, <2>6, <3>2 DEF Pending
      <4>2. Active(p) => Active(p)'
        BY <2>5 DEF Active
      <4>. QED  BY <1>5, <2>6, <4>1, <4>2
    <3>. QED  BY <3>1, <3>2
  <2>10. Elements(S_list) \subseteq UNION {Functions(p) : p \in Listed' \cap DOMAIN files}
    BY <1>5, <2>6
  <2>. QED  BY <1>1, <1>2, <2>7, <2>8, <2>9, <2>10 DEF LoaderLosesNothing
<1>9. CASE ParseDynamicReturns
  <2>1. /\ worker = "ParseDynamic" /\ ~More /\ frames' = Front(frames)
        /\ UNCHANGED <<P_list, S_list>>
    BY <1>9 DEF ParseDynamicReturns
  <2>2. UNCHANGED <<Listed, Elements(S_list)>>
    BY <2>1 DEF Listed, Elements
  <2>3. /\ Len(frames) \in 1 .. Len(frames) /\ Top \in Frame /\ Top.path \in DOMAIN files
        /\ Len(frames') = Len(frames) - 1
        /\ \A k \in 1 .. Len(frames) - 1 : frames'[k] = frames[k]
    BY <2>1, NextLibrary, FrontElements, StackFacts DEF LoaderInv, LoaderControl
  <2>4. Dependencies(Top.path) \subseteq Listed
    <3>1. SharedLibs(files[Top.path]) \in Seq(STRING)
      BY <2>3, LoaderFacts, FileFacts
    <3>2. ASSUME NEW i \in DOMAIN SharedLibs(files[Top.path])
          PROVE  Pathname(files[Top.path], i) \in Listed
      <4>1. /\ i \in 1 .. Len(SharedLibs(files[Top.path]))
            /\ Len(SharedLibs(files[Top.path])) \in Nat /\ Top.next \in Nat
        BY <2>3, <3>1, LenProperties DEF Frame
      <4>2. i < Top.next
        BY <2>1, <4>1 DEF More
      <4>. QED  BY <1>5, <2>3, <4>2 DEF Top
    <3>. QED  BY <2>3, <3>2 DEF Dependencies
  <2>5. ASSUME NEW p \in Listed \cap DOMAIN files
        PROVE  /\ Functions(p) \subseteq Elements(S_list)
               /\ Active(p)' \/ Dependencies(p) \subseteq Listed
    <3>1. /\ Functions(p) \subseteq Elements(S_list)
          /\ Active(p) \/ Dependencies(p) \subseteq Listed
      BY <1>5, <2>1 DEF Pending
    <3>2. ASSUME Active(p)  PROVE Active(p)' \/ Dependencies(p) \subseteq Listed
      <4>1. PICK k \in 1 .. Len(frames) : frames[k].path = p
        BY <3>2 DEF Active
      <4>2. CASE k = Len(frames)
        BY <2>4, <4>1, <4>2 DEF Top
      <4>3. CASE k # Len(frames)
        <5>1. k \in 1 .. Len(frames') /\ frames'[k].path = p
          BY <2>3, <4>1, <4>3
        <5>. QED  BY <5>1 DEF Active
      <4>. QED  BY <4>2, <4>3
    <3>. QED  BY <3>1, <3>2
  <2>6. ASSUME NEW k \in 1 .. Len(frames'), NEW i \in DOMAIN SharedLibs(files[frames'[k].path]),
               i < frames'[k].next
        PROVE  Pathname(files[frames'[k].path], i) \in Listed
    <3>1. k \in 1 .. Len(frames) /\ frames'[k] = frames[k]
      BY <2>3
    <3>. QED  BY <1>5, <2>6, <3>1
  <2>. QED  BY <1>1, <1>2, <1>5, <2>2, <2>5, <2>6 DEF LoaderLosesNothing
<1>. QED
  BY <1>3, <1>4, <1>6, <1>7, <1>8, <1>9 DEF LoaderNext

LEMMA LoadedFollows ==
  ASSUME LoaderInv, LoaderReach, LoaderLosesNothing
  PROVE  EveryLibraryLoaded
<1>. SUFFICES ASSUME worker = "done", allocFailures = 0
              PROVE  /\ Listed = Required
                     /\ Elements(S_list) = UNION {Functions(p) : p \in Required \cap DOMAIN files}
  BY DEF EveryLibraryLoaded, LoaderReach
<1>1. Len(frames) = 0 /\ worker \notin Crashed
  BY EmptySeq DEF LoaderInv, LoaderControl, Crashed
<1>2. /\ \A p \in Listed \cap DOMAIN files :
           Functions(p) \subseteq Elements(S_list) /\ Dependencies(p) \subseteq Listed
      /\ Elements(S_list) \subseteq UNION {Functions(p) : p \in Listed \cap DOMAIN files}
  BY <1>1 DEF LoaderLosesNothing, Pending, Active
<1>3. Closed(Listed)
  BY <1>2 DEF Closed, Dependencies
<1>4. Listed = Required
  <2>1. Listed \in SUBSET Universe /\ Executable \in Listed
    BY RequiredIsLeast DEF LoaderReach
  <2>2. Required \subseteq Listed
    BY <1>3, <2>1, RequiredIsLeast
  <2>. QED  BY <2>2 DEF LoaderReach
<1>. QED
  BY <1>2, <1>4

(* When the thread ends and no allocation failed, every library has been   *)
(* visited, though every nested call unmaps the file of its caller, and no *)
(* library is visited that is not needed.                                  *)
THEOREM LoaderLoadsAll == LoaderSpec => []EveryLibraryLoaded
<1> DEFINE IInv == LoaderInv /\ LoaderReach /\ LoaderLosesNothing
<1>1. LoaderInit => IInv
  BY LoaderInvInit, LoaderReachInit, LoaderLosesNothingInit
<1>2. IInv /\ [LoaderNext]_loader => IInv'
  <2>. SUFFICES ASSUME IInv, [LoaderNext]_loader PROVE IInv'
    OBVIOUS
  <2>1. CASE LoaderNext
    <3>1. LoaderLosesNothing'
      <4>1. CASE allocFailures' = 0 /\ worker' \notin Crashed
        BY <2>1, <4>1, LoaderLosesNothingStep
      <4>2. CASE ~(allocFailures' = 0 /\ worker' \notin Crashed)
        BY <4>2 DEF LoaderLosesNothing, Crashed
      <4>. QED  BY <4>1, <4>2
    <3>. QED  BY <2>1, <3>1, LoaderInvStep, LoaderReachStep
  <2>2. CASE UNCHANGED loader
    <3>1. LoaderInv'
      BY <2>2, LoaderInvStutter
    <3>2. UNCHANGED <<Listed, Required>> /\ UNCHANGED <<files, S_list, frames, worker, allocFailures>>
      BY <2>2, RequiredFixed DEF loader, Listed
    <3>3. LoaderReach'
      BY <3>2 DEF LoaderReach
    <3>4. /\ UNCHANGED <<Path, Elements(S_list)>>
          /\ \A p : Dependencies(p)' = Dependencies(p) /\ Functions(p)' = Functions(p)
      BY <2>2, <3>2, RequiredFixed DEF loader, Path, Elements
    <3>5. \A p : (Pending(p)' <=> Pending(p)) /\ (Active(p)' <=> Active(p))
      BY <3>2, <3>4 DEF Pending, Active
    <3>6. LoaderLosesNothing'
      BY <3>2, <3>4, <3>5 DEF LoaderLosesNothing, Crashed
    <3>. QED  BY <3>1, <3>3, <3>6
  <2>. QED  BY <2>1, <2>2
<1>3. IInv => EveryLibraryLoaded
  BY LoadedFollows
<1>. QED
  BY <1>1, <1>2, <1>3, PTL DEF LoaderSpec

----------------------------------------------------------------------------
(* b_load_failed.                                                          *)

(* The flag is set for a reason, and every reason that has been met has    *)
(* set it: only the path that is about to be opened may not open unseen.   *)
LoaderFlag ==
  /\ b_load_failed => allocFailures > 0 \/ \E p \in Listed : p \notin DOMAIN files
  /\ allocFailures > 0 \/ freed # {} => b_load_failed
  /\ \A p \in Listed : p \notin DOMAIN files =>
       b_load_failed \/ (worker \in {"none", "OpenFile"} /\ p = Path)

LEMMA LoaderFlagInit == LoaderInit => LoaderFlag
BY DEF LoaderInit, LoaderFlag, Listed, Path

LEMMA LoaderFlagStep ==
  ASSUME LoaderInv, LoaderFlag, LoaderNext
  PROVE  LoaderFlag'
<1>1. UNCHANGED files /\ allocFailures \in Nat
  BY LoaderInvStep, LoaderBoundAssumption DEF LoaderInv, LoaderTypeOK
<1>2. Listed \subseteq Listed'
  BY ListedGrows
<1>3. CASE OpenFileFails
  <2>1. /\ Path \notin DOMAIN files /\ b_load_failed' = TRUE
        /\ UNCHANGED <<P_list, freed, allocFailures>>
    BY <1>3 DEF OpenFileFails
  <2>2. Path \in Listed'
    BY <1>2, StackFacts
  <2>. QED  BY <1>1, <2>1, <2>2 DEF LoaderFlag
<1>4. CASE LoadSymbolsFails \/ ScanFails \/ ParseDynamicFails
  <2>1. b_load_failed' = TRUE /\ allocFailures' = allocFailures + 1
    BY <1>4 DEF LoadSymbolsFails, ScanFails, ParseDynamicFails, Allocate
  <2>. QED  BY <1>1, <2>1 DEF LoaderFlag
<1>5. CASE ParseDynamic
  <2>1. worker = "ParseDynamic" /\ More /\ UNCHANGED <<b_load_failed, freed, allocFailures>>
    BY <1>5 DEF ParseDynamic
  <2>2. ~SearchForPath(NextPath)
    BY <2>1, SearchFails
  <2>3. worker' = "OpenFile"
    BY <1>5, <2>2 DEF ParseDynamic
  <2>4. \A p \in Listed' : p \in Listed \/ p = Path'
    BY ListedGrows
  <2>. QED  BY <1>1, <1>2, <2>1, <2>3, <2>4 DEF LoaderFlag
<1>6. CASE StartLoader \/ OpenElf \/ LoadSymbols \/ StackOverflow \/ ParseDynamicReturns \/ PathOverruns
  <2>1. UNCHANGED <<P_list, freed, b_load_failed, allocFailures>>
    BY <1>6 DEF StartLoader, OpenElf, LoadSymbols, StackOverflow, ParseDynamicReturns,
                PathOverruns
  <2>2. UNCHANGED <<Listed, Path>>
    BY <2>1 DEF Listed, Path
  <2>3. \A p \in Listed : p \notin DOMAIN files /\ worker \in {"none", "OpenFile"} /\ p = Path
          => worker' = "OpenFile"
    <3>1. CASE StartLoader
      BY <3>1 DEF StartLoader
    <3>2. CASE OpenElf
      BY <3>2 DEF OpenElf
    <3>3. CASE LoadSymbols \/ StackOverflow \/ ParseDynamicReturns \/ PathOverruns
      BY <3>3 DEF LoadSymbols, StackOverflow, ParseDynamicReturns, PathOverruns
    <3>. QED  BY <1>6, <3>1, <3>2, <3>3
  <2>. QED  BY <1>1, <2>1, <2>2, <2>3 DEF LoaderFlag
<1>. QED
  BY <1>3, <1>4, <1>5, <1>6 DEF LoaderNext

LEMMA LoaderFlagInvariant == LoaderSpec => [](LoaderInv /\ LoaderFlag)
<1>1. (LoaderInv /\ LoaderFlag) /\ [LoaderNext]_loader => (LoaderInv /\ LoaderFlag)'
  <2>. SUFFICES ASSUME LoaderInv, LoaderFlag, [LoaderNext]_loader
                PROVE  LoaderInv' /\ LoaderFlag'
    OBVIOUS
  <2>1. CASE LoaderNext
    BY <2>1, LoaderInvStep, LoaderFlagStep
  <2>2. CASE UNCHANGED loader
    <3>1. UNCHANGED <<Listed, Path>>
      BY <2>2 DEF loader, Listed, Path
    <3>. QED  BY <2>2, <3>1, LoaderInvStutter DEF loader, LoaderFlag
  <2>. QED  BY <2>1, <2>2
<1>. QED
  BY <1>1, LoaderInvInit, LoaderFlagInit, PTL DEF LoaderSpec

(* b_load_failed is set at the end exactly when memory ran out or a file   *)
(* could not be opened, at whatever depth, though ParseDynamic drops the   *)
(* result of the nested OpenFile.                                          *)
THEOREM LoaderReports == LoaderSpec => []FailureIsReported
<1>1. LoaderInv /\ LoaderFlag => FailureIsReported
  BY DEF LoaderFlag, FailureIsReported
<1>. QED
  BY <1>1, LoaderFlagInvariant, PTL

(* As long as the flag is clear no entry of S_list has been freed.         *)
LEMMA LoaderFreesFlagged == LoaderSpec => [](freed # {} => b_load_failed)
<1>1. LoaderFlag => (freed # {} => b_load_failed)
  BY DEF LoaderFlag
<1>. QED
  BY <1>1, LoaderFlagInvariant, PTL

----------------------------------------------------------------------------
(* The stack.  The files of the frames need one another, and the last one  *)
(* needs the file that is about to be loaded.                              *)

LoaderChain ==
  /\ \A j, k \in 1 .. Len(frames) : j = k + 1 => frames[j].path \in Dependencies(frames[k].path)
  /\ worker \in {"OpenFile", "LoadSymbols", "overflow"} /\ frames # <<>> =>
       Path \in Dependencies(Top.path)
  /\ worker = "overflow" => Len(frames) = MaxDepth /\ Path \in DOMAIN files

LEMMA LoaderChainInit == LoaderInit => LoaderChain
<1>. SUFFICES ASSUME LoaderInit PROVE LoaderChain
  OBVIOUS
<1>1. Len(frames) = 0 /\ worker = "none"
  BY EmptySeq DEF LoaderInit
<1>. QED
  BY <1>1 DEF LoaderChain

LEMMA LoaderChainStep ==
  ASSUME LoaderInv, LoaderChain, LoaderNext
  PROVE  LoaderChain'
<1>1. UNCHANGED files /\ \A p : Dependencies(p)' = Dependencies(p)
  BY LoaderInvStep, RequiredFixed
<1>2. CASE StartLoader
  <2>1. worker' = "OpenFile" /\ frames = <<>> /\ UNCHANGED frames
    BY <1>2 DEF StartLoader, LoaderInv, LoaderControl
  <2>2. Len(frames) = 0
    BY <2>1, EmptySeq
  <2>. QED  BY <2>1, <2>2 DEF LoaderChain
<1>3. CASE OpenElf \/ StackOverflow
  <2>1. /\ UNCHANGED <<frames, P_list>> /\ worker \in {"OpenFile", "LoadSymbols"}
        /\ worker' \in {"LoadSymbols", "overflow"}
        /\ worker' = "overflow" => Len(frames) = MaxDepth /\ Path \in DOMAIN files
    BY <1>3 DEF OpenElf, StackOverflow, LoaderInv, LoaderControl
  <2>2. Path' = Path /\ Top' = Top
    BY <2>1 DEF Path, Top
  <2>. QED  BY <1>1, <2>1, <2>2 DEF LoaderChain
<1>4. CASE OpenFileFails \/ LoadSymbolsFails \/ ScanFails \/ PathOverruns
  <2>1. UNCHANGED frames
    BY <1>4 DEF OpenFileFails, LoadSymbolsFails, ScanFails, PathOverruns
  <2>2. worker' \notin {"OpenFile", "LoadSymbols", "overflow"}
    BY <1>4, Zenon DEF OpenFileFails, LoadSymbolsFails, ScanFails, PathOverruns, ReturnTo, DynFailed
  <2>. QED  BY <1>1, <2>1, <2>2 DEF LoaderChain
<1>5. CASE LoadSymbols
  <2>1. /\ m_mapping = Path /\ Len(frames') = Len(frames) + 1 /\ Len(frames) \in Nat
        /\ \A k \in 1 .. Len(frames) : frames'[k] = frames[k]
        /\ frames'[Len(frames')].path = m_mapping
    BY <1>5, PushFrame
  <2>2. worker = "LoadSymbols" /\ worker' = "ParseDynamic"
    BY <1>5 DEF LoadSymbols
  <2>3. Len(frames) # 0 => Path \in Dependencies(frames[Len(frames)].path)
    BY <2>2, EmptySeq DEF LoaderChain, Top
  <2>4. ASSUME NEW j \in 1 .. Len(frames'), NEW k \in 1 .. Len(frames'), j = k + 1
        PROVE  frames'[j].path \in Dependencies(frames'[k].path)
    <3>1. k \in 1 .. Len(frames) /\ frames'[k] = frames[k]
      BY <2>1, <2>4
    <3>2. CASE j = Len(frames')
      <4>1. k = Len(frames) /\ Len(frames) # 0
        BY <2>1, <2>4, <3>1, <3>2
      <4>. QED  BY <2>1, <2>3, <3>1, <3>2, <4>1
    <3>3. CASE j # Len(frames')
      <4>1. j \in 1 .. Len(frames)
        BY <2>1, <3>3
      <4>. QED  BY <2>1, <2>4, <3>1, <4>1 DEF LoaderChain
    <3>. QED  BY <3>2, <3>3
  <2>. QED  BY <1>1, <2>2, <2>4 DEF LoaderChain
<1>6. CASE ParseDynamic
  <2>1. worker = "ParseDynamic" /\ More /\ frames' = [frames EXCEPT ![Len(frames)].next = @ + 1]
    BY <1>6 DEF ParseDynamic
  <2>2. /\ Len(frames') = Len(frames) /\ Len(frames) \in Nat \ {0}
        /\ \A k \in 1 .. Len(frames) : frames'[k].path = frames[k].path
    BY <2>1, NextLibrary
  <2>3. Len(frames) \in 1 .. Len(frames)
    BY <2>2
  <2>4. Top'.path = Top.path
    BY <2>2, <2>3 DEF Top
  <2>5. worker' = "OpenFile" /\ Path' = NextPath.path /\ NextPath.path \in Dependencies(Top.path)
    <3>1. ~SearchForPath(NextPath) /\ NextPath.path \in Dependencies(Top.path)
      BY <2>1, SearchFails
    <3>2. worker' = "OpenFile" /\ P_list' = Append(P_list, NextPath)
      BY <1>6, <3>1 DEF ParseDynamic
    <3>3. P_list \in Seq(PathEntry) /\ NextPath \in PathEntry
      BY <2>1, SearchFails, StackFacts
    <3>4. P_list'[Len(P_list')] = NextPath
      BY <3>2, <3>3, AppendElements
    <3>. QED  BY <3>1, <3>2, <3>4 DEF Path
  <2>. QED  BY <1>1, <2>2, <2>4, <2>5 DEF LoaderChain
<1>7. CASE ParseDynamicReturns \/ ParseDynamicFails
  <2>1. worker = "ParseDynamic" /\ frames' = Front(frames)
    BY <1>7 DEF ParseDynamicReturns, ParseDynamicFails
  <2>2. /\ Len(frames') = Len(frames) - 1 /\ Len(frames) \in Nat
        /\ \A k \in 1 .. Len(frames) - 1 : frames'[k] = frames[k]
    BY <2>1, FrontElements, StackFacts DEF LoaderInv, LoaderControl
  <2>3. worker' \notin {"OpenFile", "LoadSymbols", "overflow"}
    BY <1>7, Zenon DEF ParseDynamicReturns, ParseDynamicFails, ReturnTo, DynFailed
  <2>. QED  BY <1>1, <2>2, <2>3 DEF LoaderChain
<1>. QED
  BY <1>2, <1>3, <1>4, <1>5, <1>6, <1>7 DEF LoaderNext

(* What a chain of files leads to, each of them needs.                     *)
LEMMA ChainReaches ==
  ASSUME NEW n \in Nat, NEW c \in [1 .. n -> DOMAIN files],
         \A k \in 1 .. n - 1 : c[k + 1] \in Dependencies(c[k]),
         NEW a \in 1 .. n, NEW b \in 1 .. n, a < b
  PROVE  c[b] \in Closure(Dependencies(c[a]))
<1> DEFINE R == Dependencies(c[a])
<1>1. ASSUME NEW S \in SUBSET Universe, R \subseteq S, Closed(S)  PROVE c[b] \in S
  <2> DEFINE K == {k \in Nat : a + k <= n => c[a + k] \in S}
  <2>1. 1 \in K
    <3>1. ASSUME a + 1 <= n  PROVE c[a + 1] \in S
      <4>1. a \in 1 .. n - 1
        BY <3>1
      <4>. QED  BY <1>1, <4>1
    <3>. QED  BY <3>1
  <2>2. ASSUME NEW k \in 1 .. b - a - 1, k \in K  PROVE k + 1 \in K
    <3>1. a + k \in 1 .. n - 1 /\ a + k + 1 = a + (k + 1)
      BY <2>2
    <3>2. c[a + k] \in S
      BY <2>2, <3>1
    <3>3. c[a + k + 1] \in Dependencies(c[a + k])
      BY <3>1
    <3>4. c[a + k + 1] \in S
      BY <1>1, <3>2, <3>3 DEF Closed
    <3>. QED  BY <3>1, <3>4
  <2>. HIDE DEF K
  <2>3. b - a \in Nat /\ b - a \in 1 .. b - a
    OBVIOUS
  <2>4. 1 .. b - a \subseteq K
    BY <2>1, <2>2, <2>3, UpToInduction
  <2>5. b - a \in K /\ a + (b - a) = b /\ b <= n
    BY <2>3, <2>4
  <2>. QED  BY <2>5 DEF K
<1>2. c[b] \in Universe
  <2>1. b - 1 \in 1 .. n - 1 /\ b - 1 + 1 = b
    OBVIOUS
  <2>2. c[b] \in Dependencies(c[b - 1]) /\ c[b - 1] \in DOMAIN files
    BY <2>1
  <2>. QED  BY <2>2 DEF Universe
<1>. QED
  BY <1>1, <1>2 DEF Closure

(* The stack overflows with more frames than there are files: a file is on *)
(* it twice.                                                               *)
LEMMA OverflowIsCycle ==
  ASSUME DepthSuffices, LoaderInv, LoaderReach, LoaderChain
  PROVE  OverflowNeedsCycle
<1>. SUFFICES ASSUME worker = "overflow"
              PROVE  \E p \in Required : p \in Closure(Dependencies(p))
  BY DEF OverflowNeedsCycle
<1> DEFINE n == MaxDepth + 1
           c == [k \in 1 .. n |-> IF k = n THEN Path ELSE frames[k].path]
<1>1. /\ Len(frames) = MaxDepth /\ MaxDepth \in Nat /\ n \in Nat
      /\ Path \in DOMAIN files /\ files \in FileSystems
  BY LoaderFacts, LoaderBoundAssumption DEF LoaderChain
<1>2. \A k \in 1 .. MaxDepth : frames[k].path \in DOMAIN files /\ frames[k].path \in Required
  BY <1>1, StackFacts DEF Frame, LoaderReach
<1>3. c \in [1 .. n -> DOMAIN files]
  <2>. SUFFICES ASSUME NEW k \in 1 .. n, k # n PROVE k \in 1 .. MaxDepth
    BY <1>1, <1>2
  <2>. QED  BY <1>1
<1>4. ASSUME NEW k \in 1 .. n - 1  PROVE c[k + 1] \in Dependencies(c[k])
  <2>1. k \in 1 .. Len(frames) /\ k # n /\ k \in 1 .. n /\ k + 1 \in 1 .. n
    BY <1>1
  <2>2. c[k] = frames[k].path /\ c[k + 1] = IF k + 1 = n THEN Path ELSE frames[k + 1].path
    BY <2>1
  <2>3. CASE k + 1 = n
    <3>1. k = Len(frames) /\ frames # <<>>
      BY <1>1, <2>1, <2>3, EmptySeq
    <3>. QED  BY <2>2, <2>3, <3>1 DEF LoaderChain, Top
  <2>4. CASE k + 1 # n
    <3>1. k + 1 \in 1 .. Len(frames)
      BY <1>1, <2>1, <2>4
    <3>. QED  BY <2>1, <2>2, <2>4, <3>1 DEF LoaderChain
  <2>. QED  BY <2>3, <2>4
<1>5. \A k \in 1 .. n : c[k] \in Required
  <2>1. Path \in Required
    BY StackFacts DEF LoaderReach
  <2>2. \A k \in 1 .. n : k # n => k \in 1 .. MaxDepth
    BY <1>1
  <2>. QED  BY <1>2, <2>1, <2>2
<1>6. /\ IsFiniteSet(1 .. n) /\ Cardinality(1 .. n) = n
      /\ IsFiniteSet(DOMAIN files) /\ Cardinality(DOMAIN files) < n
  <2>1. IsFiniteSet(1 .. n) /\ Cardinality(1 .. n) = n
    BY <1>1, FS_Interval
  <2>2. IsFiniteSet(DOMAIN files) /\ Cardinality(DOMAIN files) <= MaxDepth
    BY <1>1 DEF DepthSuffices
  <2>3. Cardinality(DOMAIN files) \in Nat
    BY <2>2, FS_CardinalityType
  <2>. QED  BY <1>1, <2>1, <2>2, <2>3
<1>. HIDE DEF c, n
<1>7. PICK x, y \in 1 .. n : x # y /\ c[x] = c[y]
  BY <1>3, <1>6, FS_PigeonHole
<1>8. PICK a, b \in 1 .. n : a < b /\ c[a] = c[b]
  <2>1. x < y \/ y < x
    BY <1>1, <1>7
  <2>. QED  BY <1>7, <2>1
<1>9. c[b] \in Closure(Dependencies(c[a]))
  BY <1>1, <1>3, <1>4, <1>8, ChainReaches
<1>. QED
  BY <1>5, <1>8, <1>9

(* Where the stack has room for every library once, it overflows only for  *)
(* libraries that need themselves, directly or not.                        *)
THEOREM LoaderOverflows ==
  LoaderSpec => [](DepthSuffices => OverflowNeedsCycle)
<1>1. LoaderReach /\ LoaderChain /\ UNCHANGED loader => LoaderReach' /\ LoaderChain'
  <2>. SUFFICES ASSUME LoaderReach, LoaderChain, UNCHANGED loader
                PROVE  LoaderReach' /\ LoaderChain'
    OBVIOUS
  <2>1. UNCHANGED <<files, frames, P_list, worker>>
    BY DEF loader
  <2>2. /\ Required' = Required /\ (\A p : Dependencies(p)' = Dependencies(p))
        /\ Listed' = Listed /\ Path' = Path /\ Top' = Top
    BY <2>1, RequiredFixed DEF Listed, Path, Top
  <2>3. LoaderReach'
    BY <2>1, <2>2 DEF LoaderReach
  <2>4. LoaderChain'
    BY <2>1, <2>2 DEF LoaderChain
  <2>. QED  BY <2>3, <2>4
<1>2. LoaderInit => LoaderInv /\ LoaderReach /\ LoaderChain
  BY LoaderInvInit, LoaderReachInit, LoaderChainInit
<1>3. LoaderInv /\ LoaderReach /\ LoaderChain /\ LoaderNext => LoaderReach' /\ LoaderChain'
  BY LoaderReachStep, LoaderChainStep
<1>4. LoaderInv /\ LoaderReach /\ LoaderChain => (DepthSuffices => OverflowNeedsCycle)
  BY OverflowIsCycle
<1>. QED
  BY <1>1, <1>2, <1>3, <1>4, LoaderInvariant, PTL DEF LoaderSpec

----------------------------------------------------------------------------
(* Crashes.  A frame whose syminfo points nowhere is of a file whose last  *)
(* function was not named.                                                 *)

LoaderCause ==
  /\ \A k \in 1 .. Len(frames) :
       frames[k].syminfo > 0 \/ ~LastIsNamed(files[frames[k].path])
  /\ CrashNeedsCause

LEMMA SyminfoOfFile ==
  ASSUME LoaderInv, worker = "LoadSymbols",
         S_list' = S_list \o Named(files[m_mapping], Len(files[m_mapping].functions)),
         LastIsNamed(files[m_mapping])
  PROVE  LastSyminfo(files[m_mapping], Len(S_list')) > 0
<1> DEFINE names == Named(files[m_mapping], Len(files[m_mapping].functions))
<1>1. m_mapping \in DOMAIN files /\ files \in FileSystems
  BY LoaderFacts DEF LoaderInv, LoaderControl
<1>2. names \in Seq(STRING) /\ names # <<>>
  BY <1>1, FileFacts
<1>3. S_list \in Seq(STRING) /\ S_list' = S_list \o names
  BY LoaderFacts
<1>. HIDE DEF names
<1>4. Len(names) \in Nat \ {0} /\ Len(S_list) \in Nat /\ Len(S_list') = Len(S_list) + Len(names)
  BY <1>2, <1>3, EmptySeq, LenProperties
<1>. QED
  BY <1>4 DEF LastSyminfo, LastIsNamed

(* Where the clean-up of LoadSymbols crashes, its syminfo points nowhere.  *)
LEMMA CrashOfCleanUp ==
  ASSUME NEW syminfo \in Int, NEW stack, DynFailed(syminfo, stack), worker' = "crashed"
  PROVE  ~(syminfo > 0)
<1>1. ASSUME syminfo > 0  PROVE FALSE
  <2>1. syminfo # NullPtr /\ syminfo # GarbagePtr
    BY <1>1 DEF NullPtr, GarbagePtr
  <2>2. ReturnTo(stack)
    BY <2>1, Zenon DEF DynFailed
  <2>. QED  BY <2>2 DEF ReturnTo
<1>. QED
  BY <1>1

LEMMA LoaderCauseStep ==
  ASSUME LoaderInv, LoaderReach, LoaderCause, LoaderNext
  PROVE  LoaderCause'
<1>1. UNCHANGED files /\ Listed \subseteq Listed'
  BY LoaderInvStep, ListedGrows
<1>2. worker # "crashed"
  BY DEF LoaderNext, StartLoader, OpenElf, OpenFileFails, LoadSymbols, LoadSymbolsFails,
     StackOverflow, ScanFails, ParseDynamic, ParseDynamicReturns, ParseDynamicFails,
     PathOverruns
<1>3. CASE StartLoader \/ OpenElf \/ OpenFileFails \/ LoadSymbolsFails \/ StackOverflow
  <2>1. UNCHANGED frames /\ worker' # "crashed"
    BY <1>3, Zenon DEF StartLoader, OpenElf, OpenFileFails, LoadSymbolsFails, StackOverflow, ReturnTo
  <2>. QED  BY <1>1, <2>1 DEF LoaderCause, CrashNeedsCause
<1>4. CASE LoadSymbols
  <2>1. /\ worker = "LoadSymbols" /\ worker' = "ParseDynamic"
        /\ S_list' = S_list \o Named(files[m_mapping], Len(files[m_mapping].functions))
    BY <1>4 DEF LoadSymbols
  <2>2. /\ Len(frames') = Len(frames) + 1 /\ Len(frames) \in Nat
        /\ \A k \in 1 .. Len(frames) : frames'[k] = frames[k]
        /\ frames'[Len(frames')].path = m_mapping
        /\ frames'[Len(frames')].syminfo = LastSyminfo(files[m_mapping], Len(S_list'))
    BY <1>4, PushFrame
  <2>3. ASSUME NEW k \in 1 .. Len(frames')
        PROVE  frames'[k].syminfo > 0 \/ ~LastIsNamed(files[frames'[k].path])
    <3>1. CASE k = Len(frames')
      BY <2>1, <2>2, <3>1, SyminfoOfFile
    <3>2. CASE k # Len(frames')
      <4>1. k \in 1 .. Len(frames)
        BY <2>2, <3>2
      <4>. QED  BY <2>2, <4>1 DEF LoaderCause
    <3>. QED  BY <3>1, <3>2
  <2>. QED  BY <1>1, <2>1, <2>3 DEF LoaderCause, CrashNeedsCause
<1>5. CASE ScanFails
  <2>1. /\ worker = "LoadSymbols" /\ UNCHANGED <<frames, P_list>>
        /\ S_list' = S_list \o Named(files[m_mapping], Len(files[m_mapping].functions))
        /\ DynFailed(LastSyminfo(files[m_mapping], Len(S_list')), frames)
        /\ allocFailures' = allocFailures + 1
    BY <1>5 DEF ScanFails, Allocate
  <2>2. /\ m_mapping \in Listed /\ m_mapping \in DOMAIN files
        /\ allocFailures \in Nat
    BY <2>1, StackFacts, LoaderFacts, LoaderBoundAssumption DEF LoaderInv, LoaderControl
  <2>3. LastSyminfo(files[m_mapping], Len(S_list')) \in Int
    <3>1. S_list' \in Seq(STRING)
      BY <2>1, StackFacts, NamedOfMapping, FileFacts, LoaderFacts, <2>2
    <3>. QED  BY <3>1, SyminfoBound, LenProperties
  <2>4. ASSUME worker' = "crashed"  PROVE ~LastIsNamed(files[m_mapping])
    BY <2>1, <2>3, <2>4, CrashOfCleanUp, SyminfoOfFile
  <2>. QED  BY <1>1, <2>1, <2>2, <2>4 DEF LoaderCause, CrashNeedsCause
<1>6. CASE ParseDynamic
  <2>1. worker = "ParseDynamic" /\ More /\ frames' = [frames EXCEPT ![Len(frames)].next = @ + 1]
    BY <1>6 DEF ParseDynamic
  <2>2. /\ Len(frames') = Len(frames)
        /\ \A k \in 1 .. Len(frames) :
             frames'[k].path = frames[k].path /\ frames'[k].syminfo = frames[k].syminfo
    BY <2>1, NextLibrary
  <2>3. worker' \in {worker, "OpenFile"}
    BY <1>6 DEF ParseDynamic
  <2>. QED  BY <1>1, <1>2, <2>2, <2>3 DEF LoaderCause, CrashNeedsCause
<1>7. CASE ParseDynamicReturns \/ ParseDynamicFails
  <2>1. worker = "ParseDynamic" /\ frames' = Front(frames)
    BY <1>7 DEF ParseDynamicReturns, ParseDynamicFails
  <2>2. /\ Len(frames') = Len(frames) - 1 /\ Len(frames) \in Nat \ {0}
        /\ \A k \in 1 .. Len(frames) - 1 : frames'[k] = frames[k]
    BY <2>1, FrontElements, NextLibrary, StackFacts DEF LoaderInv, LoaderControl
  <2>3. \A k \in 1 .. Len(frames') :
          frames'[k].syminfo > 0 \/ ~LastIsNamed(files[frames'[k].path])
    BY <2>2 DEF LoaderCause
  <2>4. Len(frames) \in 1 .. Len(frames)
    BY <2>2
  <2>5. Top.path \in Listed /\ Top.path \in DOMAIN files /\ Top.syminfo \in Int
    BY <2>1, <2>4, NextLibrary DEF LoaderReach, Top
  <2>6. ASSUME worker' = "crashed"
        PROVE  ~LastIsNamed(files[Top.path]) /\ allocFailures' > 0
    <3>1. ~ParseDynamicReturns
      BY <2>6, Zenon DEF ParseDynamicReturns, ReturnTo
    <3>2. DynFailed(Top.syminfo, frames') /\ allocFailures' = allocFailures + 1
      BY <1>7, <3>1 DEF ParseDynamicFails, Allocate
    <3>3. ~(Top.syminfo > 0)
      BY <2>5, <2>6, <3>2, CrashOfCleanUp
    <3>4. Top.syminfo > 0 \/ ~LastIsNamed(files[Top.path])
      BY <2>4 DEF LoaderCause, Top
    <3>5. allocFailures \in Nat
      BY LoaderFacts, LoaderBoundAssumption
    <3>. QED  BY <3>2, <3>3, <3>4, <3>5
  <2>. QED  BY <1>1, <2>3, <2>5, <2>6 DEF LoaderCause, CrashNeedsCause
<1>8. CASE PathOverruns
  <2>1. worker = "ParseDynamic" /\ More /\ HasLibPath(files[Top.path]) /\ UNCHANGED frames
    BY <1>8 DEF PathOverruns
  <2>2. Len(frames) \in 1 .. Len(frames) /\ Top \in Frame /\ Top.path \in DOMAIN files
    BY <2>1, NextLibrary
  <2>3. Top.path \in Listed
    BY <2>2 DEF LoaderReach, Top
  <2>4. SharedLibs(files[Top.path]) # <<>>
    <3>1. Top.next \in Nat \ {0}
      BY <2>2 DEF Frame
    <3>2. Len(SharedLibs(files[Top.path])) # 0
      <4>1. SharedLibs(files[Top.path]) \in Seq(STRING)
        BY <2>2, LoaderFacts, FileFacts
      <4>. QED  BY <2>1, <3>1, <4>1, LenProperties DEF More
    <3>. QED  BY <3>2, EmptySeq
  <2>. QED  BY <1>1, <2>1, <2>2, <2>3, <2>4 DEF LoaderCause, CrashNeedsCause
<1>. QED
  BY <1>3, <1>4, <1>5, <1>6, <1>7, <1>8 DEF LoaderNext

(* The thread crashes only behind a file that gives a path for its         *)
(* libraries, or, when memory has run out, one whose last function was not *)
(* named: no frame ever frees through the syminfo of another file.         *)
THEOREM LoaderCrashes == LoaderSpec => []CrashNeedsCause
<1>1. LoaderInit => LoaderInv /\ LoaderReach /\ LoaderCause
  <2>1. LoaderInit => Len(frames) = 0 /\ worker = "none"
    BY EmptySeq DEF LoaderInit
  <2>2. LoaderInit => LoaderCause
    BY <2>1 DEF LoaderCause, CrashNeedsCause
  <2>. QED  BY <2>2, LoaderInvInit, LoaderReachInit
<1>2. LoaderReach /\ LoaderCause /\ UNCHANGED loader => LoaderReach' /\ LoaderCause'
  <2>. SUFFICES ASSUME LoaderReach, LoaderCause, UNCHANGED loader
                PROVE  LoaderReach' /\ LoaderCause'
    OBVIOUS
  <2>1. UNCHANGED <<files, frames, P_list, worker, allocFailures>>
    BY DEF loader
  <2>2. Required' = Required /\ Listed' = Listed
    BY <2>1, RequiredFixed DEF Listed
  <2>. QED  BY <2>1, <2>2 DEF LoaderReach, LoaderCause, CrashNeedsCause
<1>3. LoaderInv /\ LoaderReach /\ LoaderCause /\ LoaderNext => LoaderReach' /\ LoaderCause'
  BY LoaderReachStep, LoaderCauseStep
<1>4. LoaderCause => CrashNeedsCause
  BY DEF LoaderCause
<1>. QED
  BY <1>1, <1>2, <1>3, <1>4, LoaderInvariant, PTL DEF LoaderSpec
=============================================================================
