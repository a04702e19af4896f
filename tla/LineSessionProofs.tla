------------------------- MODULE LineSessionProofs -------------------------
(***************************************************************************)
(* Theorems about LineSession for every value of the constants.            *)
(***************************************************************************)
EXTENDS LineSession, LineTableProofs, HazardProofs

----------------------------------------------------------------------------
(* What the units give is a table of records that the session may place    *)
(* breakpoints at.                                                         *)

ComesFrom(r, u) ==
  /\ r.unit = u - 1
  /\ \E k \in DOMAIN Units[u] :
       /\ r.line = Units[u][k].line
       /\ r.address = (BaseAddress + Units[u][k].address) % 2 ^ AddressBits

UnitRow ==
  {r \in LineinfoType : r.address \in Targets /\ \E u \in DOMAIN Units : ComesFrom(r, u)}

LEMMA UnitsCounted == Len(Units) \in Nat /\ DOMAIN Units = 1 .. Len(Units)
BY UnitAssumption, LenProperties

LEMMA AddressWraps ==
  ASSUME NEW a \in Int
  PROVE  a % 2 ^ AddressBits \in AddressRange
<1> DEFINE K == 2 ^ AddressBits
<1>1. K \in Nat /\ K > 0
  BY WidthAssumption
<1>. HIDE DEF K
<1>2. a % K \in 0 .. K - 1
  BY <1>1
<1>. QED
  BY <1>2 DEF K, AddressRange

(* m_base_addr holds what GetBaseAddress returns when that is an int, such *)
(* as the zero for an address of less than sixteen digits.                 *)
LEMMA BaseIsInt ==
  /\ BaseAddress \in -IntLimit .. IntLimit - 1
  /\ GetBaseAddress \in -IntLimit .. IntLimit - 1 => BaseAddress = GetBaseAddress
<1> DEFINE K == 2 * IntLimit
           x == GetBaseAddress + IntLimit
<1>1. K \in Nat /\ K > 0 /\ x \in Int /\ IntLimit \in Nat \ {0} /\ GetBaseAddress \in Int
  BY WidthAssumption, NumberAssumption DEF GetBaseAddress
<1>2. GetBaseAddress \in -IntLimit .. IntLimit - 1 => x \in 0 .. K - 1
  BY <1>1
<1>3. /\ BaseAddress = (x % K) - IntLimit
      /\ x = GetBaseAddress + IntLimit /\ K = IntLimit + IntLimit
  BY <1>1 DEF BaseAddress
<1>. HIDE DEF K, x
<1>4. x % K \in 0 .. K - 1 /\ (x \in 0 .. K - 1 => x % K = x)
  BY <1>1
<1>5. BaseAddress \in -IntLimit .. IntLimit - 1
  BY <1>1, <1>3, <1>4
<1>6. GetBaseAddress \in -IntLimit .. IntLimit - 1 => BaseAddress = GetBaseAddress
  BY <1>1, <1>2, <1>3, <1>4
<1>. QED
  BY <1>5, <1>6

LEMMA UnitRows ==
  ASSUME NEW u \in DOMAIN Units
  PROVE  ParseLines(Units[u], BaseAddress, u - 1) \in Seq(UnitRow)
<1> DEFINE rows == Units[u]
<1>1. u \in 1 .. Len(Units) /\ u - 1 \in Number
  BY UnitsCounted, UnitAssumption, WidthAssumption DEF Number
<1>2. rows \in Seq([line : Number, address : Nat])
  BY <1>1, UnitAssumption, ElementOfSeq
<1>3. BaseAddress \in Int
  BY BaseIsInt
<1>4. \A i \in DOMAIN rows : (BaseAddress + rows[i].address) % 2 ^ AddressBits \in Targets
  BY UnitAssumption
<1>. HIDE DEF rows
<1>5. Len(rows) \in Nat /\ DOMAIN rows = 1 .. Len(rows)
  BY <1>2, LenProperties
<1>6. ASSUME NEW i \in 1 .. Len(rows)
      PROVE  [unit |-> u - 1, line |-> rows[i].line,
              address |-> (BaseAddress + rows[i].address) % 2 ^ AddressBits] \in UnitRow
  <2>1. rows[i] \in [line : Number, address : Nat]
    BY <1>2, ElementOfSeq
  <2>2. BaseAddress + rows[i].address \in Int
    BY <1>3, <2>1
  <2> DEFINE a == (BaseAddress + rows[i].address) % 2 ^ AddressBits
             r == [unit |-> u - 1, line |-> rows[i].line, address |-> a]
  <2>3. a \in AddressRange /\ a \in Targets
    BY <1>4, <1>5, <2>2, AddressWraps
  <2>4. ComesFrom(r, u)
    BY <1>5 DEF ComesFrom, rows
  <2>. HIDE DEF a
  <2>5. r \in LineinfoType /\ r.address = a
    BY <1>1, <2>1, <2>3 DEF LineinfoType
  <2>. QED  BY <2>3, <2>4, <2>5 DEF UnitRow, a
<1>7. [i \in 1 .. Len(rows) |-> [unit |-> u - 1, line |-> rows[i].line,
         address |-> (BaseAddress + rows[i].address) % 2 ^ AddressBits]] \in Seq(UnitRow)
  BY <1>5, <1>6, IsASeq
<1>. QED
  BY <1>5, <1>7 DEF ParseLines, rows

LEMMA LoadedRows == Loaded \in Seq(UnitRow)
<1> DEFINE parsed == [u \in DOMAIN Units |-> ParseLines(Units[u], BaseAddress, u - 1)]
<1>1. parsed \in Seq(Seq(UnitRow))
  BY UnitsCounted, UnitRows, IsASeq
<1>. HIDE DEF parsed
<1>2. FlattenSeq(parsed) \in Seq(UnitRow)
  BY <1>1, FlattenType
<1>. QED
  BY <1>2 DEF Loaded, InitDebugLines, parsed

LEMMA RowsTyped ==
  ASSUME NEW t \in Seq(UnitRow)
  PROVE  t \in Seq(LineinfoType) /\ \A i \in DOMAIN t : t[i] \in UnitRow
<1>1. UnitRow \subseteq LineinfoType
  BY DEF UnitRow
<1>2. \A i \in DOMAIN t : t[i] \in UnitRow
  BY ElementOfSeq, LenProperties
<1>. QED
  BY <1>1, <1>2, SeqMonotonic

(* No record of a unit is left out of the table.                           *)
LEMMA EveryRowLoaded ==
  ASSUME NEW u \in DOMAIN Units, NEW r \in DOMAIN Units[u]
  PROVE  /\ Matches(Loaded, u - 1, Units[u][r].line) # {}
         /\ \E i \in DOMAIN Loaded :
              Loaded[i].address = (BaseAddress + Units[u][r].address) % 2 ^ AddressBits
<1> DEFINE parsed == [v \in DOMAIN Units |-> ParseLines(Units[v], BaseAddress, v - 1)]
<1>1. parsed \in Seq(Seq(UnitRow)) /\ u \in DOMAIN parsed
  BY UnitsCounted, UnitRows, IsASeq
<1>2. parsed[u] = ParseLines(Units[u], BaseAddress, u - 1)
  OBVIOUS
<1> DEFINE x == ParseLines(Units[u], BaseAddress, u - 1)[r]
<1>3. /\ x.unit = u - 1 /\ x.line = Units[u][r].line
      /\ x.address = (BaseAddress + Units[u][r].address) % 2 ^ AddressBits
  BY DEF ParseLines
<1>4. Occurs(x, parsed[u])
  BY <1>2 DEF Occurs, ParseLines
<1>. HIDE DEF parsed, x
<1>5. Occurs(x, FlattenSeq(parsed))
  BY <1>1, <1>4, FlattenOccurs
<1>6. PICK i \in DOMAIN Loaded : Loaded[i] = x
  BY <1>5 DEF Occurs, Loaded, InitDebugLines, parsed
<1>. QED
  BY <1>3, <1>6 DEF Matches

----------------------------------------------------------------------------
(* The table is loaded once, from the rows of the units; the addresses in  *)
(* it are those that the session may place breakpoints at.                 *)
LineInv ==
  /\ LineTypeOK
  /\ \A i \in DOMAIN table : table[i] \in UnitRow

LEMMA LineInvStep == LineInv /\ [LineNext]_<<vars, lines>> => LineInv'
<1>. SUFFICES ASSUME LineInv, [LineNext]_<<vars, lines>> PROVE LineInv'
  OBVIOUS
<1>1. table' = table /\ dwarf' = dwarf /\ unit' \in Selected \cup {unit}
  BY DEF LineNext, lines, Select, BreakLine
<1>. QED
  BY <1>1 DEF LineInv, LineTypeOK

LEMMA LineInvariant == LineSpec => []LineInv
<1>1. LineInit => LineInv
  <2>. SUFFICES ASSUME LineInit PROVE LineInv
    OBVIOUS
  <2>1. CASE table = Loaded
    BY <2>1, LoadedRows, RowsTyped DEF LineInit, LineInv, LineTypeOK
  <2>2. CASE table = <<>>
    <3>1. table \in Seq(LineinfoType) /\ Len(table) = 0
      BY <2>2, EmptySeq
    <3>2. DOMAIN table = {}
      BY <3>1, LenProperties
    <3>. QED  BY <3>1, <3>2 DEF LineInit, LineInv, LineTypeOK
  <2>. QED  BY <2>1, <2>2 DEF LineInit
<1>. QED
  BY <1>1, LineInvStep, PTL DEF LineSpec

(* The selected unit and the table keep their types.                       *)
THEOREM LineTypeCorrect == LineSpec => []LineTypeOK
<1>1. LineInv => LineTypeOK
  BY DEF LineInv
<1>. QED
  BY <1>1, LineInvariant, PTL

LEMMA LineInvFindsLines == LineInv => LinesFound
<1>. SUFFICES ASSUME LineInv, NEW u \in Selected \cup {unit}, NEW l \in Asked,
                     NEW garbage \in Garbage
              PROVE  GetAddressByLine(table, u, l, garbage) = FirstAddress(table, u, l)
  BY DEF LinesFound
<1>1. u \in Int /\ l \in Int /\ garbage \in Int /\ table \in Seq(LineinfoType)
  BY NumberAssumption DEF LineInv, LineTypeOK
<1>. QED
  BY <1>1, LookupIsFirst

(* breakl and select find the lines of the table, and no others.           *)
THEOREM LinesAreFound == LineSpec => []LinesFound
BY LineInvFindsLines, LineInvariant, PTL

LEMMA LoadedOnce == LineSpec => [](dwarf => table = Loaded)
<1>1. LineInit => (dwarf => table = Loaded)
  BY DEF LineInit
<1>2. (dwarf => table = Loaded) /\ [LineNext]_<<vars, lines>> => (dwarf => table = Loaded)'
  <2>1. [LineNext]_<<vars, lines>> => table' = table /\ dwarf' = dwarf
    BY DEF LineNext, lines, Select, BreakLine
  <2>. QED  BY <2>1 DEF Loaded
<1>. QED
  BY <1>1, <1>2, PTL DEF LineSpec

LEMMA LoadedFindsLines == LineInv /\ (dwarf => table = Loaded) => FileLinesFound
<1>. SUFFICES ASSUME LineInv, dwarf, table = Loaded, NEW u \in DOMAIN Units,
                     NEW garbage \in Garbage, NEW r \in DOMAIN Units[u]
              PROVE  \E k \in DOMAIN Units[u] :
                       /\ Units[u][k].line = Units[u][r].line
                       /\ GetAddressByLine(table, u - 1, Units[u][r].line, garbage)
                            = (BaseAddress + Units[u][k].address) % 2 ^ AddressBits
  BY DEF FileLinesFound
<1> DEFINE l == Units[u][r].line
<1>1. Matches(table, u - 1, l) # {}
  BY EveryRowLoaded
<1>. HIDE DEF l
<1>2. PICK i \in Matches(table, u - 1, l) :
        GetAddressByLine(table, u - 1, l, garbage) = table[i].address
  BY <1>1, MatchAnswers, NumberAssumption DEF LineInv, LineTypeOK
<1>3. i \in DOMAIN table /\ table[i].unit = u - 1 /\ table[i].line = l /\ table[i] \in UnitRow
  BY <1>2 DEF LineInv, Matches
<1>4. PICK v \in DOMAIN Units : ComesFrom(table[i], v)
  BY <1>3 DEF UnitRow
<1>5. v = u
  BY <1>3, <1>4, UnitsCounted DEF ComesFrom
<1>. QED
  BY <1>2, <1>3, <1>4, <1>5 DEF ComesFrom, l

(* Every line of the file is found, at an address the file gives for it.   *)
THEOREM FileLinesAreFound == LineSpec => []FileLinesFound
BY LoadedFindsLines, LineInvariant, LoadedOnce, PTL

LEMMA NoWrap ==
  ASSUME NEW a \in AddressRange
  PROVE  a % 2 ^ AddressBits = a
<1> DEFINE K == 2 ^ AddressBits
<1>1. K \in Nat /\ K > 0 /\ a \in 0 .. K - 1
  BY WidthAssumption DEF AddressRange
<1>. HIDE DEF K
<1>2. a % K = a
  BY <1>1
<1>. QED
  BY <1>2 DEF K

LEMMA TableLoaded == LineSpec => [](table = Loaded \/ table = <<>>)
<1>1. LineInit => table = Loaded \/ table = <<>>
  BY DEF LineInit
<1>2. (table = Loaded \/ table = <<>>) /\ [LineNext]_<<vars, lines>>
        => (table = Loaded \/ table = <<>>)'
  <2>1. [LineNext]_<<vars, lines>> => table' = table
    BY DEF LineNext, lines, Select, BreakLine
  <2>. QED  BY <2>1 DEF Loaded
<1>. QED
  BY <1>1, <1>2, PTL DEF LineSpec

LEMMA BaseMovesLines ==
  ASSUME LineInv, AddressesFit, BaseAddress = LoadBias
  PROVE  LinesAreInProcess
<1>. SUFFICES ASSUME NEW i \in DOMAIN table
              PROVE  \E u \in DOMAIN Units : \E r \in DOMAIN Units[u] :
                       /\ table[i].line = Units[u][r].line /\ table[i].unit = u - 1
                       /\ table[i].address = LoadBias + Units[u][r].address
  BY DEF LinesAreInProcess
<1>1. PICK u \in DOMAIN Units : ComesFrom(table[i], u)
  BY DEF LineInv, UnitRow
<1>2. PICK r \in DOMAIN Units[u] :
        /\ table[i].line = Units[u][r].line
        /\ table[i].address = (BaseAddress + Units[u][r].address) % 2 ^ AddressBits
  BY <1>1 DEF ComesFrom
<1>3. (BaseAddress + Units[u][r].address) % 2 ^ AddressBits = LoadBias + Units[u][r].address
  BY NoWrap DEF AddressesFit
<1>. QED  BY <1>1, <1>2, <1>3 DEF ComesFrom

(* A table that is displaced has an extreme address, and the record that   *)
(* has this address in the process gives the table one that is further out.*)
LEMMA DisplacedLines ==
  ASSUME LineInv, AddressesFit, table = Loaded, table # <<>>, LinesAreInProcess
  PROVE  BaseAddress = LoadBias
<1> DEFINE S == {table[i].address : i \in DOMAIN table}
           top == 2 ^ AddressBits - 1
           bottom == 0
<1>1. BaseAddress \in Int /\ LoadBias \in Int
  BY BaseIsInt, WidthAssumption, NumberAssumption
<1>2. table \in Seq(LineinfoType)
  BY DEF LineInv, LineTypeOK
<1>3. S # {}
  <2>1. Len(table) \in Nat /\ DOMAIN table = 1 .. Len(table) /\ Len(table) # 0
    BY <1>2, EmptySeq, LenProperties
  <2>2. 1 \in DOMAIN table
    BY <2>1
  <2>. QED  BY <2>2
<1>4. \A i \in DOMAIN table : table[i].address \in AddressRange
  BY DEF LineInv, UnitRow, LineinfoType
<1>5. /\ S \in SUBSET Int /\ top \in Int /\ bottom \in Int
      /\ \A x \in S : bottom <= x /\ x <= top
  BY <1>4, WidthAssumption DEF AddressRange
<1>6. ASSUME NEW x \in S  PROVE x + (BaseAddress - LoadBias) \in S
  <2>1. PICK i \in DOMAIN table : x = table[i].address
    BY <1>6
  <2>2. PICK u \in DOMAIN Units : \E r \in DOMAIN Units[u] : x = LoadBias + Units[u][r].address
    BY <2>1 DEF LinesAreInProcess
  <2>3. PICK r \in DOMAIN Units[u] : x = LoadBias + Units[u][r].address
    BY <2>2
  <2>4. PICK j \in DOMAIN table :
          table[j].address = (BaseAddress + Units[u][r].address) % 2 ^ AddressBits
    BY <2>3, EveryRowLoaded
  <2>5. table[j].address = BaseAddress + Units[u][r].address
    BY <2>4, NoWrap DEF AddressesFit
  <2>6. Units[u][r].address \in Int
    <3>1. Units[u] \in Seq([line : Number, address : Nat])
      BY UnitsCounted, UnitAssumption, ElementOfSeq
    <3>2. Units[u][r] \in [line : Number, address : Nat]
      BY <3>1, ElementOfSeq, LenProperties
    <3>. QED  BY <3>2
  <2>7. table[j].address = x + (BaseAddress - LoadBias)
    BY <1>1, <2>3, <2>5, <2>6
  <2>. QED  BY <2>7
<1>. HIDE DEF S, top, bottom
<1>7. Max(S) \in S /\ \A x \in S : x <= Max(S)
  BY <1>3, <1>5, MaxOfIntegers
<1>8. Min(S) \in S /\ \A x \in S : Min(S) <= x
  BY <1>3, <1>5, MinOfIntegers
<1>9. Max(S) \in Int /\ Max(S) + (BaseAddress - LoadBias) <= Max(S)
  BY <1>5, <1>6, <1>7
<1>10. Min(S) \in Int /\ Min(S) <= Min(S) + (BaseAddress - LoadBias)
  BY <1>5, <1>6, <1>8
<1>. QED
  BY <1>1, <1>9, <1>10

(* The table says where the process has the lines when m_base_addr, the    *)
(* int that ParseLines adds, is what the file was moved by, and only then; *)
(* with a memory map that starts with less than sixteen digits, as those   *)
(* of user addresses do, only for a file that was not moved.               *)
THEOREM LinesAreLocated ==
  LineSpec => [](AddressesFit /\ table # <<>> =>
                   /\ LinesAreInProcess <=> BaseAddress = LoadBias
                   /\ FirstDigits < 16 => (LinesAreInProcess <=> LoadBias = 0))
<1>1. LineInv /\ (table = Loaded \/ table = <<>>) =>
        (AddressesFit /\ table # <<>> =>
           /\ LinesAreInProcess <=> BaseAddress = LoadBias
           /\ FirstDigits < 16 => (LinesAreInProcess <=> LoadBias = 0))
  <2>1. FirstDigits < 16 => BaseAddress = 0
    <3>1. FirstDigits < 16 => GetBaseAddress = 0
      BY NumberAssumption DEF GetBaseAddress
    <3>2. 0 \in -IntLimit .. IntLimit - 1
      BY WidthAssumption
    <3>. QED  BY <3>1, <3>2, BaseIsInt
  <2>. QED  BY <2>1, BaseMovesLines, DisplacedLines
<1>. QED
  BY <1>1, LineInvariant, TableLoaded, PTL

(* A step of the line commands is a step of the session: "breakl" is       *)
(* "break" at an address of the table, or no change at all.                *)
LEMMA LineStep == LineInv /\ [LineNext]_<<vars, lines>> => [Next]_vars
<1>. SUFFICES ASSUME LineInv, [LineNext]_<<vars, lines>> PROVE [Next]_vars
  OBVIOUS
<1>1. ASSUME NEW l \in Asked, BreakLine(l)  PROVE [Next]_vars
  <2>1. PICK garbage \in Garbage :
          PlaceBreakpoint(GetAddressByLine(table, unit, l, garbage))
    BY <1>1 DEF BreakLine
  <2> DEFINE a == GetAddressByLine(table, unit, l, garbage)
  <2>2. pc = "MainLoop" /\ running /\ PlaceBreakpoint(a)
    BY <1>1, <2>1 DEF BreakLine
  <2>. HIDE DEF a
  <2>3. CASE a = NotFound
    <3>1. ~Mapped(a)
      BY <2>3, TextAssumption DEF Mapped
    <3>. QED  BY <2>2, <3>1 DEF PlaceBreakpoint
  <2>4. CASE a # NotFound
    <3>1. a \in Targets
      <4>1. \E r \in Matches(table, unit, l) : a = table[r].address
        BY <2>4, LookupAnswers DEF LineInv, LineTypeOK, a
      <4>. QED  BY <4>1 DEF LineInv, Matches, UnitRow
    <3>2. Break(a)
      BY <2>2 DEF Break
    <3>. QED  BY <3>1, <3>2 DEF Next, Command
  <2>. QED  BY <2>3, <2>4
<1>2. ASSUME NEW u \in Selected, Select(u)  PROVE [Next]_vars
  BY <1>2 DEF Select
<1>3. CASE UNCHANGED <<vars, lines>>
  BY <1>3
<1>. QED
  BY <1>1, <1>2, <1>3 DEF LineNext

(* The line commands add nothing to what the session can do.               *)
THEOREM LineSessionImplements == LineSpec => Spec
<1>1. LineInit => Init
  BY DEF LineInit
<1>. QED
  BY <1>1, LineStep, LineInvariant, PTL DEF LineSpec, Spec

LEMMA PlacedStep ==
  LineInv /\ TypeOK =>
    [\A l \in Asked :
       BreakLine(l) => \/ UNCHANGED <<mem, li>>
                       \/ /\ Matches(table, unit, l) # {}
                          /\ \E r \in Matches(table, unit, l) :
                               li'[Len(li')].address = table[r].address]_<<vars, lines>>
<1>1. ASSUME LineInv, TypeOK, NEW l \in Asked, BreakLine(l), ~UNCHANGED <<mem, li>>
      PROVE  \E r \in Matches(table, unit, l) : li'[Len(li')].address = table[r].address
  <2>1. PICK garbage \in Garbage :
          PlaceBreakpoint(GetAddressByLine(table, unit, l, garbage))
    BY <1>1 DEF BreakLine
  <2> DEFINE a == GetAddressByLine(table, unit, l, garbage)
  <2>2. Mapped(a) /\ li' = AppendElement(li, a, ReadWord(mem, a))
    BY <1>1, <2>1 DEF PlaceBreakpoint, vars, tracee
  <2>3. a # NotFound
    BY <2>2, TextAssumption DEF Mapped
  <2>4. PICK r \in Matches(table, unit, l) : a = table[r].address
    BY <1>1, <2>3, LookupAnswers DEF LineInv, LineTypeOK
  <2>5. li'[Len(li')].address = a
    BY <2>2, AppendProperties, LenProperties DEF AppendElement, TypeOK
  <2>. QED  BY <2>4, <2>5
<1>. QED
  BY <1>1

(* A breakpoint that breakl adds is at an address of the asked line.       *)
THEOREM LinesArePlaced == LineSpec => LinePlacesLine
BY PlacedStep, LineInvariant, LineSessionImplements, TypeCorrect, PTL DEF LinePlacesLine

(* What is proved of DebugSession holds with the line commands too.        *)
THEOREM LineSessionIsSafe ==
  LineSpec => /\ [](MemoryFaithful /\ FailedHasNoProcess /\ HitIsHandled /\ PromptQuiescent)
              /\ DisarmedByOwner /\ Transparent /\ HazardsHaveCause
              /\ ([]Careful /\ [][~Set]_vars => [](Clean /\ SavedIsOriginal /\ RestoresItsOwn))
              /\ (OnlyLastRemoved => []SelectedByItsNumber)
BY LineSessionImplements, TextIsFaithful, FailureMeansNoProcess, HitsAreHandled,
   PromptIsQuiescent, DisarmedOnlyByOwner, SessionIsTransparent, HazardsAreCaused,
   CarefulSessionsAreSafe, NumbersArePositions, PTL
=============================================================================
