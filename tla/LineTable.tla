----------------------------- MODULE LineTable -----------------------------
(***************************************************************************)
(* The line table (src/src/dwarf.cpp, class DebugLineInfo): D_lines, a     *)
(* vector of records, here a sequence.  Compilation units are numbered     *)
(* from zero in the order in which they are loaded.  The operators are     *)
(* functions of the table d; the table is a variable of LineSession.       *)
(***************************************************************************)
EXTENDS Integers, Sequences, SequencesExt

CONSTANTS AddressBits,   \* width of uint64_t
          IntLimit       \* an int is in -IntLimit .. IntLimit - 1

(* The provers know no powers: the second conjunct follows from the first. *)
ASSUME WidthAssumption ==
  AddressBits \in Nat /\ 2 ^ AddressBits \in Nat \ {0} /\ IntLimit \in Nat \ {0}

AddressRange == 0 .. 2 ^ AddressBits - 1
Number       == 0 .. IntLimit - 1

(* class Lineinfo                                                          *)
LineinfoType == [unit : Number, line : Number, address : AddressRange]

(* The -1 that GetAddressByLine returns, as an uint64_t.                   *)
NotFound == 2 ^ AddressBits - 1

(* Main::InitDebugLines, with ParseLines for every unit: the records of a  *)
(* unit, in the order in which libelfin yields them, get its number, and   *)
(* the base address is added to what the file says.                        *)
ParseLines(rows, base, u) ==
  [i \in DOMAIN rows |-> [unit |-> u, line |-> rows[i].line,
                          address |-> (base + rows[i].address) % 2 ^ AddressBits]]

(* Mutant: units are numbered from one.                                    *)
InitDebugLinesFromOne(units, base) ==
  FlattenSeq([u \in DOMAIN units |-> ParseLines(units[u], base, u)])

InitDebugLines(units, base) ==
  FlattenSeq([u \in DOMAIN units |-> ParseLines(units[u], base, u - 1)])

----------------------------------------------------------------------------
(* The name promises a count; it is the greatest number.                   *)
GetNoOfCompilationUnits(d) == Max({0} \cup {d[i].unit : i \in DOMAIN d})

LinesOf(d, u) == {d[i].line : i \in {j \in DOMAIN d : d[j].unit = u}}

GetMaxLineNumber(d, u) ==
  IF u > GetNoOfCompilationUnits(d) THEN -1 ELSE Max({0} \cup LinesOf(d, u))

(* prev_min is not initialised: garbage is the value it happens to have.   *)
GetMinLineNumber(d, u, garbage) ==
  IF u > GetNoOfCompilationUnits(d) THEN -1 ELSE Min({garbage} \cup LinesOf(d, u))

Matches(d, u, l) == {i \in DOMAIN d : d[i].unit = u /\ d[i].line = l}

(* Mutants: the unit number is checked as an index into a count; a line    *)
(* that is not found has the address zero.                                 *)
GetAddressByLineCounted(d, u, l, garbage) ==
  IF \/ u >= GetNoOfCompilationUnits(d)
     \/ l > GetMaxLineNumber(d, u)
     \/ l < GetMinLineNumber(d, u, garbage)
     \/ Matches(d, u, l) = {}
  THEN NotFound
  ELSE d[Min(Matches(d, u, l))].address

GetAddressByLineZero(d, u, l, garbage) ==
  IF Matches(d, u, l) = {} THEN 0 ELSE d[Min(Matches(d, u, l))].address

GetAddressByLine(d, u, l, garbage) ==
  IF \/ u > GetNoOfCompilationUnits(d)
     \/ l > GetMaxLineNumber(d, u)
     \/ l < GetMinLineNumber(d, u, garbage)
     \/ Matches(d, u, l) = {}
  THEN NotFound
  ELSE d[Min(Matches(d, u, l))].address

(* What the search is for: the address of the first record of the line, if *)
(* there is one.                                                           *)
FirstAddress(d, u, l) ==
  IF \E i \in DOMAIN d : d[i].unit = u /\ d[i].line = l
  THEN LET first == CHOOSE i \in DOMAIN d :
                      /\ d[i].unit = u /\ d[i].line = l
                      /\ \A j \in DOMAIN d : d[j].unit = u /\ d[j].line = l => i <= j
       IN d[first].address
  ELSE NotFound
=============================================================================
