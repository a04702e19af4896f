---------------------------- MODULE LineSession ----------------------------
(***************************************************************************)
(* The commands that need the line table, "breakl", "select" and "list",   *)
(* beside those of DebugSession.  Every step of LineSession is a step of   *)
(* DebugSession or leaves its variables alone.                             *)
(***************************************************************************)
EXTENDS DebugSession, LineTable

CONSTANTS Units,         \* the line programs of the file, one per unit
          LoadBias,      \* what a process address exceeds a file address by
          FirstMapping,  \* the number the process's memory map starts with
          FirstDigits,   \* and how many hexadecimal digits it has
          Garbage,       \* values an uninitialised int may have
          Selected,      \* the units the user selects
          Asked          \* the lines the user asks for

ASSUME NumberAssumption ==
  /\ Garbage \subseteq Int /\ Selected \subseteq Int /\ Asked \subseteq Int
  /\ LoadBias \in Int /\ FirstMapping \in Int /\ FirstDigits \in Nat

VARIABLES table,    \* D_lines
          dwarf,    \* Debug::b_dwarf_state
          unit      \* default_compilation_unit of MainLoop

lines == <<table, dwarf, unit>>

(* Main::GetBaseAddress reads sixteen characters and gives up at the first *)
(* that is not alphanumeric, such as the dash behind a shorter number.     *)
GetBaseAddress == IF FirstDigits >= 16 THEN FirstMapping ELSE 0

(* It is stored in m_base_addr, an int.                                    *)
BaseAddress == ((GetBaseAddress + IntLimit) % (2 * IntLimit)) - IntLimit

Loaded == InitDebugLines(Units, BaseAddress)

(* An int numbers the units.  The addresses of the rows are among those    *)
(* DebugSession allows, and the text does not reach the last address.      *)
ASSUME UnitAssumption ==
  /\ Units \in Seq(Seq([line : Number, address : Nat])) /\ Len(Units) <= IntLimit
  /\ \A u \in DOMAIN Units : \A i \in DOMAIN Units[u] :
       (BaseAddress + Units[u][i].address) % 2 ^ AddressBits \in Targets
ASSUME TextAssumption == NotFound \notin Addr

LineTypeOK ==
  /\ table \in Seq(LineinfoType)
  /\ dwarf \in BOOLEAN
  /\ unit \in Selected \cup {0}

(* Debugger() joins the thread of InitDebugLines before MainLoop begins.   *)
(* When the file has no line information the table stays empty.            *)
LineInit ==
  /\ Init
  /\ dwarf \in BOOLEAN
  /\ table = IF dwarf THEN Loaded ELSE <<>>
  /\ unit = 0

(* Mutant: units are counted from one.                                     *)
SelectFromOne(u) ==
  /\ pc = "MainLoop" /\ running /\ dwarf
  /\ unit' = u - 1
  /\ UNCHANGED <<table, dwarf, vars>>

(* "select": the number is checked behind the assignment, or not at all.   *)
Select(u) ==
  /\ pc = "MainLoop" /\ running /\ dwarf
  /\ unit' = u
  /\ UNCHANGED <<table, dwarf, vars>>

(* "breakl", for one line of the command.  The test for a negative address *)
(* never holds of an unsigned number, so a line that is not found becomes  *)
(* the address NotFound.                                                   *)
BreakLine(l) ==
  /\ pc = "MainLoop" /\ running /\ dwarf
  /\ \E garbage \in Garbage :
       PlaceBreakpoint(GetAddressByLine(table, unit, l, garbage))
  /\ UNCHANGED lines

LineNext ==
  \/ Next /\ UNCHANGED lines
  \/ \E u \in Selected : Select(u)
  \/ \E l \in Asked : BreakLine(l)

LineSpec == LineInit /\ [][LineNext]_<<vars, lines>>

----------------------------------------------------------------------------
(* The search of GetAddressByLine, whose bounds come from a variable that  *)
(* is not initialised and from a unit number that may be out of range, has *)
(* an answer for exactly the lines that are in the table.                  *)
LinesFound ==
  \A u \in Selected \cup {unit}, l \in Asked, garbage \in Garbage :
    GetAddressByLine(table, u, l, garbage) = FirstAddress(table, u, l)

(* Every line of the file is found: the search among the records of all    *)
(* units, with its bounds and its uninitialised minimum, answers with an   *)
(* address that the file gives for this line of this unit.                 *)
FileLinesFound ==
  dwarf =>
    \A u \in DOMAIN Units, garbage \in Garbage : \A r \in DOMAIN Units[u] :
      \E k \in DOMAIN Units[u] :
        /\ Units[u][k].line = Units[u][r].line
        /\ GetAddressByLine(table, u - 1, Units[u][r].line, garbage)
             = (BaseAddress + Units[u][k].address) % 2 ^ AddressBits

(* "breakl" adds a breakpoint of the selected unit and the asked line, or  *)
(* none: a line that is not found and a unit that select refused in words  *)
(* only do not put an int3 anywhere in the process.                        *)
LinePlacesLine ==
  [][\A l \in Asked :
       BreakLine(l) => \/ UNCHANGED <<mem, li>>
                       \/ /\ Matches(table, unit, l) # {}
                          /\ \E r \in Matches(table, unit, l) :
                               li'[Len(li')].address = table[r].address]_<<vars, lines>>

(* dwarf.h:11 "each of these represent a line and its corresponding        *)
(* address": the address is where the process has the line.                *)
LinesAreInProcess ==
  \A i \in DOMAIN table :
    \E u \in DOMAIN Units :
      \E r \in DOMAIN Units[u] :
        /\ table[i].line = Units[u][r].line /\ table[i].unit = u - 1
        /\ table[i].address = LoadBias + Units[u][r].address

(* The sums of ParseLines do not wrap around.                              *)
AddressesFit ==
  \A u \in DOMAIN Units : \A r \in DOMAIN Units[u] :
    BaseAddress + Units[u][r].address \in AddressRange
=============================================================================
