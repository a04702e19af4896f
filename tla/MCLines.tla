------------------------------ MODULE MCLines ------------------------------
(***************************************************************************)
(* Line programs for TLC, over a program of two instructions, a push and   *)
(* an exit.                                                                *)
(*                                                                         *)
(* Two units that share a line number; the second has two records for one  *)
(* line, and ends, as line programs do, with a record behind its last      *)
(* instruction.                                                            *)
(*                                                                         *)
(* Pie is the same file linked at another address than it is loaded at.    *)
(* The text of the model starts at zero, so the bias is negative here.     *)
(***************************************************************************)
EXTENDS LineSession

TwoImage    == 0 :> 85 @@ 1 :> 16 @@ 2 :> 6
TwoInsnLen  == 0 :> 1 @@ 1 :> 2
TwoSucc     == 0 :> {1} @@ 1 :> {}
TwoSyscalls == {1}
TwoExits    == {1}

Row(l, a) == [line |-> l, address |-> a]

LineUnits == << <<Row(1, 0), Row(2, 1)>>, <<Row(2, 1), Row(2, 0), Row(4, 3)>> >>
LineTargets == {0, 1, 3}

PieUnits   == << <<Row(1, 16), Row(2, 17)>>, <<Row(2, 17), Row(2, 16), Row(4, 19)>> >>
PieTargets == {16, 17, 19}
PieBias    == -16

(* Before the first unit, a unit with no lines, and one out of range.      *)
SelectedUnits == {-1, 0, 1, 2}
AskedLines    == {0, 1, 2, 3, 4, 9}

(* Below every line, among them, and above every line.                     *)
GarbageValues == {-7, 2, 7}
=============================================================================
