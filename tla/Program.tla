------------------------------ MODULE Program ------------------------------
(***************************************************************************)
(* The debugged program as it would run with no debugger: the instructions *)
(* of its image follow one another along Succ until an exit or a kill.     *)
(* It is what DebugSession must not disturb: stopping, stepping, placing   *)
(* and deleting breakpoints are stutters of this specification.            *)
(* "derailed" is the escape for the listed hazards of the debugger, after  *)
(* which nothing is promised.                                              *)
(***************************************************************************)
CONSTANTS Succ, Exits, Entry

VARIABLES at,        \* the next instruction of the program to complete
          status,    \* "alive", "exited", "killed", "reaped"
          derailed   \* the debugger has disturbed the program

Init == at = Entry /\ status = "alive" /\ derailed = FALSE

Run ==
  /\ status = "alive" /\ at \notin Exits
  /\ at' \in Succ[at]
  /\ UNCHANGED <<status, derailed>>

Exit ==
  /\ status = "alive" /\ at \in Exits
  /\ status' = "exited"
  /\ UNCHANGED <<at, derailed>>

Killed ==
  /\ status = "alive"
  /\ status' = "killed"
  /\ UNCHANGED <<at, derailed>>

Reaped ==
  /\ status \in {"exited", "killed"}
  /\ status' = "reaped"
  /\ UNCHANGED <<at, derailed>>

Derail == derailed' = TRUE

Next == Run \/ Exit \/ Killed \/ Reaped \/ Derail

Spec == Init /\ [][Next]_<<at, status, derailed>>
=============================================================================
