------------------------------ MODULE MCSession ------------------------------
(***************************************************************************)
(* Programs for TLC.                                                       *)
(*                                                                         *)
(* Four: a push (one byte), a write system call, a conditional branch back *)
(* to the push and an exit (two bytes each), and a byte of padding, so     *)
(* that a word fits at the exit.  The push is one byte long: an            *)
(* instruction pointer behind it is one past a possible breakpoint.  The   *)
(* branch starts with 0xff, which has the four bits that RemoveElement     *)
(* looks for.                                                              *)
(*                                                                         *)
(* Three: a push, a write system call and an exit, for the runs that       *)
(* follow the process behind a hazard.                                     *)
(*                                                                         *)
(* Loop: a push, a write system call and a jump back, for ever.            *)
(***************************************************************************)
EXTENDS DebugSession

FourImage    == 0 :> 85 @@ 1 :> 15 @@ 2 :> 5 @@ 3 :> 255 @@ 4 :> 208
                @@ 5 :> 16 @@ 6 :> 6 @@ 7 :> 0
FourInsnLen  == 0 :> 1 @@ 1 :> 2 @@ 3 :> 2 @@ 5 :> 2
FourSucc     == 0 :> {1} @@ 1 :> {3} @@ 3 :> {0, 5} @@ 5 :> {}
FourSyscalls == {1, 5}
FourExits    == {5}

(* Two breakpoints that share a word, one that shares none with the first, *)
(* and an address outside the text.                                        *)
FourTargets  == {0, 1, 3, 99}

ThreeImage    == 0 :> 85 @@ 1 :> 15 @@ 2 :> 5 @@ 3 :> 16 @@ 4 :> 6
ThreeInsnLen  == 0 :> 1 @@ 1 :> 2 @@ 3 :> 2
ThreeSucc     == 0 :> {1} @@ 1 :> {3} @@ 3 :> {}
ThreeSyscalls == {1, 3}
ThreeExits    == {3}
ThreeTargets  == {0, 1, 99}

LoopImage    == 0 :> 85 @@ 1 :> 15 @@ 2 :> 5 @@ 3 :> 235 @@ 4 :> 251
LoopSucc     == 0 :> {1} @@ 1 :> {3} @@ 3 :> {0}
LoopSyscalls == {1}

(* A hazard is never undone and ends every promise that names Clean: the   *)
(* run that checks those promises stops where they end.                    *)
UntilHazard == Clean
=============================================================================
