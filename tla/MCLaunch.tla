------------------------------ MODULE MCLaunch ------------------------------
(***************************************************************************)
(* Launches for TLC, of a program whose only instruction is an exit, with  *)
(* two compilation units.                                                  *)
(*                                                                         *)
(* Diamond: two libraries share a third, and one that is not there comes   *)
(* before one that is.  Cycle: two libraries below a DT_RUNPATH that ends  *)
(* in a separator need each other.  Unsound: the DT_RUNPATH, for which the *)
(* DT_RPATH behind it is ignored, has no separator, the last function of   *)
(* the program has no address, and the library has no functions.  Static:  *)
(* the program itself can not be loaded.  Whole: everything loads, so that *)
(* the prompt has symbols to list.                                         *)
(***************************************************************************)
EXTENDS Launch

OneImage    == 0 :> 16 @@ 1 :> 6
OneInsnLen  == 0 :> 2
OneSucc     == 0 :> {}
OneSyscalls == {0}

Row(l, a) == [line |-> l, address |-> a]
TwoUnits  == << <<Row(1, 0)>>, <<Row(3, 0)>> >>

Fun(n)      == [name |-> n, defined |-> TRUE]
Undef(n)    == [name |-> n, defined |-> FALSE]
Tag(t, v)   == [tag |-> t, value |-> v]
Needed(l)   == Tag("NEEDED", l)
File(fs, d) == [functions |-> fs, dynamic |-> d]

Diamond ==
  "prog"    :> File(<<Fun("main")>>,
                    <<Needed("a"), Needed("lost"), Needed("b")>>) @@
  "/lib/a"  :> File(<<Fun("f")>>, <<Needed("c")>>) @@
  "/lib/b"  :> File(<<Fun("g")>>, <<Needed("c")>>) @@
  "/lib/c"  :> File(<<Fun("h")>>, <<>>)

Cycle ==
  "prog"    :> File(<<Fun("main")>>, <<Tag("RUNPATH", "/r/"), Needed("a")>>) @@
  "/r/a"    :> File(<<Fun("f")>>, <<Needed("b"), Tag("RPATH", "/r/")>>) @@
  "/r/b"    :> File(<<Fun("g")>>, <<Tag("RPATH", "/r/"), Needed("a")>>)

Unsound ==
  "prog"    :> File(<<Fun("main"), Undef("puts")>>,
                    <<Tag("RUNPATH", "/r"), Tag("RPATH", "/r/"), Needed("a"), Needed("d")>>) @@
  "/r/a"    :> File(<<Fun("f")>>, <<>>) @@
  "/rd"     :> File(<<>>, <<Needed("e")>>) @@
  "/lib/e"  :> File(<<Fun("k")>>, <<>>)

Static == "/lib/a" :> File(<<Fun("f")>>, <<>>)

Whole ==
  "prog"    :> File(<<Fun("main")>>, <<Tag("RUNPATH", "/r/"), Needed("a")>>) @@
  "/r/a"    :> File(<<Fun("f")>>, <<>>)

AllFileSystems == {Diamond, Cycle, Unsound, Static, Whole}
SharedOnly     == {Diamond}

(* The stack has room for each of these, so that it overflows for the      *)
(* cycle only.                                                             *)
ASSUME RoomAssumption == DepthSuffices
=============================================================================
